------------------------- MODULE MCClientRegistry -------------------------
EXTENDS ClientRegistry, TLC

\* Objects, devices and messages are interchangeable.
RegistrySymmetry == Permutations(Clients) \cup Permutations(Devices) \cup Permutations(Messages)
=============================================================================
