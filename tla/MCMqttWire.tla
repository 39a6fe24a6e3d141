---------------------------- MODULE MCMqttWire ----------------------------
EXTENDS MqttWire, TLC

\* The publishes are interchangeable.
MessageSymmetry == Permutations(Messages)
=============================================================================
