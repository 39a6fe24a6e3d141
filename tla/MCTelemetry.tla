--------------------------- MODULE MCTelemetry ---------------------------
(* Two names, one of them in two spellings, and assets of up to two parts.  *)
EXTENDS Telemetry

MCKeys == {"a", "A", "b"}
MCFold(k) == IF k = "A" THEN "a" ELSE k
MCAssets == {<<>>, <<"a">>, <<"A">>, <<"b">>, <<"a", "b">>}
=============================================================================
