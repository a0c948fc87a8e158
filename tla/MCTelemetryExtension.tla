------------------------ MODULE MCTelemetryExtension ------------------------
(***************************************************************************)
(* The extension with the proportions of its defaults: a request may take  *)
(* half a scrape interval (5 s of 10 s).  The interval of the              *)
(* configuration, 180 s, is shortened to five requests.                    *)
(***************************************************************************)
EXTENDS TelemetryExtension

Flags == {"--config", "--metrics-port", "--log-level"}
MCText == {"--config", "--metrics-port", "--log-level", "f", "g"}
Words == {"f", "g"}
Flagged == {<<<<f, w>>>> : f \in Flags, w \in Words} \cup {<<<<f>>, <<w>>>> : f \in Flags, w \in Words}

\* Up to three flags, each in one of its two forms; no value has an equal sign in it.
MCArguments ==
  {<<>>} \cup Flagged \cup {a \o b : a, b \in Flagged} \cup {a \o b \o c : a, b, c \in Flagged}
=============================================================================
