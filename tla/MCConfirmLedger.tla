--------------------------- MODULE MCConfirmLedger ---------------------------
(* Two people on two channels; a tool that declares a target (send_message,  *)
(* with two possible targets) and one that does not (exec).                  *)
EXTENDS ConfirmLedger, TLC

CONSTANTS sendA, sendB, runX, send_message, exec, roomA, roomB

MCToolOf == [c \in Calls |-> IF c = runX THEN exec ELSE send_message]
MCTargetOf == [c \in Calls |-> CASE c = sendA -> roomA
                                 [] c = sendB -> roomB
                                 [] c = runX -> NoTarget]

(* Nothing but the tool policy, which does not name people, tells them apart. *)
People == Permutations(Principals)
=============================================================================
