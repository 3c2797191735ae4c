----------------------------- MODULE MC_CaeReader ------------------------------
(* Small instances of CaeReader for TLC: the setups of the client.               *)
EXTENDS CaeReader

(* Two decks started by the user, or one that loops by itself                    *)
PlainSetups == {[slots |-> {"a", "b"}, loops |-> {}], [slots |-> {"a"}, loops |-> {"a"}]}
(* A deck that loops beside one that does not                                    *)
LoopSetups == {[slots |-> {"a", "b"}, loops |-> {"a"}]}
================================================================================
