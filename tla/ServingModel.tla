---------------------------- MODULE ServingModel ----------------------------
(***************************************************************************)
(* What queries may rely on while models are being migrated: the active    *)
(* model changes in one step, only to a namespace that holds the whole     *)
(* corpus (or to one another program owns), and the namespace that serves  *)
(* queries is never taken apart.  Reindex implements this specification as *)
(* long as no contracted source has to be restored.                        *)
(***************************************************************************)
CONSTANTS Namespaces, Foreign, NoModel

VARIABLES serving, whole

vars == <<serving, whole>>

Init ==
  /\ whole \subseteq Namespaces
  /\ serving \in whole \cup {NoModel}

Switch(n) ==
  /\ n \in whole \cup Foreign
  /\ serving' = n
  /\ UNCHANGED whole

\* A namespace is completed, or one that is not serving is emptied.
Rebuild ==
  /\ whole' \subseteq Namespaces
  /\ serving \in whole => serving \in whole'
  /\ UNCHANGED serving

Next == Rebuild \/ \E n \in Namespaces \cup Foreign : Switch(n)

Spec == Init /\ [][Next]_vars
=============================================================================
