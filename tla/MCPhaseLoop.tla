------------------------------ MODULE MCPhaseLoop ------------------------------
(* The engine on one task: reviews that report at most one finding of a kind. *)
EXTENDS PhaseLoop
MCKinds == [severe : BOOLEAN, category : BOOLEAN, resolved : BOOLEAN]
MCReports == {{}} \union {{f} : f \in MCKinds}
               \union {{f, g} : f, g \in {k \in MCKinds : ~k.resolved}}
MCSynthetic == <<0, {}>>
MCIds == (Nat \X MCKinds) \union {MCSynthetic}
MCLists == {<<>>, <<"review">>, <<"implement", "review">>}
=============================================================================
