--------------------------- MODULE MCConfigReload ---------------------------
(***************************************************************************)
(* Instances of ConfigReload for TLC; one Runtime has an ACL and, where    *)
(* there are two, the other has not.                                       *)
(***************************************************************************)
EXTENDS ConfigReload

MCAlone ==
    [runtimes |-> {"r1"}, changes |-> 2, edits |-> 1, trouble |-> {}]

\* Two Runtimes and one change of each object; one Runtime, two changes and
\* failing calls; one Runtime, an edit, one change and failing calls, and then
\* everything that goes wrong.
MCScenarios ==
    {[runtimes |-> {"r1", "r2"}, changes |-> 1, edits |-> 0, trouble |-> {}],
     [MCAlone EXCEPT !.edits = 0, !.trouble = {"api"}],
     [MCAlone EXCEPT !.changes = 1, !.trouble = {"api"}],
     [MCAlone EXCEPT !.changes = 1, !.trouble = {"status", "api", "restart", "kubeconfig"}]}

MCQuietScenarios == {MCAlone}
=============================================================================
