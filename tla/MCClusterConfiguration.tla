----------------------- MODULE MCClusterConfiguration -----------------------
(* Instances of ClusterConfiguration for TLC. *)
EXTENDS ClusterConfiguration

\* Two administrators, others alone, and one named twice, so that an edit may replace
\* all of them; undefined, empty and two issuers.
MCSpecs ==
    {[admins |-> <<"ann">>, oidc |-> <<"i2", "i1">>],
     [admins |-> <<"bob", "bob">>, oidc |-> <<Undefined>>],
     [admins |-> <<"bob", "ann">>, oidc |-> <<>>]}

MCTwoIssuers == {[admins |-> <<"ann">>, oidc |-> <<"i2", "i1">>]}

MCParts == <<"configmap", "pullsecret">>

=============================================================================
