------------------------------- MODULE MCPool -------------------------------
(***************************************************************************)
(* Small instances of Pool for TLC: two coders, and deployments that       *)
(* differ in how a lane finds them.                                        *)
(***************************************************************************)
EXTENDS Pool, TLC

MCLanes == <<"local", "frontier">>
MCRoles == ("local" :> "default") @@ ("frontier" :> "escalation")
MCFix   == ("NORMAL" :> Name("coder")) @@ ("ESCALATED" :> Name("big"))

\* One lane has a coder of its own, which it shares with the others.
Shared ==
    [slots |-> ("*" :> 1), fixFirst |-> {}, polled |-> <<>>, fix |-> MCFix,
     lanes |-> ("frontier" :> List(<<"big">>)) @@ ("*" :> List(<<"coder", "big">>)),
     repos |-> <<>>, bases |-> <<>>]

\* The coder of the fixes joins the issues only when it is idle.
FixFirst == [Shared EXCEPT !.fixFirst = {"coder"}, !.slots = ("coder" :> 2) @@ ("big" :> 1)]

\* A lane is mapped by its role, the other issues go by repository, then by language.
Tiers ==
    [Shared EXCEPT !.lanes = ("default" :> List(<<"coder">>)), !.repos = ("org/lib" :> Name("big")),
                   !.bases = ("python" :> Name("big")) @@ ("*" :> Name("coder"))]

\* Each lane is mapped by its role, and nothing else is.
ByRole ==
    [Shared EXCEPT !.lanes = ("default" :> List(<<"coder">>)) @@ ("escalation" :> List(<<"big">>))]

AllDeployments == {FixFirst, Tiers}
OneDeployment  == {Shared}
RoleDeployment == {ByRole}

i1 == [kind |-> "issue", lane |-> "local", repo |-> "org/app", language |-> "go", number |-> 2]
i2 == [kind |-> "issue", lane |-> "frontier", repo |-> "org/lib", language |-> "python",
       number |-> 1]
f1 == [kind |-> "fix", lane |-> "NORMAL", repo |-> "org/app", language |-> "go", number |-> 3]

MCJobs == {1, 2, 3}
MCJob  == <<i1, i2, f1>>

=============================================================================
