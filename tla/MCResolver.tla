---------------------------- MODULE MCResolver ----------------------------
(* Small instances of Configuration with the Resolver in front, for TLC.  In *)
(* one scenario two mutations overlap, of whatever users; in the other a     *)
(* mutation of the superuser overlaps loads without end.                     *)
EXTENDS MCConfiguration, Resolver

CONSTANT Second     \* the mutation that the other scenario does without

VARIABLE scenario

MCInit == ResolverInit /\ scenario \in {"mutations", "loads"}

\* Of two that overlap each has a user, and one is a superuser's who binds no roles.
Mutations ==
    /\ Configure /\ UNCHANGED resolverVars
    /\ (\A c \in Calls : call'[c].op # "none") =>
          /\ \A c \in Calls : call'[c].user # Nobody
          /\ call'[Second].user = Superuser /\ call'[Second].op # "bind"

Loads ==
    /\ ResolverNext
    /\ call'[Second] = call[Second]
    /\ \A c \in Calls : call'[c].user \in {Superuser, Nobody}

MCNext ==
    /\ UNCHANGED scenario
    /\ \/ scenario = "mutations" /\ Mutations
       \/ scenario = "loads" /\ Loads

mcVars == <<vars, scenario>>

\* As in FairResolverSpec.
MCSpec == MCInit /\ [][MCNext]_mcVars /\ WF_mcVars(Tick /\ UNCHANGED scenario)
=============================================================================
