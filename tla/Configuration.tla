--------------------------- MODULE Configuration ---------------------------
(***************************************************************************)
(* The remotes and refractions an administrator configures: the mutations  *)
(* of the GraphQL API (core/internal/graph), the permission checks in      *)
(* front of them (core/internal/permissions, which asks the RBAC sidecar)  *)
(* and the repositories behind them (core/pkg/db/repo).                    *)
(*                                                                         *)
(* A mutation is a sequence of round trips, to the sidecar and to the      *)
(* database, with no transaction around them; each is a step.  Any of them *)
(* may fail, which ends the mutation and undoes nothing.                   *)
(*                                                                         *)
(* Of a remote's settings the model keeps the mode and the token of its    *)
(* own; names matter because they are unique and because roles are bound   *)
(* to names, while permission is asked for IDs.                            *)
(***************************************************************************)
EXTENDS Naturals, FiniteSets

CONSTANTS
    Calls,          \* mutations, each of which happens at most once
    Users,          \* the subjects, as NormalUser leaves them
    Superuser,      \* the user NewManager makes one
    Nobody,         \* a request without a user
    Remotes,        \* IDs of remotes
    Refractions,    \* IDs of refractions
    GoRemote, GoRefraction, \* the two that Prism manages itself
    Names,          \* names a user gives to remotes and refractions
    Absent,         \* no ID, no name
    Tokens,         \* values of DirectToken
    Provisioned,    \* role bindings the operator put into the sidecar
    FirstRemotes, FirstRefractions, \* rows at the start, besides Go's
    FirstName       \* their names

NoToken == "no token"
GoName == "go"
Settings == [mode : {"NONE", "DIRECT"}, token : Tokens \cup {NoToken}]
Resources == ({"remote"} \X (Names \cup Remotes)) \cup ({"refraction"} \X (Names \cup Refractions))
Verbs == {"UPDATE", "DELETE", "SUDO"}
Bindings == [sub : Users, res : Resources, verb : Verbs]

ASSUME ConfigurationAssumption ==
    /\ Superuser \in Users /\ Nobody \notin Users
    /\ GoRemote \in Remotes /\ GoRefraction \in Refractions
    /\ FirstRemotes \subseteq Remotes \ {GoRemote}
    /\ FirstRefractions \subseteq Refractions \ {GoRefraction}
    /\ FirstName \in [Remotes \cup Refractions -> Names]
    /\ Absent \notin Remotes \cup Refractions \cup Names /\ GoName \notin Names
    /\ Remotes \cap Refractions = {}
    /\ NoToken \notin Tokens
    /\ Provisioned \subseteq Bindings

VARIABLES
    live,       \* the tables: which rows are there
    name,       \* the names of remotes and refractions
    security,   \* the table of settings, whose rows are never deleted
    members,    \* the join table: the remotes of each refraction
    supers,     \* the sidecar: who has the global role SUPER
    bindings,   \* the sidecar: the other roles
    tasks,      \* remotes an index task was enqueued for
    call,       \* call[c]: where mutation c is, and what it holds
    deleted,    \* history: rows a mutation deleted
    overtaken   \* history: rows deleted while another mutation held a copy

tables == <<live, name, security, members>>
sidecar == <<supers, bindings>>
history == <<deleted, overtaken>>
configVars == <<tables, sidecar, tasks, call, history>>

KindOf(id) == IF id \in Remotes THEN "remote" ELSE "refraction"

\* What a mutation asks for; the unused fields keep these values.
Blank == [pc |-> "idle", op |-> "none", user |-> Nobody, kind |-> "remote",
          id |-> Absent, name |-> Absent, verb |-> "SUDO", subject |-> Nobody,
          settings |-> [mode |-> "NONE", token |-> NoToken],
          remotes |-> {}, copy |-> {}]

At(c, label) == call[c].pc = label
Done == [Blank EXCEPT !.pc = "done"]
Goto(c, label) ==
    call' = [call EXCEPT ![c] = IF label = "done" THEN Done ELSE [@ EXCEPT !.pc = label]]

-----------------------------------------------------------------------------
(* The sidecar (external): a role on a resource allows its verb, SUDO      *)
(* allows every verb, and SUPER has SUDO everywhere.                       *)

Can(u, res, verb) ==
    \/ u \in supers
    \/ \E v \in {verb, "SUDO"} : [sub |-> u, res |-> res, verb |-> v] \in bindings

\* Manager.AmI(SUPER) and Manager.CanI.
AmI_NoUser(u) == u \in supers \/ u = Nobody
AmI(u) == u \in supers
CanI_ToUpdate(u, res, verb) ==
    u # Nobody /\ (Can(u, res, verb) \/ (verb = "DELETE" /\ Can(u, res, "UPDATE")))
CanI_AnyVerb(u, res, verb) == u # Nobody /\ \E v \in Verbs : Can(u, res, v)
CanI(u, res, verb) == u # Nobody /\ Can(u, res, verb)

-----------------------------------------------------------------------------
\* Database.defaults: created when they are not there, ON CONFLICT DO NOTHING.
Init ==
    /\ live = {GoRemote, GoRefraction} \cup FirstRemotes \cup FirstRefractions
    /\ name = [i \in Remotes \cup Refractions |->
                  IF i \in {GoRemote, GoRefraction} THEN GoName ELSE FirstName[i]]
    /\ security = [r \in Remotes |-> [mode |-> "NONE", token |-> NoToken]]
    /\ members = [f \in Refractions |->
                     IF f = GoRefraction THEN {GoRemote}
                     ELSE IF f \in FirstRefractions THEN FirstRemotes ELSE {}]
    /\ supers = {Superuser}
    /\ bindings = Provisioned
    /\ tasks = {}
    /\ call = [c \in Calls |-> Blank]
    /\ deleted = {} /\ overtaken = {}

Receive(c, q) ==
    /\ At(c, "idle")
    /\ call' = [call EXCEPT ![c] = q]
    /\ UNCHANGED <<tables, sidecar, tasks, history>>

Ask(op, pc, u) == [Blank EXCEPT !.op = op, !.pc = pc, !.user = u]

CreateRemote(c) == \E u \in Users \cup {Nobody}, n \in Names, s \in {"NONE", "DIRECT"} :
    Receive(c, [Ask("createRemote", "amI", u) EXCEPT !.name = n, !.settings.mode = s])

PatchRemote(c) == \E u \in Users \cup {Nobody}, r \in Remotes, s \in Settings :
    Receive(c, [Ask("patchRemote", "canI", u) EXCEPT !.id = r, !.verb = "UPDATE",
                                                     !.settings = s])

DeleteRemote(c) == \E u \in Users \cup {Nobody}, r \in Remotes :
    Receive(c, [Ask("deleteRemote", "canI", u) EXCEPT !.id = r, !.verb = "DELETE"])

CreateRefraction(c) == \E u \in Users \cup {Nobody}, n \in Names, rs \in SUBSET Remotes :
    Receive(c, [Ask("createRefraction", "amI", u) EXCEPT !.kind = "refraction",
                                                         !.name = n, !.remotes = rs])

PatchRefraction(c) ==
    \E u \in Users \cup {Nobody}, f \in Refractions, n \in Names, rs \in SUBSET Remotes :
        Receive(c, [Ask("patchRefraction", "canI", u) EXCEPT !.kind = "refraction",
                        !.id = f, !.verb = "UPDATE", !.name = n, !.remotes = rs])

DeleteRefraction(c) == \E u \in Users \cup {Nobody}, f \in Refractions :
    Receive(c, [Ask("deleteRefraction", "canI", u) EXCEPT !.kind = "refraction",
                                                          !.id = f, !.verb = "DELETE"])

\* NewRoleBinding: a subject, a resource and a verb, or a global role for a subject.
CreateRoleBinding(c) ==
    \E u \in Users \cup {Nobody}, w \in Users, res \in Resources, v \in Verbs :
        Receive(c, [Ask("bind", "canI", u) EXCEPT !.kind = res[1], !.name = res[2],
                                                  !.verb = v, !.subject = w])
CreateGlobalBinding(c) == \E u \in Users \cup {Nobody}, w \in Users :
    Receive(c, [Ask("bindGlobal", "amI", u) EXCEPT !.subject = w])

-----------------------------------------------------------------------------
(* Permission.                                                             *)

\* The resource and verb permission is asked for: SUDO on the name for what is
\* created or bound, the ID and the verb for what is patched or deleted.
Resource(c) == <<call[c].kind, IF call[c].id = Absent THEN call[c].name ELSE call[c].id>>
Required(c) == IF call[c].id = Absent THEN "SUDO" ELSE call[c].verb

Superusers(c) ==
    /\ At(c, "amI")
    /\ AmI(call[c].user)
    /\ Goto(c, IF call[c].op = "bindGlobal" THEN "bindGlobal" ELSE "canI")
    /\ UNCHANGED <<tables, sidecar, tasks, history>>

Permitted(c) ==
    /\ At(c, "canI")
    /\ CanI(call[c].user, Resource(c), Required(c))
    /\ Goto(c, CASE call[c].op \in {"createRemote", "createRefraction", "bind"} -> "bind"
                 [] call[c].op = "deleteRefraction" -> "delete"
                 [] OTHER -> "read")
    /\ UNCHANGED <<tables, sidecar, tasks, history>>

\* A check fails, the sidecar or the database does not answer, or a statement
\* is refused; a mutation also ends here when its client leaves.
Fail(c) ==
    /\ call[c].pc \notin {"idle", "done"}
    /\ Goto(c, "done")
    /\ UNCHANGED <<tables, sidecar, tasks, history>>

\* createRoleBinding: the verb asked for, for the caller; the subject in the input
\* is not looked at, neither here nor for a global role.
Bound(c) == {[sub |-> call[c].user, res |-> Resource(c), verb |-> call[c].verb]}

Bind(c) ==
    /\ At(c, "bind")
    /\ bindings' = bindings \cup Bound(c)
    /\ Goto(c, CASE call[c].op = "bind" -> "done"
                 [] call[c].op = "createRemote" -> "insert"
                 [] OTHER -> "readRemotes")
    /\ UNCHANGED <<tables, supers, tasks, history>>

BindGlobal(c) ==
    /\ At(c, "bindGlobal")
    /\ supers' = supers \cup {call[c].user}
    /\ Goto(c, "done")
    /\ UNCHANGED <<tables, bindings, tasks, history>>

-----------------------------------------------------------------------------
(* Remotes.                                                                *)

\* gen_random_uuid(), and the unique index on names.
Fresh(ids) == ids \ (live \cup deleted)
NameTaken(n, ids) == \E i \in ids \cap live : name[i] = n

InsertRemote(c) == \E r \in Fresh(Remotes) :
    /\ At(c, "insert")
    /\ ~NameTaken(call[c].name, Remotes)
    /\ live' = live \cup {r}
    /\ name' = [name EXCEPT ![r] = call[c].name]
    /\ security' = [security EXCEPT ![r] = call[c].settings]
    /\ call' = [call EXCEPT ![c].pc = "enqueue", ![c].id = r]
    /\ UNCHANGED <<members, sidecar, tasks, history>>

\* The error of Enqueue is dropped.
Enqueue(c) ==
    /\ At(c, "enqueue")
    /\ tasks' \in {tasks, tasks \cup {call[c].id}}
    /\ Goto(c, "done")
    /\ UNCHANGED <<tables, sidecar, history>>

\* What a patch or a deletion fetches first: it must exist and not be Go's.
Found_Unguarded(id) == id \in live
Found(id) == id \in live /\ id \notin {GoRemote, GoRefraction}

ReadRemote(c) ==
    /\ At(c, "read")
    /\ call[c].kind = "remote"
    /\ Found(call[c].id)
    /\ Goto(c, IF call[c].op = "patchRemote" THEN "save" ELSE "dereference")
    /\ UNCHANGED <<tables, sidecar, tasks, history>>

\* Save(&rem.Security): the row of settings, not that of the remote.
SaveSecurity(c) ==
    /\ At(c, "save")
    /\ call[c].kind = "remote"
    /\ security' = [security EXCEPT ![call[c].id] = call[c].settings]
    /\ Goto(c, "done")
    /\ UNCHANGED <<live, name, members, sidecar, tasks, history>>

\* Association("Remotes").Delete on an empty list of refractions, which may
\* stand for all of them or for none.
Dereference(c) ==
    /\ At(c, "dereference")
    /\ members' \in {members, [f \in Refractions |-> members[f] \ {call[c].id}]}
    /\ Goto(c, "delete")
    /\ UNCHANGED <<live, name, security, sidecar, tasks, history>>

\* Rows another mutation has read and will write back.
HeldElsewhere(c, id) == \E d \in Calls \ {c} :
    id \in call[d].copy \/ (At(d, "readRemotes") /\ call[d].id = id)

Deletes(c, id) ==
    /\ live' = live \ {id}
    /\ deleted' = deleted \cup {id}
    /\ overtaken' = IF HeldElsewhere(c, id) THEN overtaken \cup {id} ELSE overtaken
    /\ Goto(c, "done")
    /\ UNCHANGED <<name, security, members, sidecar, tasks>>

\* The foreign keys of the join table keep a row that is referred to.
DeleteRemoteRow(c) ==
    /\ At(c, "delete")
    /\ call[c].kind = "remote"
    /\ \A f \in Refractions : call[c].id \notin members[f]
    /\ Deletes(c, call[c].id)

-----------------------------------------------------------------------------
(* Refractions.                                                            *)

ReadRefraction(c) ==
    /\ At(c, "read")
    /\ call[c].kind = "refraction"
    /\ Found(call[c].id)
    /\ Goto(c, "readRemotes")
    /\ UNCHANGED <<tables, sidecar, tasks, history>>

\* Those of the remotes asked for that exist.
Existing_AsAsked(remotes) == remotes
Existing(remotes) == remotes \cap live

\* The refraction is held already.
ReadRemotes(c) ==
    /\ At(c, "readRemotes")
    /\ call' = [call EXCEPT ![c].pc = "save",
                            ![c].copy = Existing(call[c].remotes) \cup
                                          ({call[c].id} \cap Refractions)]
    /\ UNCHANGED <<tables, sidecar, tasks, history>>

\* gorm saves a row with its associations, here in one step: it updates the row
\* or inserts it when there is none, inserts the associated rows that are not
\* there, and adds to the join table what is not in it.  It removes nothing.
SavedMembers(old, copy) == old \cup (copy \cap Remotes)

SaveRefraction(c) ==
    \E f \in IF call[c].id = Absent THEN Fresh(Refractions) ELSE {call[c].id} :
        /\ At(c, "save")
        /\ call[c].kind = "refraction"
        /\ ~NameTaken(call[c].name, Refractions \ {f})
        /\ \A r \in (call[c].copy \cap Remotes) \ live : ~NameTaken(name[r], Remotes)
        /\ live' = live \cup {f} \cup call[c].copy
        /\ name' = [name EXCEPT ![f] = call[c].name]
        /\ members' = [members EXCEPT ![f] = SavedMembers(@, call[c].copy)]
        /\ Goto(c, "done")
        /\ UNCHANGED <<security, sidecar, tasks, history>>

DeleteRefractionRow(c) ==
    /\ At(c, "delete")
    /\ call[c].kind = "refraction"
    /\ call[c].id \in live \ {GoRefraction}
    /\ members[call[c].id] = {}
    /\ Deletes(c, call[c].id)

-----------------------------------------------------------------------------
Request(c) ==
    \/ CreateRemote(c) \/ PatchRemote(c) \/ DeleteRemote(c)
    \/ CreateRefraction(c) \/ PatchRefraction(c) \/ DeleteRefraction(c)
    \/ CreateRoleBinding(c) \/ CreateGlobalBinding(c)

Mutate(c) ==
    \/ Superusers(c) \/ Permitted(c) \/ Fail(c) \/ Bind(c) \/ BindGlobal(c)
    \/ InsertRemote(c) \/ Enqueue(c) \/ ReadRemote(c) \/ SaveSecurity(c)
    \/ Dereference(c) \/ DeleteRemoteRow(c)
    \/ ReadRefraction(c) \/ ReadRemotes(c) \/ SaveRefraction(c)
    \/ DeleteRefractionRow(c)

Configure == \E c \in Calls : Request(c) \/ Mutate(c)

Spec == Init /\ [][Configure]_configVars

-----------------------------------------------------------------------------
TypeOK ==
    /\ live \subseteq Remotes \cup Refractions
    /\ name \in [Remotes \cup Refractions -> Names \cup {GoName}]
    /\ security \in [Remotes -> Settings]
    /\ members \in [Refractions -> SUBSET Remotes]
    /\ supers \subseteq Users
    /\ bindings \subseteq Bindings
    /\ tasks \subseteq Remotes
    /\ \A c \in Calls : call[c].user \in Users \cup {Nobody}
    /\ deleted \subseteq Remotes \cup Refractions /\ overtaken \subseteq deleted

\* "they must be managed by Prism" (remote.go:58-59): no mutation, alone or
\* overlapping another, touches the remote and the refraction of the Go proxy.
GoIsManaged ==
    /\ {GoRemote, GoRefraction} \subseteq live
    /\ name[GoRemote] = GoName /\ name[GoRefraction] = GoName
    /\ members[GoRefraction] = {GoRemote}
    /\ security[GoRemote] = [mode |-> "NONE", token |-> NoToken]

\* What was deleted stays deleted, unless a mutation that had read the row
\* before the deletion writes it back after.
DeletedIsGone == deleted \cap live \subseteq overtaken

\* Authority comes from those who have it: whoever is given a role on a resource
\* or the role SUPER, it is by a mutation whose user had SUDO on that resource, or
\* SUPER, although they are asked for it in an earlier round trip.
AuthorityIsGiven == [][
    /\ \A b \in bindings' \ bindings : \E c \in Calls :
          call'[c] # call[c] /\ Can(call[c].user, b.res, "SUDO")
    /\ supers' # supers => \E c \in Calls :
          call'[c] # call[c] /\ call[c].user \in supers
    ]_configVars

\* The input of createRoleBinding has a required subject (schema.graphqls:215-219),
\* the user chosen in the form, and owners of a resource may create bindings for
\* it (resolver.go:138-139): the role is that subject's.
SubjectIsBound == [][
    \A b \in bindings' \ bindings : \E c \in Calls :
        /\ call'[c] # call[c]
        /\ call[c].op = "bind" => b.sub = call[c].subject
    ]_configVars

\* Settings change, and rows go, only by a mutation whose user may do that to
\* that very row, whatever roles are bound to its name; a new remote's settings
\* come from a superuser.
OnlyPermitted == [][
    /\ \A r \in Remotes : security'[r] # security[r] =>
          \E c \in Calls : /\ call'[c] # call[c]
                           /\ \/ Can(call[c].user, <<"remote", r>>, "UPDATE")
                              \/ r \notin live /\ call[c].user \in supers
    /\ \A i \in deleted' \ deleted :
          \E c \in Calls : /\ call'[c] # call[c]
                           /\ Can(call[c].user, <<KindOf(i), i>>, "DELETE")
    ]_configVars
=============================================================================
