------------------------ MODULE ConfigurationProofs ------------------------
(***************************************************************************)
(* Theorems about Configuration, and about the Resolver in front of it,    *)
(* for any mutations, users, rows, names, tokens, role bindings, requests, *)
(* and lifetime of a cache entry.                                          *)
(*                                                                         *)
(* Configuration's inductive invariant says of every mutation under way,   *)
(* at the round trip it is about to make, what it was asked (OpAt, Asked), *)
(* what its user may do (Allowed), which rows it is not about (Guarded)    *)
(* and which it holds (HeldInv).  A step changes one mutation; the others  *)
(* keep what is said of them because roles are only ever added             *)
(* (StepOfOne).                                                            *)
(*                                                                         *)
(* What Configuration keeps it keeps with the cache in front, as a request *)
(* for a refraction changes nothing of the configuration; of that, the     *)
(* loads need the types and that no refraction refers to a remote that is  *)
(* gone: otherwise the remotes loaded would be fewer than those            *)
(* configured.  The Resolver's invariant says of each load, before and     *)
(* after its second query, what it has in common with the database.        *)
(***************************************************************************)
EXTENDS Resolver, TLAPS

Ids == Remotes \cup Refractions
Labels == {"idle", "amI", "canI", "bind", "bindGlobal", "insert", "enqueue", "read",
           "save", "dereference", "delete", "readRemotes", "done"}
Creating == {"createRemote", "createRefraction"}
Patching == {"patchRemote", "patchRefraction"}
Deleting == {"deleteRemote", "deleteRefraction"}
Ops == Creating \cup Patching \cup Deleting \cup {"bind", "bindGlobal", "none"}

Records == [pc : Labels, op : Ops, user : Users \cup {Nobody},
            kind : {"remote", "refraction"}, id : Ids \cup {Absent},
            name : Names \cup Ids \cup {Absent}, verb : Verbs,
            subject : Users \cup {Nobody}, settings : Settings,
            remotes : SUBSET Remotes, copy : SUBSET Ids]

Types ==
    /\ live \subseteq Ids
    /\ name \in [Ids -> Names \cup {GoName}]
    /\ security \in [Remotes -> Settings]
    /\ members \in [Refractions -> SUBSET Remotes]
    /\ supers \subseteq Users
    /\ bindings \subseteq Bindings
    /\ tasks \subseteq Remotes
    /\ deleted \subseteq Ids /\ overtaken \subseteq deleted

\* Which mutations make which round trips.
OpAt(r) ==
    /\ r.pc = "amI" => r.op \in Creating \cup {"bindGlobal"}
    /\ r.pc = "canI" => r.op \in Creating \cup Patching \cup Deleting \cup {"bind"}
    /\ r.pc = "bind" => r.op \in Creating \cup {"bind"}
    /\ r.pc = "bindGlobal" => r.op = "bindGlobal"
    /\ r.pc \in {"insert", "enqueue"} => r.op = "createRemote"
    /\ r.pc = "read" => r.op \in Patching \cup {"deleteRemote"}
    /\ r.pc = "save" => r.op \in Patching \cup {"createRefraction"}
    /\ r.pc = "dereference" => r.op = "deleteRemote"
    /\ r.pc = "delete" => r.op \in Deleting
    /\ r.pc = "readRemotes" => r.op \in {"createRefraction", "patchRefraction"}

\* What a mutation asks for, until it has inserted its row.
Asked(r) ==
    /\ r.op \in {"createRemote", "patchRemote", "deleteRemote"} => r.kind = "remote"
    /\ r.op \in {"createRefraction", "patchRefraction", "deleteRefraction"} =>
          r.kind = "refraction"
    /\ r.op \in Creating \cup {"patchRefraction"} => r.name \in Names
    /\ r.op = "bind" => <<r.kind, r.name>> \in Resources
    /\ r.op \in {"patchRemote", "deleteRemote"} => r.id \in Remotes
    /\ r.op \in {"patchRefraction", "deleteRefraction"} => r.id \in Refractions
    /\ r.op \in {"createRefraction", "bind"} => r.id = Absent
    /\ r.op = "createRemote" /\ r.pc # "enqueue" => r.id = Absent
    /\ r.pc = "enqueue" => r.id \in Remotes
    /\ r.op \in Patching => r.verb = "UPDATE"
    /\ r.op \in Deleting => r.verb = "DELETE"

\* Only what is about to be saved carries rows, the row itself among them.
Carries(r) ==
    /\ r.copy # {} => r.pc = "save" /\ r.kind = "refraction"
    /\ r.pc = "save" /\ r.op = "patchRefraction" => r.id \in r.copy

ResourceOf(r) == <<r.kind, IF r.id = Absent THEN r.name ELSE r.id>>
RequiredOf(r) == IF r.id = Absent THEN "SUDO" ELSE r.verb

\* Past its checks a mutation's user has what they asked for.
Allowed(r) ==
    /\ r.op \in Creating /\ r.pc # "amI" => r.user \in supers
    /\ r.pc = "bindGlobal" => r.user \in supers
    /\ r.pc \in {"bind", "insert", "read", "save", "dereference", "delete",
                 "readRemotes"} =>
          r.user # Nobody /\ Can(r.user, ResourceOf(r), RequiredOf(r))

\* Past the row it fetches, a mutation is not about Go's.
Guarded(r) ==
    \/ r.pc \notin {"save", "dereference", "readRemotes", "delete"}
    \/ r.op = "deleteRefraction"
    \/ r.id \notin {GoRemote, GoRefraction}

Good(r) == OpAt(r) /\ Asked(r) /\ Carries(r) /\ Allowed(r) /\ Guarded(r)
CallsInv == call \in [Calls -> Records] /\ \A c \in Calls : Good(call[c])

\* The rows a mutation writes back if nothing else happens.
Held(r) == r.copy \cup (IF r.pc = "readRemotes" THEN {r.id} ELSE {})

\* A row that a mutation holds and another deleted is known as overtaken.
HeldInv == \A c \in Calls : Held(call[c]) \cap deleted \subseteq overtaken

IInv ==
    Types /\ CallsInv /\ HeldInv /\ GoIsManaged /\ DeletedIsGone

-----------------------------------------------------------------------------
(* Records of calls.                                                       *)

LEMMA BlankRecord ==
    /\ Blank \in Records /\ Done \in Records
    /\ Done.pc = "done" /\ Done.op = "none" /\ Done.copy = {} /\ Done.id = Absent
  BY DEF Blank, Done, Records, Labels, Ops, Verbs, Settings

LEMMA Moved ==
    ASSUME NEW r \in Records, NEW label \in Labels
    PROVE  LET s == [r EXCEPT !.pc = label] IN
           /\ s \in Records /\ s.pc = label
           /\ s.op = r.op /\ s.user = r.user /\ s.kind = r.kind /\ s.id = r.id
           /\ s.name = r.name /\ s.verb = r.verb /\ s.settings = r.settings
           /\ s.remotes = r.remotes /\ s.copy = r.copy
  BY DEF Records

\* A mutation that goes on changes nothing of what it was asked.
LEMMA GoesOn ==
    ASSUME CallsInv, NEW c \in Calls, NEW label \in Labels \ {"done"}, Goto(c, label)
    PROVE  \E s \in Records :
              /\ call' = [call EXCEPT ![c] = s]
              /\ s.pc = label
              /\ s.op = call[c].op /\ s.user = call[c].user /\ s.kind = call[c].kind
              /\ s.id = call[c].id /\ s.name = call[c].name /\ s.verb = call[c].verb
              /\ s.copy = call[c].copy
  <1> DEFINE s == [call[c] EXCEPT !.pc = label]
  <1>1. call[c] \in Records
    BY DEF CallsInv
  <1>2. call' = [call EXCEPT ![c] = s]
    BY DEF Goto, CallsInv
  <1>3. /\ s \in Records /\ s.pc = label
        /\ s.op = call[c].op /\ s.user = call[c].user /\ s.kind = call[c].kind
        /\ s.id = call[c].id /\ s.name = call[c].name /\ s.verb = call[c].verb
        /\ s.copy = call[c].copy
    BY <1>1, Moved
  <1> HIDE DEF s
  <1> QED  BY <1>2, <1>3

\* The roles there are stay, so what was allowed still is.
LEMMA GoodKept ==
    ASSUME NEW r \in Records, Good(r), supers \subseteq supers', bindings \subseteq bindings'
    PROVE  Good(r)'
  BY DEF Good, OpAt, Asked, Carries, Allowed, Guarded, Can, ResourceOf, RequiredOf

LEMMA StepOfOne ==
    ASSUME CallsInv, NEW c \in Calls, NEW s \in Records,
           call' = [call EXCEPT ![c] = s], Good(s)',
           supers \subseteq supers', bindings \subseteq bindings'
    PROVE  /\ CallsInv' /\ call'[c] = s
           /\ \A d \in Calls : d # c => call'[d] = call[d]
  <1>1. /\ call' \in [Calls -> Records] /\ call'[c] = s
        /\ \A d \in Calls : d # c => call'[d] = call[d]
    BY DEF CallsInv
  <1>2. \A d \in Calls : Good(call[d])'
    BY <1>1, GoodKept DEF CallsInv
  <1> QED  BY <1>1, <1>2 DEF CallsInv

\* A mutation that ends holds nothing.
LEMMA Ends ==
    ASSUME CallsInv, NEW c \in Calls, Goto(c, "done"),
           supers \subseteq supers', bindings \subseteq bindings'
    PROVE  /\ CallsInv' /\ call'[c].pc = "done" /\ Held(call'[c]) = {}
           /\ \A d \in Calls : d # c => call'[d] = call[d]
  <1>1. call' = [call EXCEPT ![c] = Done]
    BY DEF Goto
  <1>2. Good(Done)'
    BY BlankRecord DEF Good, OpAt, Asked, Carries, Allowed, Guarded, Creating, Patching,
                       Deleting
  <1>3. /\ CallsInv' /\ call'[c] = Done
        /\ \A d \in Calls : d # c => call'[d] = call[d]
    BY <1>1, <1>2, BlankRecord, StepOfOne
  <1> QED  BY <1>3, BlankRecord DEF Held

\* What is held by others stays accounted for while nothing is deleted.
LEMMA HeldKept ==
    ASSUME HeldInv, NEW c \in Calls, UNCHANGED history,
           \A d \in Calls : d # c => call'[d] = call[d],
           Held(call'[c]) \cap deleted \subseteq overtaken
    PROVE  HeldInv'
  BY DEF HeldInv, Held, history

\* What is said of the database is untouched by a step that leaves it alone.
LEMMA TablesKept ==
    ASSUME IInv, UNCHANGED <<tables, sidecar, history>>, tasks' \subseteq Remotes,
           CallsInv', HeldInv'
    PROVE  IInv'
  BY DEF IInv, Types, GoIsManaged, DeletedIsGone, tables, sidecar, history

LEMMA InitInvariant == Init => IInv
  <1> SUFFICES ASSUME Init PROVE IInv
    OBVIOUS
  <1> USE ConfigurationAssumption DEF Init
  <1>1. Types
    BY DEF Types, Ids, Settings
  <1>2. CallsInv
    <2>1. Good(Blank)
      BY DEF Blank, Good, OpAt, Asked, Carries, Allowed, Guarded, Creating, Patching,
             Deleting
    <2> QED  BY <2>1, BlankRecord DEF CallsInv
  <1>3. HeldInv
    BY DEF HeldInv
  <1>4. GoIsManaged /\ DeletedIsGone
    BY DEF GoIsManaged, DeletedIsGone
  <1> QED  BY <1>1, <1>2, <1>3, <1>4 DEF IInv

-----------------------------------------------------------------------------
(* Requests.                                                               *)

\* Whatever is asked, nothing is held or allowed yet.
LEMMA ReceiveInvariant ==
    ASSUME IInv, NEW c \in Calls, NEW q \in Records, Receive(c, q),
           q.pc \in {"amI", "canI"}, q.op \in Creating => q.pc = "amI", q.copy = {},
           OpAt(q), Asked(q)
    PROVE  IInv'
  <1>1. /\ call' = [call EXCEPT ![c] = q]
        /\ UNCHANGED <<tables, sidecar, history>> /\ tasks' = tasks
    BY DEF Receive, tables, sidecar, history
  <1>2. Good(q)'
    BY DEF Good, OpAt, Asked, Carries, Allowed, Guarded
  <1>3. /\ CallsInv' /\ call'[c] = q
        /\ \A d \in Calls : d # c => call'[d] = call[d]
    BY <1>1, <1>2, StepOfOne DEF IInv, sidecar
  <1>4. HeldInv'
    <2>1. Held(call'[c]) = {}
      BY <1>3 DEF Held
    <2> QED  BY <1>1, <1>3, <2>1, HeldKept DEF IInv
  <1> QED  BY <1>1, <1>3, <1>4, TablesKept DEF IInv, Types

LEMMA RequestInvariant ==
    ASSUME IInv, NEW c \in Calls, Request(c)
    PROVE  IInv'
  <1>1. CASE CreateRemote(c)
    <2> PICK u \in Users \cup {Nobody}, n \in Names, s \in {"NONE", "DIRECT"} :
          Receive(c, [Ask("createRemote", "amI", u) EXCEPT !.name = n, !.settings.mode = s])
      BY <1>1 DEF CreateRemote
    <2> DEFINE q == [Ask("createRemote", "amI", u) EXCEPT !.name = n, !.settings.mode = s]
    <2>1. /\ q \in Records /\ q.pc = "amI" /\ q.copy = {} /\ OpAt(q) /\ Asked(q)
      BY ConfigurationAssumption DEF Ask, Blank, Records, Labels, Ops, Creating, Patching,
             Deleting, Ids, Verbs, Settings, OpAt, Asked
    <2>2. Receive(c, q)
      OBVIOUS
    <2> HIDE DEF q
    <2> QED  BY <2>1, <2>2, ReceiveInvariant DEF Creating
  <1>2. CASE PatchRemote(c)
    <2> PICK u \in Users \cup {Nobody}, r \in Remotes, s \in Settings :
          Receive(c, [Ask("patchRemote", "canI", u) EXCEPT !.id = r, !.verb = "UPDATE",
                                                           !.settings = s])
      BY <1>2 DEF PatchRemote
    <2> DEFINE q == [Ask("patchRemote", "canI", u) EXCEPT !.id = r, !.verb = "UPDATE",
                                                          !.settings = s]
    <2>1. /\ q \in Records /\ q.pc = "canI" /\ q.copy = {} /\ OpAt(q) /\ Asked(q)
          /\ q.op = "patchRemote"
      BY ConfigurationAssumption DEF Ask, Blank, Records, Labels, Ops, Creating, Patching,
             Deleting, Ids, Verbs, Settings, OpAt, Asked
    <2>2. Receive(c, q)
      OBVIOUS
    <2> HIDE DEF q
    <2> QED  BY <2>1, <2>2, ReceiveInvariant DEF Creating
  <1>3. CASE DeleteRemote(c)
    <2> PICK u \in Users \cup {Nobody}, r \in Remotes :
          Receive(c, [Ask("deleteRemote", "canI", u) EXCEPT !.id = r, !.verb = "DELETE"])
      BY <1>3 DEF DeleteRemote
    <2> DEFINE q == [Ask("deleteRemote", "canI", u) EXCEPT !.id = r, !.verb = "DELETE"]
    <2>1. /\ q \in Records /\ q.pc = "canI" /\ q.copy = {} /\ OpAt(q) /\ Asked(q)
          /\ q.op = "deleteRemote"
      BY ConfigurationAssumption DEF Ask, Blank, Records, Labels, Ops, Creating, Patching,
             Deleting, Ids, Verbs, Settings, OpAt, Asked
    <2>2. Receive(c, q)
      OBVIOUS
    <2> HIDE DEF q
    <2> QED  BY <2>1, <2>2, ReceiveInvariant DEF Creating
  <1>4. CASE CreateRefraction(c)
    <2> PICK u \in Users \cup {Nobody}, n \in Names, rs \in SUBSET Remotes :
          Receive(c, [Ask("createRefraction", "amI", u) EXCEPT !.kind = "refraction",
                                                               !.name = n, !.remotes = rs])
      BY <1>4 DEF CreateRefraction
    <2> DEFINE q == [Ask("createRefraction", "amI", u) EXCEPT !.kind = "refraction",
                                                              !.name = n, !.remotes = rs]
    <2>1. /\ q \in Records /\ q.pc = "amI" /\ q.copy = {} /\ OpAt(q) /\ Asked(q)
      BY ConfigurationAssumption DEF Ask, Blank, Records, Labels, Ops, Creating, Patching,
             Deleting, Ids, Verbs, Settings, OpAt, Asked
    <2>2. Receive(c, q)
      OBVIOUS
    <2> HIDE DEF q
    <2> QED  BY <2>1, <2>2, ReceiveInvariant DEF Creating
  <1>5. CASE PatchRefraction(c)
    <2> PICK u \in Users \cup {Nobody}, f \in Refractions, n \in Names,
             rs \in SUBSET Remotes :
          Receive(c, [Ask("patchRefraction", "canI", u) EXCEPT !.kind = "refraction",
                          !.id = f, !.verb = "UPDATE", !.name = n, !.remotes = rs])
      BY <1>5 DEF PatchRefraction
    <2> DEFINE q == [Ask("patchRefraction", "canI", u) EXCEPT !.kind = "refraction",
                         !.id = f, !.verb = "UPDATE", !.name = n, !.remotes = rs]
    <2>1. /\ q \in Records /\ q.pc = "canI" /\ q.copy = {} /\ OpAt(q) /\ Asked(q)
          /\ q.op = "patchRefraction"
      BY ConfigurationAssumption DEF Ask, Blank, Records, Labels, Ops, Creating, Patching,
             Deleting, Ids, Verbs, Settings, OpAt, Asked
    <2>2. Receive(c, q)
      OBVIOUS
    <2> HIDE DEF q
    <2> QED  BY <2>1, <2>2, ReceiveInvariant DEF Creating
  <1>6. CASE DeleteRefraction(c)
    <2> PICK u \in Users \cup {Nobody}, f \in Refractions :
          Receive(c, [Ask("deleteRefraction", "canI", u) EXCEPT !.kind = "refraction",
                                                                !.id = f, !.verb = "DELETE"])
      BY <1>6 DEF DeleteRefraction
    <2> DEFINE q == [Ask("deleteRefraction", "canI", u) EXCEPT !.kind = "refraction",
                                                               !.id = f, !.verb = "DELETE"]
    <2>1. /\ q \in Records /\ q.pc = "canI" /\ q.copy = {} /\ OpAt(q) /\ Asked(q)
          /\ q.op = "deleteRefraction"
      BY ConfigurationAssumption DEF Ask, Blank, Records, Labels, Ops, Creating, Patching,
             Deleting, Ids, Verbs, Settings, OpAt, Asked
    <2>2. Receive(c, q)
      OBVIOUS
    <2> HIDE DEF q
    <2> QED  BY <2>1, <2>2, ReceiveInvariant DEF Creating
  <1>7. CASE CreateRoleBinding(c)
    <2> PICK u \in Users \cup {Nobody}, w \in Users, res \in Resources, v \in Verbs :
          Receive(c, [Ask("bind", "canI", u) EXCEPT !.kind = res[1], !.name = res[2],
                                                    !.verb = v, !.subject = w])
      BY <1>7 DEF CreateRoleBinding
    <2> DEFINE q == [Ask("bind", "canI", u) EXCEPT !.kind = res[1], !.name = res[2],
                                                   !.verb = v, !.subject = w]
    <2>0. /\ res[1] \in {"remote", "refraction"} /\ res[2] \in Names \cup Ids
          /\ <<res[1], res[2]>> \in Resources
      BY DEF Resources, Ids
    <2>1. /\ q \in Records /\ q.pc = "canI" /\ q.copy = {} /\ OpAt(q) /\ Asked(q)
          /\ q.op = "bind"
      BY <2>0, ConfigurationAssumption DEF Ask, Blank, Records, Labels, Ops, Creating, Patching,
             Deleting, Ids, Verbs, Settings, OpAt, Asked
    <2>2. Receive(c, q)
      OBVIOUS
    <2> HIDE DEF q
    <2> QED  BY <2>1, <2>2, ReceiveInvariant DEF Creating
  <1>8. CASE CreateGlobalBinding(c)
    <2> PICK u \in Users \cup {Nobody}, w \in Users :
          Receive(c, [Ask("bindGlobal", "amI", u) EXCEPT !.subject = w])
      BY <1>8 DEF CreateGlobalBinding
    <2> DEFINE q == [Ask("bindGlobal", "amI", u) EXCEPT !.subject = w]
    <2>1. /\ q \in Records /\ q.pc = "amI" /\ q.copy = {} /\ OpAt(q) /\ Asked(q)
      BY ConfigurationAssumption DEF Ask, Blank, Records, Labels, Ops, Creating, Patching,
             Deleting, Ids, Verbs, Settings, OpAt, Asked
    <2>2. Receive(c, q)
      OBVIOUS
    <2> HIDE DEF q
    <2> QED  BY <2>1, <2>2, ReceiveInvariant DEF Creating
  <1> QED  BY <1>1, <1>2, <1>3, <1>4, <1>5, <1>6, <1>7, <1>8 DEF Request

-----------------------------------------------------------------------------
(* Permission.                                                             *)

\* A step that only moves a mutation on.
LEMMA OnlyMoves ==
    ASSUME IInv, NEW c \in Calls, NEW s \in Records, call' = [call EXCEPT ![c] = s],
           UNCHANGED <<tables, sidecar, tasks, history>>, Good(s)',
           Held(s) \cap deleted \subseteq overtaken
    PROVE  IInv'
  <1>1. /\ CallsInv' /\ call'[c] = s
        /\ \A d \in Calls : d # c => call'[d] = call[d]
    BY StepOfOne DEF IInv, sidecar
  <1>2. HeldInv'
    BY <1>1, HeldKept DEF IInv
  <1> QED  BY <1>1, <1>2, TablesKept DEF IInv, Types

\* A mutation that ends and leaves the database alone.
LEMMA OnlyEnds ==
    ASSUME IInv, NEW c \in Calls, Goto(c, "done"),
           UNCHANGED <<tables, sidecar, history>>, tasks' \subseteq Remotes
    PROVE  IInv'
  <1>1. /\ CallsInv' /\ Held(call'[c]) = {}
        /\ \A d \in Calls : d # c => call'[d] = call[d]
    BY Ends DEF IInv, sidecar
  <1>2. HeldInv'
    BY <1>1, HeldKept DEF IInv
  <1> QED  BY <1>1, <1>2, TablesKept

LEMMA SuperusersInvariant ==
    ASSUME IInv, NEW c \in Calls, Superusers(c)
    PROVE  IInv'
  <1> DEFINE label == IF call[c].op = "bindGlobal" THEN "bindGlobal" ELSE "canI"
  <1>1. /\ call[c].pc = "amI" /\ call[c].user \in supers /\ Goto(c, label)
        /\ UNCHANGED <<tables, sidecar, tasks, history>>
        /\ label \in Labels \ {"done"}
    BY DEF Superusers, At, AmI, Labels
  <1>2. call[c] \in Records /\ Good(call[c])
    BY DEF IInv, CallsInv
  <1>3. PICK s \in Records :
          /\ call' = [call EXCEPT ![c] = s]
          /\ s.pc = label
          /\ s.op = call[c].op /\ s.user = call[c].user /\ s.kind = call[c].kind
          /\ s.id = call[c].id /\ s.name = call[c].name /\ s.verb = call[c].verb
          /\ s.copy = call[c].copy
    <2> HIDE DEF label
    <2> QED  BY <1>1, GoesOn DEF IInv
  <1>4. Good(s)
    <2>1. OpAt(s)
      BY <1>1, <1>2, <1>3 DEF Good, OpAt, Creating
    <2>2. Asked(s)
      BY <1>1, <1>2, <1>3 DEF Good, OpAt, Asked, Creating
    <2>3. Carries(s)
      BY <1>1, <1>2, <1>3 DEF Good, Carries
    <2>4. Allowed(s) /\ Guarded(s)
      BY <1>1, <1>3 DEF Allowed, Guarded
    <2> QED  BY <2>1, <2>2, <2>3, <2>4 DEF Good
  <1>5. Good(s)'
    BY <1>1, <1>4, GoodKept DEF sidecar
  <1>6. Held(s) = {}
    BY <1>1, <1>2, <1>3 DEF Held, Good, Carries
  <1> QED  BY <1>1, <1>3, <1>5, <1>6, OnlyMoves

LEMMA PermittedInvariant ==
    ASSUME IInv, NEW c \in Calls, Permitted(c)
    PROVE  IInv'
  <1> DEFINE label == CASE call[c].op \in {"createRemote", "createRefraction", "bind"} -> "bind"
                        [] call[c].op = "deleteRefraction" -> "delete"
                        [] OTHER -> "read"
  <1>1. /\ call[c].pc = "canI" /\ Goto(c, label)
        /\ UNCHANGED <<tables, sidecar, tasks, history>>
        /\ label \in Labels \ {"done"}
        /\ call[c].user # Nobody
        /\ Can(call[c].user, ResourceOf(call[c]), RequiredOf(call[c]))
    BY DEF Permitted, At, CanI, Labels, ResourceOf, RequiredOf, Resource, Required
  <1>2. call[c] \in Records /\ Good(call[c])
    BY DEF IInv, CallsInv
  <1>3. PICK s \in Records :
          /\ call' = [call EXCEPT ![c] = s]
          /\ s.pc = label
          /\ s.op = call[c].op /\ s.user = call[c].user /\ s.kind = call[c].kind
          /\ s.id = call[c].id /\ s.name = call[c].name /\ s.verb = call[c].verb
          /\ s.copy = call[c].copy
    <2> HIDE DEF label
    <2> QED  BY <1>1, GoesOn DEF IInv
  <1>4. Good(s)
    <2>1. OpAt(s)
      BY <1>1, <1>2, <1>3 DEF Good, OpAt, Creating, Patching, Deleting
    <2>2. Asked(s)
      BY <1>1, <1>2, <1>3 DEF Good, OpAt, Asked, Creating
    <2>3. Carries(s)
      BY <1>1, <1>2, <1>3 DEF Good, Carries
    <2>4. Allowed(s)
      <3>1. s.op \in Creating => s.user \in supers
        BY <1>1, <1>2, <1>3 DEF Good, Allowed
      <3>2. Can(s.user, ResourceOf(s), RequiredOf(s)) /\ s.user # Nobody
        BY <1>1, <1>3 DEF ResourceOf, RequiredOf
      <3>3. s.pc # "bindGlobal"
        BY <1>3
      <3> QED  BY <3>1, <3>2, <3>3 DEF Allowed
    <2>5. Guarded(s)
      BY <1>1, <1>2, <1>3 DEF Good, OpAt, Guarded
    <2> QED  BY <2>1, <2>2, <2>3, <2>4, <2>5 DEF Good
  <1>5. Good(s)'
    BY <1>1, <1>4, GoodKept DEF sidecar
  <1>6. Held(s) = {}
    BY <1>1, <1>2, <1>3 DEF Held, Good, Carries
  <1> QED  BY <1>1, <1>3, <1>5, <1>6, OnlyMoves

LEMMA FailInvariant ==
    ASSUME IInv, NEW c \in Calls, Fail(c)
    PROVE  IInv'
  BY OnlyEnds DEF Fail, IInv, Types, tables, sidecar, history

\* The caller has SUDO on what it is bound to.
LEMMA BindInvariant ==
    ASSUME IInv, NEW c \in Calls, Bind(c)
    PROVE  IInv'
  <1> DEFINE label == CASE call[c].op = "bind" -> "done"
                        [] call[c].op = "createRemote" -> "insert"
                        [] OTHER -> "readRemotes"
             b == [sub |-> call[c].user, res |-> ResourceOf(call[c]), verb |-> call[c].verb]
  <1>1. /\ call[c].pc = "bind" /\ Goto(c, label)
        /\ bindings' = bindings \cup {b}
        /\ UNCHANGED <<tables, supers, tasks, history>>
        /\ label \in Labels
    BY DEF Bind, At, Bound, Labels, ResourceOf, Resource
  <1>2. call[c] \in Records /\ Good(call[c])
    BY DEF IInv, CallsInv
  <1>3. /\ call[c].op \in Creating \cup {"bind"} /\ call[c].id = Absent
        /\ call[c].user \in Users
        /\ Can(call[c].user, ResourceOf(call[c]), "SUDO")
    BY <1>1, <1>2 DEF Good, OpAt, Asked, Allowed, RequiredOf, Records, Creating
  <1>4. b \in Bindings
    <2>1. ResourceOf(call[c]) \in Resources
      BY <1>2, <1>3 DEF Good, Asked, ResourceOf, Resources, Creating
    <2> QED  BY <1>2, <1>3, <2>1 DEF Bindings, Records
  <1>5. Types'
    BY <1>1, <1>4 DEF IInv, Types, tables, history
  <1>7. GoIsManaged' /\ DeletedIsGone'
    BY <1>1 DEF IInv, GoIsManaged, DeletedIsGone, tables, history
  <1>8. CASE label = "done"
    <2>1. /\ CallsInv' /\ Held(call'[c]) = {}
          /\ \A d \in Calls : d # c => call'[d] = call[d]
      <3>1. Goto(c, "done")
        BY <1>1, <1>8
      <3> HIDE DEF b, label
      <3> QED  BY <1>1, <3>1, Ends DEF IInv
    <2>2. HeldInv'
      BY <1>1, <2>1, HeldKept DEF IInv
    <2> QED  BY <1>5, <1>7, <2>1, <2>2 DEF IInv
  <1>9. CASE label # "done"
    <2>1. PICK s \in Records :
          /\ call' = [call EXCEPT ![c] = s]
          /\ s.pc = label
          /\ s.op = call[c].op /\ s.user = call[c].user /\ s.kind = call[c].kind
          /\ s.id = call[c].id /\ s.name = call[c].name /\ s.verb = call[c].verb
          /\ s.copy = call[c].copy
      <3> HIDE DEF label, b
      <3> QED  BY <1>1, <1>9, GoesOn DEF IInv
    <2>2. /\ s.pc = IF s.op = "createRemote" THEN "insert" ELSE "readRemotes"
          /\ s.op \in Creating
      BY <1>3, <1>9, <2>1 DEF Creating
    <2> HIDE DEF label, b
    <2>3. OpAt(s)
      BY <2>2 DEF OpAt, Creating
    <2>4. Asked(s)
      BY <1>2, <2>1, <2>2, <1>1 DEF Good, Asked, Creating
    <2>5. Carries(s)
      BY <1>1, <1>2, <2>1, <2>2 DEF Good, Carries
    <2>6. Allowed(s)
      <3>1. s.user \in supers
        BY <1>1, <1>2, <2>1, <2>2 DEF Good, Allowed
      <3>2. Can(s.user, ResourceOf(s), RequiredOf(s)) /\ s.user # Nobody
        BY <1>1, <1>2, <2>1 DEF Good, Allowed, ResourceOf, RequiredOf
      <3> QED  BY <2>2, <3>1, <3>2 DEF Allowed
    <2>7. Guarded(s)
      BY <1>3, <2>1, ConfigurationAssumption DEF Guarded
    <2>8. Good(s)'
      BY <1>1, <2>3, <2>4, <2>5, <2>6, <2>7, GoodKept DEF Good
    <2>9. /\ CallsInv' /\ call'[c] = s
          /\ \A d \in Calls : d # c => call'[d] = call[d]
      BY <1>1, <2>1, <2>8, StepOfOne DEF IInv
    <2>10. HeldInv'
      <3>1. Held(s) \cap deleted \subseteq overtaken
        BY <1>1, <1>2, <1>3, <2>1, ConfigurationAssumption DEF Held, Good, Carries, IInv,
           Types, Ids
      <3> QED  BY <1>1, <2>9, <3>1, HeldKept DEF IInv
    <2> QED  BY <1>5, <1>7, <2>9, <2>10 DEF IInv
  <1> QED  BY <1>8, <1>9

\* Whoever becomes SUPER here was.
LEMMA BindGlobalInvariant ==
    ASSUME IInv, NEW c \in Calls, BindGlobal(c)
    PROVE  IInv'
  <1>1. /\ call[c].user \in supers /\ Goto(c, "done")
        /\ UNCHANGED <<tables, bindings, tasks, history>>
        /\ supers' = supers \cup {call[c].user}
    BY DEF BindGlobal, At, IInv, CallsInv, Good, Allowed
  <1>2. UNCHANGED <<tables, sidecar, history>> /\ tasks' \subseteq Remotes
    BY <1>1 DEF IInv, Types, sidecar
  <1> QED  BY <1>1, <1>2, OnlyEnds

-----------------------------------------------------------------------------
(* Remotes.                                                                *)

\* A new ID is nobody's: not Go's, which is there, and not a deleted one.
LEMMA FreshIds ==
    ASSUME IInv, NEW ids, NEW i \in Fresh(ids)
    PROVE  i \in ids /\ i \notin live /\ i \notin deleted
           /\ i \notin {GoRemote, GoRefraction}
  BY DEF Fresh, IInv, GoIsManaged

LEMMA InsertRemoteInvariant ==
    ASSUME IInv, NEW c \in Calls, InsertRemote(c)
    PROVE  IInv'
  <1>0. PICK r \in Fresh(Remotes) :
        /\ call[c].pc = "insert"
        /\ live' = live \cup {r}
        /\ name' = [name EXCEPT ![r] = call[c].name]
        /\ security' = [security EXCEPT ![r] = call[c].settings]
        /\ call' = [call EXCEPT ![c].pc = "enqueue", ![c].id = r]
        /\ UNCHANGED <<members, sidecar, tasks, history>>
    BY DEF InsertRemote, At
  <1>1. call[c] \in Records /\ Good(call[c])
    BY DEF IInv, CallsInv
  <1>2. r \in Remotes /\ r \notin live /\ r \notin deleted /\ r # GoRemote
        /\ r \notin Refractions
    BY <1>0, FreshIds, ConfigurationAssumption
  <1>3. call[c].op = "createRemote" /\ call[c].name \in Names
        /\ call[c].settings \in Settings
    BY <1>0, <1>1 DEF Good, OpAt, Asked, Creating, Records
  <1>4. Types'
    BY <1>0, <1>2, <1>3 DEF IInv, Types, Ids, sidecar, history
  <1>5. DeletedIsGone'
    BY <1>0, <1>2 DEF IInv, DeletedIsGone, history
  <1>6. GoIsManaged'
    <2>1. /\ name'[GoRemote] = name[GoRemote]
          /\ name'[GoRefraction] = name[GoRefraction]
          /\ security'[GoRemote] = security[GoRemote]
      BY <1>0, <1>2, ConfigurationAssumption DEF IInv, Types, Ids
    <2> QED  BY <1>0, <2>1 DEF IInv, GoIsManaged
  <1>7. PICK s \in Records :
          /\ call' = [call EXCEPT ![c] = s]
          /\ s.pc = "enqueue" /\ s.id = r
          /\ s.op = call[c].op /\ s.kind = call[c].kind /\ s.name = call[c].name
          /\ s.user = call[c].user /\ s.copy = call[c].copy
    <2> DEFINE s == [call[c] EXCEPT !.pc = "enqueue", !.id = r]
    <2>1. /\ s \in Records /\ s.pc = "enqueue" /\ s.id = r
          /\ s.op = call[c].op /\ s.kind = call[c].kind /\ s.name = call[c].name
          /\ s.user = call[c].user /\ s.copy = call[c].copy
      BY <1>1, <1>2 DEF Records, Labels, Ids
    <2>2. call' = [call EXCEPT ![c] = s]
      BY <1>0, <1>2 DEF IInv, CallsInv
    <2> HIDE DEF s
    <2> QED  BY <2>1, <2>2
  <1>8. Good(s)
    BY <1>0, <1>1, <1>2, <1>3, <1>7 DEF Good, OpAt, Asked, Carries, Allowed, Guarded, Creating,
       Patching, Deleting
  <1>9. Good(s)'
    BY <1>0, <1>8, GoodKept DEF sidecar
  <1>10. /\ CallsInv' /\ call'[c] = s
         /\ \A d \in Calls : d # c => call'[d] = call[d]
    BY <1>0, <1>7, <1>9, StepOfOne DEF IInv, sidecar
  <1>11. HeldInv'
    <2>1. Held(s) = {}
      BY <1>7, <1>8 DEF Held, Good, Carries
    <2> QED  BY <1>0, <1>10, <2>1, HeldKept DEF IInv
  <1> QED  BY <1>4, <1>5, <1>6, <1>10, <1>11 DEF IInv

LEMMA EnqueueInvariant ==
    ASSUME IInv, NEW c \in Calls, Enqueue(c)
    PROVE  IInv'
  <1>1. call[c].id \in Remotes /\ Goto(c, "done") /\ UNCHANGED <<tables, sidecar, history>>
    BY DEF Enqueue, At, IInv, CallsInv, Good, Asked
  <1>2. tasks' \subseteq Remotes
    BY <1>1 DEF Enqueue, IInv, Types
  <1> QED  BY <1>1, <1>2, OnlyEnds

LEMMA ReadRemoteInvariant ==
    ASSUME IInv, NEW c \in Calls, ReadRemote(c)
    PROVE  IInv'
  <1> DEFINE label == IF call[c].op = "patchRemote" THEN "save" ELSE "dereference"
  <1>1. /\ call[c].pc = "read" /\ call[c].kind = "remote" /\ Goto(c, label)
        /\ call[c].id \notin {GoRemote, GoRefraction}
        /\ UNCHANGED <<tables, sidecar, tasks, history>>
        /\ label \in Labels \ {"done"}
    BY DEF ReadRemote, At, Found, Labels
  <1>2. call[c] \in Records /\ Good(call[c])
    BY DEF IInv, CallsInv
  <1>3. PICK s \in Records :
          /\ call' = [call EXCEPT ![c] = s]
          /\ s.pc = label
          /\ s.op = call[c].op /\ s.user = call[c].user /\ s.kind = call[c].kind
          /\ s.id = call[c].id /\ s.name = call[c].name /\ s.verb = call[c].verb
          /\ s.copy = call[c].copy
    <2> HIDE DEF label
    <2> QED  BY <1>1, GoesOn DEF IInv
  <1>4. Good(s)
    <2>1. OpAt(s)
      BY <1>1, <1>2, <1>3 DEF Good, OpAt, Asked, Patching
    <2>2. Asked(s)
      BY <1>1, <1>2, <1>3 DEF Good, Asked
    <2>3. Carries(s)
      BY <1>1, <1>2, <1>3, <2>2 DEF Good, Carries, Asked
    <2>4. Allowed(s)
      BY <1>1, <1>2, <1>3 DEF Good, Allowed, ResourceOf, RequiredOf
    <2>5. Guarded(s)
      BY <1>1, <1>3 DEF Guarded
    <2> QED  BY <2>1, <2>2, <2>3, <2>4, <2>5 DEF Good
  <1>5. Good(s)'
    BY <1>1, <1>4, GoodKept DEF sidecar
  <1>6. Held(s) = {}
    BY <1>1, <1>2, <1>3 DEF Held, Good, Carries
  <1> QED  BY <1>1, <1>3, <1>5, <1>6, OnlyMoves

\* What a patch of settings is about, when it is saved.
LEMMA SavesRemote ==
    ASSUME IInv, NEW c \in Calls, call[c].pc = "save", call[c].kind = "remote"
    PROVE  /\ call[c].id \in Remotes \ {GoRemote} /\ call[c].settings \in Settings
           /\ Can(call[c].user, <<"remote", call[c].id>>, "UPDATE")
  <1>1. call[c] \in Records /\ Good(call[c])
    BY DEF IInv, CallsInv
  <1>2. call[c].op = "patchRemote"
    BY <1>1 DEF Good, OpAt, Asked, Patching
  <1>3. call[c].id \in Remotes /\ call[c].verb = "UPDATE" /\ call[c].id # Absent
    BY <1>1, <1>2, ConfigurationAssumption DEF Good, Asked, Patching
  <1> QED  BY <1>1, <1>2, <1>3 DEF Good, Guarded, Allowed, ResourceOf, RequiredOf, Records

\* What is about to be deleted.
LEMMA DeletesOwn ==
    ASSUME IInv, NEW c \in Calls, call[c].pc \in {"dereference", "delete"}
    PROVE  /\ call[c].kind = "remote" => call[c].id \in Remotes \ {GoRemote}
           /\ call[c].kind = "refraction" => call[c].id \in Refractions
           /\ call[c].pc = "dereference" => call[c].kind = "remote"
           /\ call[c].kind \in {"remote", "refraction"}
           /\ Can(call[c].user, <<KindOf(call[c].id), call[c].id>>, "DELETE")
  <1>1. call[c] \in Records /\ Good(call[c])
    BY DEF IInv, CallsInv
  <1>2. call[c].op \in Deleting
    BY <1>1 DEF Good, OpAt, Deleting
  <1>3. call[c].verb = "DELETE" /\ call[c].id # Absent /\ call[c].id \in Ids
    BY <1>1, <1>2, ConfigurationAssumption DEF Good, Asked, Deleting, Ids
  <1>4. call[c].kind = KindOf(call[c].id)
    BY <1>1, <1>2, ConfigurationAssumption DEF Good, Asked, Deleting, KindOf
  <1>5. Can(call[c].user, <<KindOf(call[c].id), call[c].id>>, "DELETE")
    BY <1>1, <1>3, <1>4 DEF Good, Allowed, ResourceOf, RequiredOf
  <1>6. call[c].op = "deleteRemote" => call[c].id # GoRemote
    BY <1>1 DEF Good, Guarded
  <1> QED  BY <1>1, <1>2, <1>5, <1>6 DEF Good, OpAt, Asked, Deleting

LEMMA SaveSecurityInvariant ==
    ASSUME IInv, NEW c \in Calls, SaveSecurity(c)
    PROVE  IInv'
  <1>1. /\ call[c].pc = "save" /\ call[c].kind = "remote" /\ Goto(c, "done")
        /\ security' = [security EXCEPT ![call[c].id] = call[c].settings]
        /\ UNCHANGED <<live, name, members, sidecar, tasks, history>>
    BY DEF SaveSecurity, At
  <1>2. call[c].id \in Remotes \ {GoRemote} /\ call[c].settings \in Settings
    BY <1>1, SavesRemote
  <1>3. /\ CallsInv' /\ Held(call'[c]) = {}
        /\ \A d \in Calls : d # c => call'[d] = call[d]
    BY <1>1, Ends DEF IInv, sidecar
  <1>4. HeldInv'
    BY <1>1, <1>3, HeldKept DEF IInv
  <1>5. Types'
    BY <1>1, <1>2 DEF IInv, Types, sidecar, history
  <1>6. GoIsManaged'
    BY <1>1, <1>2 DEF IInv, Types, GoIsManaged
  <1>7. DeletedIsGone'
    BY <1>1 DEF IInv, DeletedIsGone, history
  <1> QED  BY <1>3, <1>4, <1>5, <1>6, <1>7 DEF IInv

LEMMA DereferenceInvariant ==
    ASSUME IInv, NEW c \in Calls, Dereference(c)
    PROVE  IInv'
  <1> DEFINE label == "delete"
  <1>1. /\ call[c].pc = "dereference" /\ Goto(c, label)
        /\ members' \in {members, [f \in Refractions |-> members[f] \ {call[c].id}]}
        /\ UNCHANGED <<live, name, security, sidecar, tasks, history>>
        /\ label \in Labels \ {"done"}
    BY DEF Dereference, At, Labels
  <1>2. call[c].id \in Remotes \ {GoRemote} /\ call[c].kind = "remote"
    BY <1>1, DeletesOwn
  <1>3. call[c] \in Records /\ Good(call[c])
    BY DEF IInv, CallsInv
  <1>4. PICK s \in Records :
          /\ call' = [call EXCEPT ![c] = s]
          /\ s.pc = label
          /\ s.op = call[c].op /\ s.user = call[c].user /\ s.kind = call[c].kind
          /\ s.id = call[c].id /\ s.name = call[c].name /\ s.verb = call[c].verb
          /\ s.copy = call[c].copy
    <2> HIDE DEF label
    <2> QED  BY <1>1, GoesOn DEF IInv
  <1>5. Good(s)
    BY <1>1, <1>3, <1>4 DEF Good, OpAt, Asked, Carries, Allowed, Guarded, ResourceOf,
       RequiredOf, Deleting
  <1>6. Good(s)'
    BY <1>1, <1>5, GoodKept DEF sidecar
  <1>7. /\ CallsInv' /\ call'[c] = s
        /\ \A d \in Calls : d # c => call'[d] = call[d]
    BY <1>1, <1>4, <1>6, StepOfOne DEF IInv, sidecar
  <1>8. HeldInv'
    <2>1. Held(s) = {}
      BY <1>1, <1>3, <1>4 DEF Held, Good, Carries
    <2> QED  BY <1>1, <1>7, <2>1, HeldKept DEF IInv
  <1>9. Types'
    BY <1>1 DEF IInv, Types, sidecar, history
  <1>10. GoIsManaged'
    BY <1>1, <1>2, ConfigurationAssumption DEF IInv, Types, GoIsManaged
  <1>11. DeletedIsGone'
    BY <1>1 DEF IInv, DeletedIsGone, history
  <1> QED  BY <1>7, <1>8, <1>9, <1>10, <1>11 DEF IInv

\* A row goes, and whoever holds it is known to be overtaken.
LEMMA DeletesInvariant ==
    ASSUME IInv, NEW c \in Calls, NEW i \in Ids \ {GoRemote, GoRefraction}, Deletes(c, i)
    PROVE  IInv'
  <1>1. /\ live' = live \ {i} /\ deleted' = deleted \cup {i} /\ Goto(c, "done")
        /\ overtaken' = IF HeldElsewhere(c, i) THEN overtaken \cup {i} ELSE overtaken
        /\ UNCHANGED <<name, security, members, sidecar, tasks>>
    BY DEF Deletes
  <1>2. /\ CallsInv' /\ Held(call'[c]) = {}
        /\ \A d \in Calls : d # c => call'[d] = call[d]
    BY <1>1, Ends DEF IInv, sidecar
  <1>3. HeldInv'
    <2> SUFFICES ASSUME NEW d \in Calls, NEW j \in Held(call'[d]), j \in deleted'
                 PROVE  j \in overtaken'
      BY DEF HeldInv, Held
    <2>1. d # c /\ call'[d] = call[d]
      BY <1>2
    <2>2. CASE j = i
      <3>1. HeldElsewhere(c, i)
        BY <2>1, <2>2 DEF HeldElsewhere, Held, At
      <3> QED  BY <1>1, <2>2, <3>1
    <2>3. CASE j # i
      BY <1>1, <2>1, <2>3 DEF IInv, HeldInv
    <2> QED  BY <2>2, <2>3
  <1>4. Types'
    BY <1>1 DEF IInv, Types, sidecar
  <1>5. GoIsManaged' /\ DeletedIsGone'
    BY <1>1 DEF IInv, GoIsManaged, DeletedIsGone
  <1> QED  BY <1>2, <1>3, <1>4, <1>5 DEF IInv

LEMMA DeleteRemoteRowInvariant ==
    ASSUME IInv, NEW c \in Calls, DeleteRemoteRow(c)
    PROVE  IInv'
  <1>1. call[c].id \in Ids \ {GoRemote, GoRefraction} /\ Deletes(c, call[c].id)
    BY DeletesOwn, ConfigurationAssumption DEF DeleteRemoteRow, At, Ids
  <1> QED  BY <1>1, DeletesInvariant

-----------------------------------------------------------------------------
(* Refractions.                                                            *)

LEMMA ReadRefractionInvariant ==
    ASSUME IInv, NEW c \in Calls, ReadRefraction(c)
    PROVE  IInv'
  <1> DEFINE label == "readRemotes"
  <1>1. /\ call[c].pc = "read" /\ call[c].kind = "refraction" /\ Goto(c, label)
        /\ call[c].id \in live \ {GoRemote, GoRefraction}
        /\ UNCHANGED <<tables, sidecar, tasks, history>>
        /\ label \in Labels \ {"done"}
    BY DEF ReadRefraction, At, Found, Labels
  <1>2. call[c] \in Records /\ Good(call[c])
    BY DEF IInv, CallsInv
  <1>3. PICK s \in Records :
          /\ call' = [call EXCEPT ![c] = s]
          /\ s.pc = label
          /\ s.op = call[c].op /\ s.user = call[c].user /\ s.kind = call[c].kind
          /\ s.id = call[c].id /\ s.name = call[c].name /\ s.verb = call[c].verb
          /\ s.copy = call[c].copy
    <2> HIDE DEF label
    <2> QED  BY <1>1, GoesOn DEF IInv
  <1>4. Good(s)
    <2>1. OpAt(s)
      BY <1>1, <1>2, <1>3 DEF Good, OpAt, Asked, Patching
    <2>2. Asked(s) /\ Carries(s) /\ Guarded(s)
      BY <1>1, <1>2, <1>3 DEF Good, Asked, Carries, Guarded
    <2>3. Allowed(s)
      BY <1>1, <1>2, <1>3 DEF Good, Allowed, ResourceOf, RequiredOf
    <2> QED  BY <2>1, <2>2, <2>3 DEF Good
  <1>5. Good(s)'
    BY <1>1, <1>4, GoodKept DEF sidecar
  <1>6. Held(s) \cap deleted \subseteq overtaken
    BY <1>1, <1>2, <1>3 DEF Held, Good, Carries, IInv, DeletedIsGone
  <1> QED  BY <1>1, <1>3, <1>5, <1>6, OnlyMoves

\* What is read is there, so if it was deleted it has been brought back.
LEMMA ReadRemotesInvariant ==
    ASSUME IInv, NEW c \in Calls, ReadRemotes(c)
    PROVE  IInv'
  <1> DEFINE rows == Existing(call[c].remotes) \cup ({call[c].id} \cap Refractions)
  <1>1. /\ call[c].pc = "readRemotes"
        /\ call' = [call EXCEPT ![c].pc = "save", ![c].copy = rows]
        /\ UNCHANGED <<tables, sidecar, tasks, history>>
    BY DEF ReadRemotes, At
  <1>2. call[c] \in Records /\ Good(call[c])
    BY DEF IInv, CallsInv
  <1>3. PICK s \in Records :
          /\ call' = [call EXCEPT ![c] = s]
          /\ s.pc = "save" /\ s.copy = rows
          /\ s.op = call[c].op /\ s.user = call[c].user /\ s.kind = call[c].kind
          /\ s.id = call[c].id /\ s.name = call[c].name /\ s.verb = call[c].verb
    <2> DEFINE s == [call[c] EXCEPT !.pc = "save", !.copy = rows]
    <2>1. rows \in SUBSET Ids
      BY <1>2 DEF Existing, Records, Ids
    <2> HIDE DEF rows
    <2>2. /\ s \in Records /\ s.pc = "save" /\ s.copy = rows
          /\ s.op = call[c].op /\ s.user = call[c].user /\ s.kind = call[c].kind
          /\ s.id = call[c].id /\ s.name = call[c].name /\ s.verb = call[c].verb
      BY <1>2, <2>1 DEF Records, Labels
    <2>3. call' = [call EXCEPT ![c] = s]
      BY <1>1 DEF IInv, CallsInv
    <2> HIDE DEF s
    <2> QED  BY <2>2, <2>3
  <1>4. s.op \in {"createRefraction", "patchRefraction"} /\ s.kind = "refraction"
    BY <1>1, <1>2, <1>3 DEF Good, OpAt, Asked
  <1>5. Good(s)
    <2>1. OpAt(s)
      BY <1>3, <1>4 DEF OpAt, Patching
    <2>2. Asked(s)
      BY <1>1, <1>2, <1>3 DEF Good, Asked
    <2>3. Carries(s)
      BY <1>2, <1>3, <1>4 DEF Carries, Good, Asked
    <2>4. Allowed(s)
      BY <1>1, <1>2, <1>3 DEF Good, Allowed, ResourceOf, RequiredOf
    <2>5. Guarded(s)
      BY <1>1, <1>2, <1>3 DEF Good, Guarded
    <2> QED  BY <2>1, <2>2, <2>3, <2>4, <2>5 DEF Good
  <1>6. Good(s)'
    BY <1>1, <1>5, GoodKept DEF sidecar
  <1>7. Held(s) \cap deleted \subseteq overtaken
    <2>1. live \cap deleted \subseteq overtaken
      BY DEF IInv, DeletedIsGone
    <2>2. {call[c].id} \cap deleted \subseteq overtaken
      BY <1>1 DEF IInv, HeldInv, Held
    <2> QED  BY <1>3, <2>1, <2>2 DEF Held, Existing
  <1> QED  BY <1>1, <1>3, <1>6, <1>7, OnlyMoves

\* A save brings back at most what the mutation holds.
LEMMA SaveRefractionInvariant ==
    ASSUME IInv, NEW c \in Calls, SaveRefraction(c)
    PROVE  IInv'
  <1>1. PICK f \in IF call[c].id = Absent THEN Fresh(Refractions) ELSE {call[c].id} :
          /\ call[c].pc = "save" /\ call[c].kind = "refraction"
          /\ live' = live \cup {f} \cup call[c].copy
          /\ name' = [name EXCEPT ![f] = call[c].name]
          /\ members' = [members EXCEPT ![f] = @ \cup (call[c].copy \cap Remotes)]
          /\ Goto(c, "done")
          /\ UNCHANGED <<security, sidecar, tasks, history>>
    BY DEF SaveRefraction, SavedMembers, At
  <1>2. call[c] \in Records /\ Good(call[c])
    BY DEF IInv, CallsInv
  <1>3. call[c].op \in {"createRefraction", "patchRefraction"} /\ call[c].name \in Names
        /\ call[c].copy \subseteq Ids
    BY <1>1, <1>2 DEF Good, OpAt, Asked, Patching, Creating, Records
  <1>4. f \in Refractions \ {GoRefraction} /\ (f \in deleted => f \in call[c].copy)
    <2>1. CASE call[c].id = Absent
      BY <1>1, <2>1, FreshIds
    <2>2. CASE call[c].id # Absent
      BY <1>1, <1>2, <1>3, <2>2 DEF Good, Asked, Guarded, Carries
    <2> QED  BY <2>1, <2>2
  <1>5. /\ CallsInv' /\ Held(call'[c]) = {}
        /\ \A d \in Calls : d # c => call'[d] = call[d]
    BY <1>1, Ends DEF IInv, sidecar
  <1>6. HeldInv'
    BY <1>1, <1>5, HeldKept DEF IInv
  <1>7. Types'
    BY <1>1, <1>3, <1>4 DEF IInv, Types, Ids, sidecar, history
  <1>8. GoIsManaged'
    <2>1. /\ name'[GoRemote] = name[GoRemote]
          /\ name'[GoRefraction] = name[GoRefraction]
          /\ members'[GoRefraction] = members[GoRefraction]
      BY <1>1, <1>4, ConfigurationAssumption DEF IInv, Types, Ids
    <2> QED  BY <1>1, <2>1 DEF IInv, GoIsManaged
  <1>9. DeletedIsGone'
    <2>1. call[c].copy \cap deleted \subseteq overtaken
      BY DEF IInv, HeldInv, Held
    <2> QED  BY <1>1, <1>4, <2>1 DEF IInv, DeletedIsGone, history
  <1> QED  BY <1>5, <1>6, <1>7, <1>8, <1>9 DEF IInv

LEMMA DeleteRefractionRowInvariant ==
    ASSUME IInv, NEW c \in Calls, DeleteRefractionRow(c)
    PROVE  IInv'
  <1>1. call[c].id \in Ids \ {GoRemote, GoRefraction} /\ Deletes(c, call[c].id)
    BY DeletesOwn, ConfigurationAssumption DEF DeleteRefractionRow, At, Ids
  <1> QED  BY <1>1, DeletesInvariant

-----------------------------------------------------------------------------
LEMMA MutateInvariant ==
    ASSUME IInv, NEW c \in Calls, Mutate(c)
    PROVE  IInv'
  BY SuperusersInvariant, PermittedInvariant, FailInvariant, BindInvariant,
     BindGlobalInvariant, InsertRemoteInvariant, EnqueueInvariant, ReadRemoteInvariant,
     SaveSecurityInvariant, DereferenceInvariant, DeleteRemoteRowInvariant,
     ReadRefractionInvariant, ReadRemotesInvariant, SaveRefractionInvariant,
     DeleteRefractionRowInvariant DEF Mutate

LEMMA NextInvariant == IInv /\ [Configure]_configVars => IInv'
  <1> SUFFICES ASSUME IInv, [Configure]_configVars PROVE IInv'
    OBVIOUS
  <1>1. CASE Configure
    BY <1>1, RequestInvariant, MutateInvariant DEF Configure
  <1>2. CASE UNCHANGED configVars
    BY <1>2 DEF configVars, tables, sidecar, history, IInv, Types, CallsInv, Good, OpAt,
                Asked, Carries, Allowed, Guarded, Can, HeldInv, Held,
                GoIsManaged, DeletedIsGone
  <1> QED  BY <1>1, <1>2

\* The inductive invariant holds in every state that can be reached.
THEOREM Invariant == Spec => []IInv
  BY InitInvariant, NextInvariant, PTL DEF Spec

-----------------------------------------------------------------------------
\* The tables, the roles and the mutations under way have the values meant.
THEOREM TypeCorrect == Spec => []TypeOK
  <1>1. IInv => TypeOK
    BY DEF IInv, Types, CallsInv, Records, Ids, TypeOK
  <1> QED  BY <1>1, Invariant, PTL

\* No mutation changes the remote or the refraction of the Go proxy, though the
\* check that protects them comes round trips before the statement.
THEOREM GoStaysManaged == Spec => []GoIsManaged
  <1>1. IInv => GoIsManaged
    BY DEF IInv
  <1> QED  BY <1>1, Invariant, PTL

\* A deleted row comes back only when a mutation had read it before.
THEOREM DeletionsHold == Spec => []DeletedIsGone
  <1>1. IInv => DeletedIsGone
    BY DEF IInv
  <1> QED  BY <1>1, Invariant, PTL

-----------------------------------------------------------------------------
\* The join table refers to rows that are there.
MembersExist == \A f \in Refractions : members[f] \subseteq live

LEMMA MembersStep == IInv /\ MembersExist /\ [Configure]_configVars => MembersExist'
  <1> SUFFICES ASSUME IInv, MembersExist, [Configure]_configVars PROVE MembersExist'
    OBVIOUS
  <1>1. CASE UNCHANGED <<members, live>>
    BY <1>1 DEF MembersExist
  <1>2. ASSUME NEW c \in Calls, InsertRemote(c) PROVE MembersExist'
    BY <1>2 DEF InsertRemote, MembersExist
  <1>3. ASSUME NEW c \in Calls, Dereference(c) PROVE MembersExist'
    BY <1>3 DEF Dereference, MembersExist
  <1>4. ASSUME NEW c \in Calls, DeleteRemoteRow(c) PROVE MembersExist'
    BY <1>4 DEF DeleteRemoteRow, Deletes, MembersExist
  <1>5. ASSUME NEW c \in Calls, DeleteRefractionRow(c) PROVE MembersExist'
    <2>1. call[c].id \in Refractions /\ Deletes(c, call[c].id)
      BY <1>5, DeletesOwn DEF DeleteRefractionRow, At
    <2> QED  BY <2>1, ConfigurationAssumption DEF Deletes, MembersExist, IInv, Types
  <1>6. ASSUME NEW c \in Calls, SaveRefraction(c) PROVE MembersExist'
    BY <1>6 DEF SaveRefraction, SavedMembers, MembersExist, IInv, Types
  <1>7. ASSUME NEW c \in Calls,
               \/ Superusers(c) \/ Permitted(c) \/ Fail(c) \/ Bind(c) \/ BindGlobal(c)
               \/ Enqueue(c) \/ ReadRemote(c) \/ SaveSecurity(c) \/ ReadRefraction(c)
               \/ ReadRemotes(c)
        PROVE  UNCHANGED <<members, live>>
    BY <1>7 DEF Superusers, Permitted, Fail, Bind, BindGlobal, Enqueue, ReadRemote,
                SaveSecurity, ReadRefraction, ReadRemotes, tables
  <1>8. ASSUME NEW c \in Calls, Request(c) PROVE UNCHANGED <<members, live>>
    <2>1. PICK q : Receive(c, q)
      BY <1>8 DEF Request, CreateRemote, PatchRemote, DeleteRemote, CreateRefraction,
                  PatchRefraction, DeleteRefraction, CreateRoleBinding, CreateGlobalBinding
    <2> QED  BY <2>1 DEF Receive, tables
  <1>9. CASE UNCHANGED configVars
    BY <1>1, <1>9 DEF configVars, tables
  <1> QED
    BY <1>1, <1>2, <1>3, <1>4, <1>5, <1>6, <1>7, <1>8, <1>9 DEF Configure, Mutate

\* Although remotes are read in one round trip of a mutation and referred to in a
\* later one, no refraction ever refers to a remote that is gone.
THEOREM ReferencesResolve == Spec => []MembersExist
  <1>1. Init => MembersExist
    BY ConfigurationAssumption DEF Init, MembersExist
  <1> QED  BY <1>1, MembersStep, Invariant, PTL DEF Spec

-----------------------------------------------------------------------------
\* Settings change in two places, and rows go in two.
LEMMA WhoChanges ==
    ASSUME Configure
    PROVE  /\ \/ UNCHANGED security
              \/ \E c \in Calls : SaveSecurity(c) \/ InsertRemote(c)
           /\ \/ UNCHANGED deleted
              \/ \E c \in Calls : DeleteRemoteRow(c) \/ DeleteRefractionRow(c)
  <1> PICK c \in Calls : Request(c) \/ Mutate(c)
    BY DEF Configure
  <1>1. CASE Request(c)
    <2>1. PICK q : Receive(c, q)
      BY <1>1 DEF Request, CreateRemote, PatchRemote, DeleteRemote, CreateRefraction,
                  PatchRefraction, DeleteRefraction, CreateRoleBinding, CreateGlobalBinding
    <2> QED  BY <2>1 DEF Receive, tables, history
  <1>2. CASE \/ Superusers(c) \/ Permitted(c) \/ Fail(c) \/ Bind(c) \/ BindGlobal(c)
             \/ Enqueue(c) \/ ReadRemote(c) \/ Dereference(c) \/ ReadRefraction(c)
             \/ ReadRemotes(c) \/ SaveRefraction(c)
    <2>1. UNCHANGED security
      BY <1>2 DEF Superusers, Permitted, Fail, Bind, BindGlobal, Enqueue, ReadRemote,
                  Dereference, ReadRefraction, ReadRemotes, SaveRefraction, tables
    <2>2. UNCHANGED deleted
      BY <1>2 DEF Superusers, Permitted, Fail, Bind, BindGlobal, Enqueue, ReadRemote,
                  Dereference, ReadRefraction, ReadRemotes, SaveRefraction, history
    <2> QED  BY <2>1, <2>2
  <1>3. CASE SaveSecurity(c) \/ InsertRemote(c)
    BY <1>3 DEF SaveSecurity, InsertRemote, history
  <1>4. CASE DeleteRemoteRow(c) \/ DeleteRefractionRow(c)
    BY <1>4 DEF DeleteRemoteRow, DeleteRefractionRow, Deletes
  <1> QED  BY <1>1, <1>2, <1>3, <1>4 DEF Mutate

\* Permission is checked round trips before the change, for an ID whose row may
\* have gone and come since; the change is still one the user may make.
THEOREM ChangesArePermitted == Spec => OnlyPermitted
  <1> DEFINE Step ==
        /\ \A r \in Remotes : security'[r] # security[r] =>
              \E c \in Calls : /\ call'[c] # call[c]
                               /\ \/ Can(call[c].user, <<"remote", r>>, "UPDATE")
                                  \/ r \notin live /\ call[c].user \in supers
        /\ \A i \in deleted' \ deleted :
              \E c \in Calls : /\ call'[c] # call[c]
                               /\ Can(call[c].user, <<KindOf(i), i>>, "DELETE")
  <1>1. ASSUME IInv, Configure PROVE Step
    <2>1. ASSUME NEW r \in Remotes, security'[r] # security[r]
          PROVE  \E c \in Calls : /\ call'[c] # call[c]
                                  /\ \/ Can(call[c].user, <<"remote", r>>, "UPDATE")
                                     \/ r \notin live /\ call[c].user \in supers
      <3>1. PICK c \in Calls : SaveSecurity(c) \/ InsertRemote(c)
        BY <1>1, <2>1, WhoChanges
      <3>2. CASE SaveSecurity(c)
        <4>1. /\ call[c].pc = "save" /\ call[c].kind = "remote" /\ Goto(c, "done")
              /\ security' = [security EXCEPT ![call[c].id] = call[c].settings]
          BY <3>2 DEF SaveSecurity, At
        <4>2. call'[c].pc = "done"
          BY <1>1, <4>1, BlankRecord DEF Goto, IInv, CallsInv
        <4>3. r = call[c].id
          BY <1>1, <2>1, <4>1 DEF IInv, Types
        <4> QED  BY <1>1, <4>1, <4>2, <4>3, SavesRemote
      <3>3. CASE InsertRemote(c)
        <4>1. PICK q \in Fresh(Remotes) :
                /\ call[c].pc = "insert"
                /\ security' = [security EXCEPT ![q] = call[c].settings]
                /\ call' = [call EXCEPT ![c].pc = "enqueue", ![c].id = q]
          BY <3>3 DEF InsertRemote, At
        <4>2. call'[c].pc = "enqueue"
          BY <1>1, <4>1 DEF IInv, CallsInv, Records
        <4>3. r = q /\ r \notin live
          BY <1>1, <2>1, <4>1, FreshIds DEF IInv, Types
        <4>4. call[c].user \in supers
          BY <1>1, <4>1 DEF IInv, CallsInv, Good, OpAt, Allowed, Creating
        <4> QED  BY <4>1, <4>2, <4>3, <4>4
      <3> QED  BY <3>1, <3>2, <3>3
    <2>2. ASSUME NEW i \in deleted' \ deleted
          PROVE  \E c \in Calls : /\ call'[c] # call[c]
                                  /\ Can(call[c].user, <<KindOf(i), i>>, "DELETE")
      <3>1. PICK c \in Calls : DeleteRemoteRow(c) \/ DeleteRefractionRow(c)
        BY <1>1, <2>2, WhoChanges
      <3>2. call[c].pc = "delete" /\ Deletes(c, call[c].id)
        BY <3>1 DEF DeleteRemoteRow, DeleteRefractionRow, At
      <3>3. i = call[c].id /\ Goto(c, "done")
        BY <2>2, <3>2 DEF Deletes
      <3>4. call'[c].pc = "done"
        BY <1>1, <3>3, BlankRecord DEF Goto, IInv, CallsInv
      <3> QED  BY <1>1, <3>2, <3>3, <3>4, DeletesOwn
    <2> HIDE DEF Step
    <2> QED  BY <2>1, <2>2 DEF Step
  <1>2. IInv /\ [Configure]_configVars => [Step]_configVars
    BY <1>1
  <1> QED  BY <1>2, Invariant, PTL DEF Spec, OnlyPermitted

-----------------------------------------------------------------------------
\* Roles on resources are given in one place, and SUPER in one.
LEMMA WhoBinds ==
    ASSUME Configure
    PROVE  /\ UNCHANGED bindings \/ \E c \in Calls : Bind(c)
           /\ UNCHANGED supers \/ \E c \in Calls : BindGlobal(c)
  <1> PICK c \in Calls : Request(c) \/ Mutate(c)
    BY DEF Configure
  <1>1. CASE Request(c)
    <2>1. PICK q : Receive(c, q)
      BY <1>1 DEF Request, CreateRemote, PatchRemote, DeleteRemote, CreateRefraction,
                  PatchRefraction, DeleteRefraction, CreateRoleBinding, CreateGlobalBinding
    <2> QED  BY <2>1 DEF Receive, sidecar
  <1>2. CASE \/ Superusers(c) \/ Permitted(c) \/ Fail(c) \/ InsertRemote(c)
             \/ Enqueue(c) \/ ReadRemote(c) \/ SaveSecurity(c) \/ Dereference(c)
             \/ ReadRefraction(c) \/ ReadRemotes(c) \/ SaveRefraction(c)
    BY <1>2 DEF Superusers, Permitted, Fail, InsertRemote, Enqueue, ReadRemote,
                SaveSecurity, Dereference, ReadRefraction, ReadRemotes, SaveRefraction,
                sidecar
  <1>3. CASE DeleteRemoteRow(c) \/ DeleteRefractionRow(c)
    BY <1>3 DEF DeleteRemoteRow, DeleteRefractionRow, Deletes, sidecar
  <1>4. CASE Bind(c) \/ BindGlobal(c)
    BY <1>4 DEF Bind, BindGlobal
  <1> QED  BY <1>1, <1>2, <1>3, <1>4 DEF Mutate

\* createRoleBinding asks the sidecar in one round trip and adds the role in a later
\* one, as do the mutations that create a row and bind its creator; however they
\* overlap, the user of the mutation that adds a role has SUDO on its resource when
\* it is added, and SUPER comes from a superuser.
THEOREM AuthorityIsHandedOn == Spec => AuthorityIsGiven
  <1> DEFINE Step ==
        /\ \A b \in bindings' \ bindings : \E c \in Calls :
              call'[c] # call[c] /\ Can(call[c].user, b.res, "SUDO")
        /\ supers' # supers => \E c \in Calls :
              call'[c] # call[c] /\ call[c].user \in supers
  <1>1. ASSUME IInv, Configure PROVE Step
    <2>1. ASSUME NEW b \in bindings' \ bindings
          PROVE  \E c \in Calls : call'[c] # call[c] /\ Can(call[c].user, b.res, "SUDO")
      <3>1. PICK c \in Calls : Bind(c)
        BY <1>1, <2>1, WhoBinds
      <3> DEFINE label == CASE call[c].op = "bind" -> "done"
                            [] call[c].op = "createRemote" -> "insert"
                            [] OTHER -> "readRemotes"
      <3>2. /\ call[c].pc = "bind" /\ Goto(c, label) /\ b.res = ResourceOf(call[c])
            /\ label \in {"done", "insert", "readRemotes"}
        BY <2>1, <3>1 DEF Bind, At, Bound, Resource, ResourceOf
      <3>3. call[c] \in Records /\ Good(call[c]) /\ call \in [Calls -> Records]
        BY <1>1 DEF IInv, CallsInv
      <3>4. Can(call[c].user, b.res, "SUDO")
        BY <3>2, <3>3 DEF Good, OpAt, Asked, Allowed, RequiredOf, Creating
      <3>5. call'[c].pc # "bind"
        <4> HIDE DEF label
        <4>1. CASE label = "done"
          <5>1. call' = [call EXCEPT ![c] = Done]
            BY <3>2, <4>1 DEF Goto
          <5> QED  BY <3>3, <5>1, BlankRecord
        <4>2. CASE label # "done"
          <5>1. call' = [call EXCEPT ![c].pc = label]
            BY <3>2, <3>3, <4>2 DEF Goto
          <5> QED  BY <3>2, <3>3, <5>1 DEF Records
        <4> QED  BY <4>1, <4>2
      <3> QED  BY <3>2, <3>4, <3>5
    <2>2. supers' = supers
      <3>1. ASSUME NEW c \in Calls, BindGlobal(c) PROVE supers' = supers
        BY <1>1, <3>1 DEF BindGlobal, At, IInv, CallsInv, Good, Allowed
      <3> QED  BY <1>1, <3>1, WhoBinds
    <2> HIDE DEF Step
    <2> QED  BY <2>1, <2>2 DEF Step
  <1>2. IInv /\ [Configure]_configVars => [Step]_configVars
    BY <1>1
  <1> QED  BY <1>2, Invariant, PTL DEF Spec, AuthorityIsGiven

-----------------------------------------------------------------------------
(* The Resolver.                                                           *)

ConfigInv == IInv /\ MembersExist

\* A map of settings: of some remotes, or of none.
SettingsMaps == {<<>>} \cup UNION {[S -> Settings] : S \in SUBSET Remotes}

CacheTypes ==
    /\ entry \in [Buckets -> [id : Refractions \cup {Absent}, age : 0..TTL,
                              settings : SettingsMaps]]
    /\ load \in [Buckets -> [at : {"none", "row", "remotes"},
                             id : Refractions \cup {Absent}, remotes : SUBSET Remotes]]
    /\ \A n \in Buckets : load[n].at # "none" => load[n].id \in Refractions
    /\ dirty \subseteq Buckets

\* Until the configuration changes, a load has the refraction of its name and,
\* after its second query, the remotes of it.
LoadsCurrent ==
    \A n \in Buckets \ dirty :
        /\ load[n].at # "none" => load[n].id \in Named(n)
        /\ load[n].at = "remotes" => load[n].remotes = members[load[n].id]

CacheInv == CacheTypes /\ LoadsCurrent /\ StaleOnlyByChange

-----------------------------------------------------------------------------
\* What is served and loaded keeps its types when the cache changes in one name.
LEMMA NoEntryTypes ==
    /\ NoEntry \in [id : Refractions \cup {Absent}, age : 0..TTL, settings : SettingsMaps]
    /\ NoLoad \in [at : {"none", "row", "remotes"}, id : Refractions \cup {Absent},
                   remotes : SUBSET Remotes]
    /\ NoLoad.at = "none" /\ NoEntry.age = TTL
  BY ResolverAssumption DEF NoEntry, NoLoad, SettingsMaps

LEMMA CacheInit == ResolverInit => ConfigInv /\ CacheInv
  <1> SUFFICES ASSUME ResolverInit PROVE ConfigInv /\ CacheInv
    OBVIOUS
  <1> USE DEF ResolverInit
  <1>1. ConfigInv
    BY InitInvariant, ConfigurationAssumption DEF ConfigInv, MembersExist, Init
  <1>2. \A n \in Buckets : load[n] = NoLoad /\ entry[n] = NoEntry
    OBVIOUS
  <1>3. CacheTypes
    BY NoEntryTypes DEF CacheTypes
  <1>5. LoadsCurrent /\ StaleOnlyByChange
    BY <1>2, NoEntryTypes, ResolverAssumption DEF LoadsCurrent, StaleOnlyByChange, Usable
  <1> QED  BY <1>1, <1>3, <1>5 DEF CacheInv

\* Requests and time leave the configuration alone.
LEMMA ConfigKept == ConfigInv /\ [ResolverNext]_vars => ConfigInv'
  <1> SUFFICES ASSUME ConfigInv, [ResolverNext]_vars PROVE ConfigInv'
    OBVIOUS
  <1>1. [Configure]_configVars
    BY DEF ResolverNext, Miss, LoadRemotes, Store, LoadFails, Evict, Tick, Mutation, vars
  <1> QED  BY <1>1, NextInvariant, MembersStep DEF ConfigInv

-----------------------------------------------------------------------------
(* One lemma for each action.                                              *)

\* The database does not change when the cache does.
LEMMA SameTables ==
    ASSUME UNCHANGED configVars
    PROVE  /\ \A n : Named(n)' = Named(n)
           /\ \A f : Current(f)' = Current(f)
           /\ UNCHANGED members
  BY DEF configVars, tables, Named, Current

LEMMA MissCache ==
    ASSUME ConfigInv, CacheInv, NEW n \in Buckets, Miss(n)
    PROVE  CacheInv'
  <1> DEFINE begun(f) == [at |-> "row", id |-> f, remotes |-> {}]
  <1>0. PICK f \in Named(n) : load' = [load EXCEPT ![n] = begun(f)]
    BY DEF Miss
  <1>1. /\ load[n].at = "none" /\ ~Usable(n) /\ dirty' = dirty \ {n}
        /\ UNCHANGED <<configVars, entry>>
    BY DEF Miss
  <1>2. f \in Refractions
    BY DEF Named
  <1>3. CacheTypes'
    BY <1>0, <1>1, <1>2 DEF CacheInv, CacheTypes
  <1>5. LoadsCurrent'
    BY <1>0, <1>1, SameTables DEF CacheInv, CacheTypes, LoadsCurrent
  <1>6. StaleOnlyByChange'
    BY <1>1, SameTables DEF CacheInv, StaleOnlyByChange, Usable
  <1> QED  BY <1>3, <1>5, <1>6 DEF CacheInv

\* The second query finds all remotes of the refraction, as MembersExist.
LEMMA LoadRemotesCache ==
    ASSUME ConfigInv, CacheInv, NEW n \in Buckets, LoadRemotes(n)
    PROVE  CacheInv'
  <1>1. /\ load[n].at = "row"
        /\ load' = [load EXCEPT ![n].at = "remotes",
                                ![n].remotes = LoadedRemotes(load[n].id)]
        /\ UNCHANGED <<configVars, entry, dirty>>
    BY DEF LoadRemotes
  <1>2. load[n].id \in Refractions
    BY <1>1 DEF CacheInv, CacheTypes
  <1>3. /\ LoadedRemotes(load[n].id) = members[load[n].id]
        /\ members[load[n].id] \subseteq Remotes
    BY <1>2 DEF LoadedRemotes, ConfigInv, MembersExist, IInv, Types
  <1>4. CacheTypes'
    BY <1>1, <1>3 DEF CacheInv, CacheTypes
  <1>7. LoadsCurrent'
    BY <1>1, <1>3, SameTables DEF CacheInv, CacheTypes, LoadsCurrent
  <1>8. StaleOnlyByChange'
    BY <1>1, SameTables DEF CacheInv, StaleOnlyByChange, Usable
  <1> QED  BY <1>4, <1>7, <1>8 DEF CacheInv

LEMMA StoreCache ==
    ASSUME ConfigInv, CacheInv, NEW n \in Buckets, Store(n)
    PROVE  CacheInv'
  <1> DEFINE loaded == [r \in load[n].remotes |-> Loaded(security[r])]
             e == [id |-> load[n].id, age |-> 0, settings |-> loaded]
  <1>1. /\ load[n].at = "remotes"
        /\ entry' = [entry EXCEPT ![n] = e]
        /\ load' = [load EXCEPT ![n] = NoLoad]
        /\ UNCHANGED <<configVars, dirty>>
    BY DEF Store
  <1>2. load[n].id \in Refractions /\ load[n].remotes \in SUBSET Remotes
    BY <1>1 DEF CacheInv, CacheTypes
  <1>3. \A r \in Remotes : Loaded(security[r]) \in Settings
    BY DEF Loaded, Settings, ConfigInv, IInv, Types
  <1>4. loaded \in [load[n].remotes -> Settings]
    BY <1>2, <1>3
  <1>5. loaded \in SettingsMaps
    BY <1>2, <1>4 DEF SettingsMaps
  <1>6. n \notin dirty => load[n].id \in Named(n) /\ loaded = Current(load[n].id)
    BY <1>1 DEF CacheInv, LoadsCurrent, Current
  <1>7. e \in [id : Refractions \cup {Absent}, age : 0..TTL, settings : SettingsMaps]
    BY <1>2, <1>5, ResolverAssumption
  <1>8. e.id = load[n].id /\ e.settings = loaded
    OBVIOUS
  <1> HIDE DEF e, loaded
  <1>9. entry'[n] = e /\ \A k \in Buckets \ {n} : entry'[k] = entry[k]
    BY <1>1 DEF CacheInv, CacheTypes
  <1>10. load'[n] = NoLoad /\ \A k \in Buckets \ {n} : load'[k] = load[k]
    BY <1>1 DEF CacheInv, CacheTypes
  <1>11. CacheTypes'
    BY <1>1, <1>7, NoEntryTypes DEF CacheInv, CacheTypes
  <1>13. LoadsCurrent'
    BY <1>1, <1>10, NoEntryTypes, SameTables DEF CacheInv, LoadsCurrent
  <1>14. StaleOnlyByChange'
    BY <1>1, <1>6, <1>8, <1>9, SameTables DEF CacheInv, StaleOnlyByChange, Usable
  <1> QED  BY <1>11, <1>13, <1>14 DEF CacheInv

LEMMA LoadFailsCache ==
    ASSUME ConfigInv, CacheInv, NEW n \in Buckets, LoadFails(n)
    PROVE  CacheInv'
  <1>1. /\ load[n].at # "none" /\ load' = [load EXCEPT ![n] = NoLoad]
        /\ UNCHANGED <<configVars, entry, dirty>>
    BY DEF LoadFails
  <1>2. CacheTypes'
    BY <1>1, NoEntryTypes DEF CacheInv, CacheTypes
  <1>4. LoadsCurrent'
    BY <1>1, NoEntryTypes, SameTables DEF CacheInv, CacheTypes, LoadsCurrent
  <1>5. StaleOnlyByChange'
    BY <1>1, SameTables DEF CacheInv, StaleOnlyByChange, Usable
  <1> QED  BY <1>2, <1>4, <1>5 DEF CacheInv

\* Time and eviction make entries older or drop them, and change nothing else.
LEMMA EntriesGo ==
    ASSUME ConfigInv, CacheInv, UNCHANGED <<configVars, load, dirty>>,
           entry' \in [Buckets -> [id : Refractions \cup {Absent}, age : 0..TTL,
                                   settings : SettingsMaps]],
           \A n \in Buckets : Usable(n)' =>
              /\ Usable(n)
              /\ entry'[n].id = entry[n].id /\ entry'[n].settings = entry[n].settings
    PROVE  CacheInv'
  <1>1. CacheTypes'
    BY DEF CacheInv, CacheTypes
  <1>3. LoadsCurrent'
    BY SameTables DEF CacheInv, LoadsCurrent
  <1>4. StaleOnlyByChange'
    BY SameTables DEF CacheInv, StaleOnlyByChange
  <1> QED  BY <1>1, <1>3, <1>4 DEF CacheInv

LEMMA TickCache ==
    ASSUME ConfigInv, CacheInv, Tick
    PROVE  CacheInv'
  <1> DEFINE Entries == [id : Refractions \cup {Absent}, age : 0..TTL,
                         settings : SettingsMaps]
             older(n) == IF Usable(n) /\ Aged(entry[n].age) < TTL
                         THEN [entry[n] EXCEPT !.age = Aged(@)] ELSE NoEntry
  <1>1. entry' = [n \in Buckets |-> older(n)]
        /\ UNCHANGED <<configVars, load, dirty>>
    BY DEF Tick
  <1>2. ASSUME NEW n \in Buckets
        PROVE  /\ older(n) \in Entries
               /\ older(n).age < TTL =>
                    /\ Usable(n)
                    /\ older(n).id = entry[n].id /\ older(n).settings = entry[n].settings
    <2>1. entry[n] \in Entries
      BY DEF CacheInv, CacheTypes
    <2>2. CASE Usable(n) /\ Aged(entry[n].age) < TTL
      BY <2>1, <2>2, ResolverAssumption DEF Aged, Usable
    <2>3. CASE ~(Usable(n) /\ Aged(entry[n].age) < TTL)
      BY <2>3, NoEntryTypes, ResolverAssumption
    <2> QED  BY <2>2, <2>3
  <1> HIDE DEF older
  <1>3. entry' \in [Buckets -> Entries] /\ \A n \in Buckets : entry'[n] = older(n)
    BY <1>1, <1>2
  <1> QED  BY <1>1, <1>2, <1>3, EntriesGo DEF Usable

LEMMA EvictCache ==
    ASSUME ConfigInv, CacheInv, NEW n \in Buckets, Evict(n)
    PROVE  CacheInv'
  <1>1. entry' = [entry EXCEPT ![n] = NoEntry]
        /\ UNCHANGED <<configVars, load, dirty>>
    BY DEF Evict
  <1>2. entry' \in [Buckets -> [id : Refractions \cup {Absent}, age : 0..TTL,
                                settings : SettingsMaps]]
    BY <1>1, NoEntryTypes DEF CacheInv, CacheTypes
  <1>3. ASSUME NEW k \in Buckets, Usable(k)'
        PROVE  Usable(k) /\ entry'[k] = entry[k]
    BY <1>1, <1>3, NoEntryTypes, ResolverAssumption DEF CacheInv, CacheTypes, Usable
  <1> QED  BY <1>1, <1>2, <1>3, EntriesGo

\* After a change of the tables nothing is said of any name.
LEMMA MutationCache ==
    ASSUME ConfigInv, CacheInv, Mutation
    PROVE  CacheInv'
  <1>1. dirty' = (IF tables' = tables THEN dirty ELSE Buckets)
        /\ UNCHANGED <<entry, load>>
    BY DEF Mutation
  <1>2. CacheTypes'
    BY <1>1 DEF CacheInv, CacheTypes
  <1>3. CASE tables' = tables
    <2>1. \A n : Named(n)' = Named(n)
      BY <1>3 DEF tables, Named
    <2>2. \A f : Current(f)' = Current(f) /\ members' = members
      BY <1>3 DEF tables, Current
    <2>3. LoadsCurrent'
      BY <1>1, <1>3, <2>1, <2>2 DEF CacheInv, LoadsCurrent
    <2>4. StaleOnlyByChange'
      BY <1>1, <1>3, <2>1, <2>2 DEF CacheInv, StaleOnlyByChange, Usable
    <2> QED  BY <1>2, <2>3, <2>4 DEF CacheInv
  <1>4. CASE tables' # tables
    <2>1. Buckets \ dirty' = {}
      BY <1>1, <1>4
    <2>2. LoadsCurrent' /\ StaleOnlyByChange'
      BY <2>1 DEF LoadsCurrent, StaleOnlyByChange
    <2> QED  BY <1>2, <2>2 DEF CacheInv
  <1> QED  BY <1>3, <1>4

LEMMA CacheKept == ConfigInv /\ CacheInv /\ [ResolverNext]_vars => CacheInv'
  <1> SUFFICES ASSUME ConfigInv, CacheInv, [ResolverNext]_vars PROVE CacheInv'
    OBVIOUS
  <1>1. CASE ResolverNext
    BY <1>1, MissCache, LoadRemotesCache, StoreCache, LoadFailsCache, EvictCache,
       TickCache, MutationCache DEF ResolverNext
  <1>2. CASE UNCHANGED vars
    <2>1. UNCHANGED <<configVars, entry, load, dirty>>
      BY <1>2 DEF vars, resolverVars
    <2> QED  BY <2>1, EntriesGo DEF CacheInv, CacheTypes, Usable
  <1> QED  BY <1>1, <1>2

\* The inductive invariant holds in every state that can be reached.
THEOREM CacheInvariant == ResolverSpec => [](ConfigInv /\ CacheInv)
  BY CacheInit, ConfigKept, CacheKept, PTL DEF ResolverSpec

-----------------------------------------------------------------------------
\* Entries and loads have the values meant; what is served is a map of settings of
\* remotes.
THEOREM CacheTypesHold == ResolverSpec => []CacheTypeOK
  <1>1. CacheInv => CacheTypeOK
    <2> SUFFICES ASSUME CacheInv PROVE CacheTypeOK
      OBVIOUS
    <2>1. ASSUME NEW n \in Buckets PROVE DOMAIN entry[n].settings \subseteq Remotes
      <3>1. entry[n].settings \in SettingsMaps
        BY DEF CacheInv, CacheTypes
      <3> QED  BY <3>1 DEF SettingsMaps
    <2> QED  BY <2>1 DEF CacheInv, CacheTypes, CacheTypeOK
  <1> QED  BY <1>1, CacheInvariant, PTL

\* A load is three queries with mutations between them and no transaction; an
\* entry still differs from the database only when a mutation changed the
\* database after its load had begun.
THEOREM OnlyChangesMakeStale == ResolverSpec => []StaleOnlyByChange
  <1>1. CacheInv => StaleOnlyByChange
    BY DEF CacheInv
  <1> QED  BY <1>1, CacheInvariant, PTL

\* What requests and the cache do is no mutation: all that is proved of
\* Configuration holds of it with the cache in front.
THEOREM CacheRefinesConfiguration == ResolverSpec => Spec
  <1>1. ResolverInit => Init
    BY DEF ResolverInit
  <1>2. [ResolverNext]_vars => [Configure]_configVars
    BY DEF ResolverNext, Miss, LoadRemotes, Store, LoadFails, Evict, Tick, Mutation, vars
  <1> QED  BY <1>1, <1>2, PTL DEF ResolverSpec, Spec
=============================================================================
