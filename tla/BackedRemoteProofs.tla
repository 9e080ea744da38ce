------------------------- MODULE BackedRemoteProofs -------------------------
(***************************************************************************)
(* Theorems about BackedRemote, for any number of calls, clients, tokens   *)
(* and users and any combination of faults: content stays with those       *)
(* entitled to it, the cache serves whole objects, credentials go only     *)
(* where the mode allows, and every download and all traffic is recorded.  *)
(*                                                                         *)
(* All five rest on Base: the types, and what a call under way carries.    *)
(* HeardEffect, StoreEffect, AnswersEffect, GetEffect and TrafficEffect    *)
(* then say once what any step can do to the shared state and to the       *)
(* answers, and each safety theorem is about those effects.                *)
(***************************************************************************)
EXTENDS BackedRemote, FiniteSetTheorems, TLAPS

Results == [status : {"none", "ok", "error"}, parts : 0..Parts,
            from : {"none", "store", "remote"}, by : AnyCredential]
Labels == {"idle", "validate", "query", "head", "get", "ask", "upload", "done"}
Contexts == [header : Headers \cup {"none"}, token : Tokens \cup {DirectToken, NoToken},
             user : Users \cup {NoUser}]

\* Between its round trips a call carries what validateContext left of its
\* client's credentials, and the user GitLab named for a job token or none.
Active(r) == pc[r] \in {"query", "head", "get", "ask", "upload"}

ContextOK(r) ==
    /\ SentTo(r) = Validated(call[r].cred)
    /\ pc[r] = "query" => rctx[r].header = JobToken
    /\ rctx[r].user # NoUser =>
          /\ rctx[r].header = JobToken
          /\ rctx[r].token \in Tokens
          /\ rctx[r].user = UserOf[rctx[r].token]

\* A call that has arrived names a file, and records at most one download in
\* Exists and one in Download.
CallInv(r) ==
    /\ Active(r) => ContextOK(r)
    /\ pc[r] # "idle" => call[r].path \in Paths
    /\ pc[r] \notin {"get", "upload", "done"} =>
          Tried(r) <= (IF pc[r] = "idle" \/ phase[r] = "exists" THEN 0 ELSE 1)

Base == TypeOK /\ \A r \in Requests : CallInv(r)

-----------------------------------------------------------------------------
LEMMA CredentialTypes ==
    /\ Clients \subseteq ClientCredentials
    /\ Anonymous \in AnyCredential
    /\ ClientCredentials \subseteq AnyCredential
    /\ AnyCredential \subseteq [header : Headers \cup {"none"},
                                token : Tokens \cup {DirectToken, NoToken}]
  BY ClientsAssumption
  DEF ClientCredentials, AnyCredential, Anonymous, Credential, Headers

\* What validateContext leaves is a credential of the client or the remote.
LEMMA ValidatedType ==
    ASSUME conf \in Configs, NEW c \in AnyCredential
    PROVE  Validated(c) \in AnyCredential
  <1>1. conf.mode \in {"NONE", "PROXY", "DIRECT"}
    BY DataAssumption
  <1>2. Anonymous \in AnyCredential
        /\ Credential("Authorization", DirectToken) \in AnyCredential
    BY DEF AnyCredential, ClientCredentials
  <1> QED  BY <1>1, <1>2 DEF Validated

LEMMA PartitionType ==
    ASSUME NEW c \in Contexts
    PROVE  Partition(c) \in Parting
  BY DEF Partition, Parting, Contexts

LEMMA ResultTypes ==
    /\ Unanswered \in Results /\ Error \in Results /\ Exists \in Results
    /\ \A n \in 0..Parts, from \in {"store", "remote"}, c \in AnyCredential :
          Ok(n, from, c) \in Results
  BY DataAssumption, CredentialTypes
  DEF Results, Unanswered, Error, Exists, Ok

LEMMA InitBase == Init => Base
  <1> SUFFICES ASSUME Init PROVE Base
    OBVIOUS
  <1>1. call \in [Requests -> [op : {"none", "HEAD", "GET", "FETCH"},
                             path : Paths \cup {"none"}, cred : ClientCredentials]]
    BY DEF Init, ClientCredentials
  <1>2. /\ rctx \in [Requests -> [header : Headers \cup {"none"},
                                 token : Tokens \cup {DirectToken, NoToken},
                                 user : Users \cup {NoUser}]]
        /\ conf \in Configs
        /\ phase \in [Requests -> {"exists", "download"}]
        /\ pc \in [Requests -> {"idle", "validate", "query", "head", "get",
                                "ask", "upload", "done"}]
    BY DEF Init
  <1>3. result \in [Requests -> Results] /\ origin \in [Keys -> AnyCredential]
    BY ResultTypes, CredentialTypes DEF Init
  <1>4. store \in [Keys -> 0..Parts]
    BY DataAssumption DEF Init
  <1>5. /\ known \subseteq Tokens
        /\ seen \subseteq Paths \X (Tokens \cup {DirectToken, NoToken})
        /\ live \subseteq Tokens \cup {DirectToken, NoToken}
        /\ heard \subseteq AnyCredential
    BY DEF Init
  <1>6. created \in [Requests -> [made : 0..2, refused : 0..2]]
        /\ observed \in [networkA : Nat, networkB : Nat, storage : Nat]
    BY DEF Init
  <1>7. TypeOK
    BY <1>1, <1>2, <1>3, <1>4, <1>5, <1>6 DEF TypeOK, Results
  <1>8. \A r \in Requests : CallInv(r)
    BY DEF Init, CallInv, Active, Tried
  <1> QED  BY <1>7, <1>8 DEF Base
-----------------------------------------------------------------------------
(* Facts about one step of one call.                                       *)

ControlTypeOK ==
    /\ phase \in [Requests -> {"exists", "download"}]
    /\ pc \in [Requests -> Labels]
    /\ result \in [Requests -> Results]

LEMMA Control ==
    ASSUME ControlTypeOK, NEW r \in Requests
    PROVE  /\ \A label \in Labels : Goto(r, label) =>
                 /\ ControlTypeOK'
                 /\ pc'[r] = label /\ phase'[r] = phase[r] /\ result'[r] = result[r]
           /\ \A res \in Results : Finish(r, res) =>
                 /\ ControlTypeOK'
                 /\ pc'[r] = "done" /\ phase'[r] = phase[r] /\ result'[r] = res
           /\ Located(r) =>
                 /\ ControlTypeOK'
                 /\ \/ pc'[r] = "done" /\ phase'[r] = phase[r] /\ result'[r] = Exists
                    \/ /\ pc'[r] = "validate" /\ phase'[r] = "download"
                       /\ result'[r] = result[r]
  BY ResultTypes DEF ControlTypeOK, Labels, Goto, Finish, Located

\* A step of one call touches nothing of another.
LEMMA OthersKeep ==
    ASSUME TypeOK, NEW r \in Requests, Step(r), NEW q \in Requests, q # r
    PROVE  /\ conf' = conf
           /\ pc'[q] = pc[q] /\ phase'[q] = phase[q] /\ call'[q] = call[q]
           /\ rctx'[q] = rctx[q] /\ created'[q] = created[q]
           /\ result'[q] = result[q]
  <1> USE DEF TypeOK, shared
  <1> DEFINE Kept == /\ conf' = conf
                     /\ pc'[q] = pc[q] /\ phase'[q] = phase[q] /\ call'[q] = call[q]
                     /\ rctx'[q] = rctx[q] /\ created'[q] = created[q]
                     /\ result'[q] = result[q]
  <1>1. (\E label : Goto(r, label)) \/ (\E res : Finish(r, res)) \/ Located(r)
          => pc'[q] = pc[q] /\ phase'[q] = phase[q] /\ result'[q] = result[q]
    BY DEF Goto, Finish, Located
  <1>2. Record(r) => created'[q] = created[q]
    BY DEF Record
  <1>3. Start(r) => Kept
    BY DEF Start
  <1>4. Validate(r) \/ Query(r) \/ QueryFails(r) => Kept
    BY <1>1 DEF Validate, Query, QueryFails
  <1>5. HeadHit(r) \/ HeadMiss(r) \/ Get(r) \/ GetFails(r) => Kept
    BY <1>1, <1>2 DEF HeadHit, HeadMiss, Get, GetFails
  <1>6. ProbeKnown(r) \/ ProbeGranted(r) \/ NotListed(r) \/ AskFails(r) => Kept
    BY <1>1, <1>2 DEF ProbeKnown, ProbeGranted, NotListed, AskFails
  <1>7. Fetch(r) \/ Upload(r) \/ UploadFails(r) => Kept
    BY <1>1, <1>2 DEF Fetch, Upload, UploadFails, Deliver
  <1> QED  BY <1>3, <1>4, <1>5, <1>6, <1>7 DEF Step

\* So only the call that takes the step has to be looked at.
LEMMA OwnSuffices ==
    ASSUME Base, NEW r \in Requests, Step(r), CallInv(r)'
    PROVE  \A q \in Requests : CallInv(q)'
  <1> SUFFICES ASSUME NEW q \in Requests, q # r
               PROVE  CallInv(q)'
    OBVIOUS
  <1>1. /\ conf' = conf
        /\ pc'[q] = pc[q] /\ phase'[q] = phase[q] /\ call'[q] = call[q]
        /\ rctx'[q] = rctx[q] /\ created'[q] = created[q]
    BY OthersKeep DEF Base
  <1>2. CallInv(q)
    BY DEF Base
  <1>3. Active(q)' <=> Active(q)
    BY <1>1 DEF Active
  <1>4. ContextOK(q)' <=> ContextOK(q)
    BY <1>1 DEF ContextOK, SentTo, Validated
  <1> QED  BY <1>1, <1>2, <1>3, <1>4 DEF CallInv, Tried

\* Only clients hold job tokens.
LEMMA JobTokenHeld ==
    ASSUME NEW t, Credential(JobToken, t) \in AnyCredential
    PROVE  t \in Tokens
  <1> DEFINE c == Credential(JobToken, t)
  <1>1. c.header = "Job-Token" /\ c.token = t
    BY DEF Credential, JobToken
  <1>2. c # Anonymous /\ c # Credential("Authorization", DirectToken)
    BY <1>1 DEF Anonymous, Credential
  <1>3. PICK h \in Headers, u \in Tokens : c = Credential(h, u)
    BY <1>2 DEF AnyCredential, ClientCredentials
  <1>4. c.token = u
    BY <1>3 DEF Credential
  <1> QED  BY <1>1, <1>4

\* What a call carries, and the key it uses, while it is under way.
LEMMA Carried ==
    ASSUME Base, NEW r \in Requests, Active(r)
    PROVE  /\ Key(r) \in Keys
           /\ SentTo(r) \in AnyCredential
           /\ pc[r] = "query" => rctx[r].token \in Tokens
           /\ call[r].path \in Paths
           /\ rctx[r] \in Contexts
  <1> USE DEF Base
  <1>1. call[r].cred \in AnyCredential
    BY CredentialTypes DEF TypeOK
  <1>2. SentTo(r) \in AnyCredential
    BY <1>1, ValidatedType DEF CallInv, ContextOK, TypeOK
  <1>3. call[r].path \in Paths
    BY DEF CallInv, Active
  <1>4. rctx[r] \in Contexts
    BY DEF TypeOK, Contexts
  <1>5. Partition(rctx[r]) \in Parting
    BY <1>4, PartitionType
  <1>6. Key(r) \in Keys
    BY <1>3, <1>5 DEF Key, Keys
  <1>7. ASSUME pc[r] = "query" PROVE rctx[r].token \in Tokens
    <2>1. rctx[r].header = JobToken
      BY <1>7 DEF CallInv, ContextOK
    <2>2. Credential(JobToken, rctx[r].token) \in AnyCredential
      BY <1>2, <2>1 DEF SentTo
    <2> QED  BY <2>2, JobTokenHeld
  <1> QED  BY <1>2, <1>3, <1>4, <1>6, <1>7
-----------------------------------------------------------------------------
(* Every step keeps the base invariant.                                    *)

\* The variables that are not about one call.
SharedTypeOK ==
    /\ store \in [Keys -> 0..Parts]
    /\ origin \in [Keys -> AnyCredential]
    /\ known \subseteq Tokens
    /\ seen \subseteq Paths \X (Tokens \cup {DirectToken, NoToken})
    /\ live \subseteq Tokens \cup {DirectToken, NoToken}
    /\ observed \in [networkA : Nat, networkB : Nat, storage : Nat]
    /\ heard \subseteq AnyCredential

CallTypeOK ==
    /\ conf \in Configs
    /\ call \in [Requests -> [op : {"none", "HEAD", "GET", "FETCH"},
                             path : Paths \cup {"none"}, cred : ClientCredentials]]
    /\ rctx \in [Requests -> Contexts]
    /\ created \in [Requests -> [made : 0..2, refused : 0..2]]

LEMMA TypeParts ==
    /\ TypeOK <=> ControlTypeOK /\ SharedTypeOK /\ CallTypeOK
    /\ TypeOK' <=> ControlTypeOK' /\ SharedTypeOK' /\ CallTypeOK'
  BY DEF TypeOK, ControlTypeOK, SharedTypeOK, CallTypeOK, Labels, Results, Contexts

\* A step within a phase keeps the context that Validate set up.
LEMMA ContextKept ==
    ASSUME Base, NEW r \in Requests, Active(r),
           conf' = conf, call' = call, rctx' = rctx, pc'[r] # "query",
           pc'[r] \notin {"get", "upload", "done"} =>
              Tried(r)' <= (IF pc'[r] = "idle" \/ phase'[r] = "exists" THEN 0 ELSE 1)
    PROVE  CallInv(r)'
  <1>1. ContextOK(r) /\ call[r].path \in Paths
    BY DEF Base, CallInv, Active
  <1>2. pc'[r] # "query" /\ ContextOK(r)'
    BY <1>1 DEF ContextOK, SentTo, Validated
  <1> QED  BY <1>1, <1>2 DEF CallInv

\* A download is recorded, or fails to be, where none has been in this phase.
LEMMA Recorded ==
    ASSUME Base, NEW r \in Requests, Active(r), pc[r] \notin {"get", "upload"}
    PROVE  /\ Tried(r) \in Nat
           /\ Tried(r) <= (IF phase[r] = "exists" THEN 0 ELSE 1)
           /\ created' = created => Tried(r)' = Tried(r)
           /\ Record(r) =>
                 /\ created' \in [Requests -> [made : 0..2, refused : 0..2]]
                 /\ Tried(r)' = Tried(r) + 1
  <1>1. created \in [Requests -> [made : 0..2, refused : 0..2]]
    BY DEF Base, TypeOK
  <1>2. Tried(r) <= (IF phase[r] = "exists" THEN 0 ELSE 1)
    BY DEF Base, CallInv, Active
  <1>3. Tried(r) \in Nat /\ (created' = created => Tried(r)' = Tried(r))
    BY <1>1 DEF Tried
  <1>4. ASSUME Record(r)
        PROVE  /\ created' \in [Requests -> [made : 0..2, refused : 0..2]]
               /\ Tried(r)' = Tried(r) + 1
    <2>1. PICK o \in {"made", "refused"} :
             created' = [created EXCEPT ![r] = [created[r] EXCEPT ![o] = @ + 1]]
      BY <1>4 DEF Record, Outcomes
    <2>2. /\ created[r].made \in 0..1 /\ created[r].refused \in 0..1
          /\ created[r] = [made |-> created[r].made, refused |-> created[r].refused]
      BY <1>1, <1>2 DEF Tried
    <2>3. created'[r] = [created[r] EXCEPT ![o] = @ + 1]
      BY <1>1, <2>1
    <2>4. CASE o = "made"
      <3>1. created'[r] = [made |-> created[r].made + 1, refused |-> created[r].refused]
        BY <2>2, <2>3, <2>4
      <3> QED  BY <1>1, <2>1, <2>2, <3>1 DEF Tried
    <2>5. CASE o = "refused"
      <3>1. created'[r] = [made |-> created[r].made, refused |-> created[r].refused + 1]
        BY <2>2, <2>3, <2>5
      <3> QED  BY <1>1, <2>1, <2>2, <3>1 DEF Tried
    <2> QED  BY <2>4, <2>5
  <1> QED  BY <1>2, <1>3, <1>4

\* What is added to the traffic is a number of parts.
LEMMA Delivering ==
    ASSUME SharedTypeOK, NEW r \in Requests, NEW n \in 0..Parts, Deliver(r, n)
    PROVE  observed' \in [networkA : Nat, networkB : Nat, storage : Nat]
  <1>1. n \in Nat
    BY DataAssumption
  <1>2. observed \in [networkA : Nat, networkB : Nat, storage : Nat]
    BY DEF SharedTypeOK
  <1>3. observed' = [observed EXCEPT !.networkA = observed.networkA + n,
                                    !.storage = observed.storage + n]
    BY DEF Deliver
  <1>4. observed.networkA + n \in Nat /\ observed.storage + n \in Nat
    BY <1>1, <1>2
  <1> QED  BY <1>2, <1>3, <1>4

LEMMA StepBase == Base /\ [Next]_vars => Base'
  <1> SUFFICES ASSUME Base, [Next]_vars PROVE Base'
    OBVIOUS
  <1>c. ControlTypeOK /\ SharedTypeOK /\ CallTypeOK
    BY TypeParts DEF Base
  <1>o. \A r \in Requests : CallInv(r)
    BY DEF Base
  <1>1. ASSUME NEW r \in Requests, Start(r) PROVE Base'
    <2>1. ControlTypeOK'
      BY <1>1, <1>c, ResultTypes DEF Start, Labels, ControlTypeOK
    <2>2. SharedTypeOK'
      BY <1>1, <1>c, DataAssumption DEF SharedTypeOK, Start, Labels, shared
    <2>3. CallTypeOK'
      BY <1>1, <1>c, CredentialTypes DEF CallTypeOK, Start
    <2>4. CallInv(r)'
      <3>1. /\ pc'[r] \in {"validate", "done"} /\ call'[r].path \in Paths
            /\ created' = created /\ pc[r] = "idle"
        BY <1>1, <1>c DEF Start, ControlTypeOK, CallTypeOK
      <3>2. Tried(r)' <= 0
        BY <3>1, <1>o DEF CallInv, Tried
      <3>3. 0 <= 1 /\ Tried(r)' \in Nat
        BY <1>c, <3>1 DEF CallTypeOK, Tried
      <3> QED  BY <3>1, <3>2, <3>3 DEF CallInv, Active
    <2> QED  BY <1>1, <2>1, <2>2, <2>3, <2>4, TypeParts, OwnSuffices DEF Base, Step
  <1>2. ASSUME NEW r \in Requests, Validate(r) PROVE Base'
    <2>1. ControlTypeOK'
      BY <1>2, <1>c, Control DEF Validate, FirstTrip, Labels
    <2>2. SharedTypeOK'
      BY <1>2, <1>c, DataAssumption
         DEF SharedTypeOK, Validate, FirstTrip, Labels, shared
    <2>3. CallTypeOK'
      BY <1>2, <1>c, <1>o, CredentialTypes, ValidatedType
         DEF CallTypeOK, Validate, Contexts
    <2>4. CallInv(r)'
      <3> DEFINE c == Validated(call[r].cred)
      <3>1. c \in [header : Headers \cup {"none"},
                  token : Tokens \cup {DirectToken, NoToken}]
        BY <1>c, CredentialTypes, ValidatedType DEF CallTypeOK
      <3>2. rctx'[r] = [header |-> c.header, token |-> c.token, user |-> NoUser]
        BY <1>2, <1>c DEF Validate, CallTypeOK
      <3>3. /\ Goto(r, IF AsksGitLab(c) THEN "query" ELSE FirstTrip(r))
            /\ conf' = conf /\ call' = call /\ created' = created /\ pc[r] = "validate"
        BY <1>2 DEF Validate
      <3>4. pc'[r] = "query" => c.header = JobToken
        BY <1>c, <3>3, Control DEF AsksGitLab, FirstTrip, Labels
      <3>5. Validated(call[r].cred)' = c
        BY <3>3 DEF Validated
      <3>6. SentTo(r)' = c
        BY <3>1, <3>2 DEF SentTo, Credential
      <3>7. ContextOK(r)'
        BY <3>2, <3>4, <3>5, <3>6 DEF ContextOK
      <3>8. pc'[r] \in {"query", "head", "ask"} /\ phase'[r] = phase[r]
        BY <1>c, <3>3, Control DEF FirstTrip, Labels
      <3> QED  BY <1>o, <3>3, <3>7, <3>8 DEF CallInv, Tried
    <2> QED  BY <1>2, <2>1, <2>2, <2>3, <2>4, TypeParts, OwnSuffices DEF Base, Step
  <1>3. ASSUME NEW r \in Requests, Query(r) PROVE Base'
    <2>0. Active(r)
      BY <1>3 DEF Active, Query
    <2>1. ControlTypeOK'
      BY <1>3, <1>c, Control DEF Query, FirstTrip, Labels
    <2>2. SharedTypeOK'
      BY <1>3, <1>c, <2>0, Carried, DataAssumption
         DEF SharedTypeOK, Query, FirstTrip, Labels, shared, Contexts
    <2>3. CallTypeOK'
      BY <1>3, <1>c, <2>0, Carried, DataAssumption DEF CallTypeOK, Query, Contexts
    <2>4. CallInv(r)'
      <3> DEFINE t == rctx[r].token
      <3>1. /\ rctx' = [rctx EXCEPT ![r].user = UserOf[t]]
            /\ conf' = conf /\ call' = call /\ created' = created /\ pc[r] = "query"
        BY <1>3 DEF Query
      <3>2. rctx'[r] = [rctx[r] EXCEPT !.user = UserOf[t]] /\ rctx[r] \in Contexts
        BY <1>c, <3>1 DEF CallTypeOK
      <3>3. /\ rctx'[r].header = rctx[r].header /\ rctx'[r].token = t
            /\ rctx'[r].user = UserOf[t]
        BY <3>2 DEF Contexts
      <3>4. ContextOK(r) /\ t \in Tokens /\ call[r].path \in Paths
        BY <2>0, <3>1, <1>o, Carried DEF CallInv
      <3>5. pc'[r] \in {"head", "ask"} /\ phase'[r] = phase[r]
        BY <1>3, <1>c, Control DEF Query, FirstTrip, Labels
      <3>6. ContextOK(r)'
        BY <3>1, <3>3, <3>4, <3>5 DEF ContextOK, SentTo, Validated
      <3> QED  BY <1>o, <3>1, <3>4, <3>5, <3>6 DEF CallInv, Tried
    <2> QED  BY <1>3, <2>1, <2>2, <2>3, <2>4, TypeParts, OwnSuffices DEF Base, Step
  <1>4. ASSUME NEW r \in Requests, QueryFails(r) PROVE Base'
    <2>0. Active(r)
      BY <1>4 DEF Active, QueryFails
    <2>1. ControlTypeOK'
      BY <1>4, <1>c, Control DEF QueryFails, FirstTrip, Labels
    <2>2. SharedTypeOK'
      BY <1>4, <1>c, <2>0, Carried, DataAssumption
         DEF SharedTypeOK, QueryFails, FirstTrip, Labels, shared, Contexts
    <2>3. CallTypeOK'
      BY <1>4, <1>c DEF CallTypeOK, QueryFails, shared
    <2>4. CallInv(r)'
      <3>1. conf' = conf /\ call' = call /\ rctx' = rctx
        BY <1>4 DEF QueryFails
      <3>2. pc'[r] \in {"head", "ask"} /\ phase'[r] = phase[r]
        BY <1>4, <1>c, Control DEF QueryFails, FirstTrip, Labels
      <3>3. Tried(r)' <= (IF phase[r] = "exists" THEN 0 ELSE 1)
        BY <1>4, <2>0, Recorded DEF QueryFails
      <3> QED  BY <2>0, <3>1, <3>2, <3>3, ContextKept
    <2> QED  BY <1>4, <2>1, <2>2, <2>3, <2>4, TypeParts, OwnSuffices DEF Base, Step
  <1>5. ASSUME NEW r \in Requests, HeadHit(r) PROVE Base'
    <2>0. Active(r)
      BY <1>5 DEF Active, HeadHit
    <2>1. ControlTypeOK'
      BY <1>5, <1>c, Control DEF HeadHit, Labels
    <2>2. SharedTypeOK'
      BY <1>5, <1>c, <2>0, Carried, DataAssumption
         DEF SharedTypeOK, HeadHit, Labels, shared, Contexts
    <2>3. CallTypeOK'
      BY <1>5, <1>c, <2>0, Recorded DEF CallTypeOK, HeadHit, shared
    <2>4. CallInv(r)'
      <3>1. conf' = conf /\ call' = call /\ rctx' = rctx
        BY <1>5 DEF HeadHit
      <3>2. \/ pc'[r] \in {"get", "done"}
            \/ /\ pc'[r] = "validate" /\ phase'[r] = "download" /\ phase[r] = "exists"
        BY <1>5, <1>c, Control DEF HeadHit, Labels
      <3>3. phase[r] = "exists" => Tried(r)' <= 1
        BY <1>5, <2>0, Recorded DEF HeadHit
      <3> QED  BY <2>0, <3>1, <3>2, <3>3, ContextKept
    <2> QED  BY <1>5, <2>1, <2>2, <2>3, <2>4, TypeParts, OwnSuffices DEF Base, Step
  <1>6. ASSUME NEW r \in Requests, HeadMiss(r) PROVE Base'
    <2>0. Active(r)
      BY <1>6 DEF Active, HeadMiss
    <2>1. ControlTypeOK'
      BY <1>6, <1>c, Control DEF HeadMiss, Labels
    <2>2. SharedTypeOK'
      BY <1>6, <1>c, <2>0, Carried, DataAssumption
         DEF SharedTypeOK, HeadMiss, Labels, shared, Contexts
    <2>3. CallTypeOK'
      BY <1>6, <1>c DEF CallTypeOK, HeadMiss, shared
    <2>4. CallInv(r)'
      <3>1. conf' = conf /\ call' = call /\ rctx' = rctx
        BY <1>6 DEF HeadMiss
      <3>2. pc'[r] \in {"head", "ask"} /\ phase'[r] = phase[r]
        BY <1>6, <1>c, Control DEF HeadMiss, Labels
      <3>3. Tried(r)' <= (IF phase[r] = "exists" THEN 0 ELSE 1)
        BY <1>6, <2>0, Recorded DEF HeadMiss
      <3> QED  BY <2>0, <3>1, <3>2, <3>3, ContextKept
    <2> QED  BY <1>6, <2>1, <2>2, <2>3, <2>4, TypeParts, OwnSuffices DEF Base, Step
  <1>7. ASSUME NEW r \in Requests, Get(r) PROVE Base'
    <2>0. Active(r)
      BY <1>7 DEF Active, Get
    <2>r. Ok(store[Key(r)], "store", origin[Key(r)]) \in Results
      BY <2>0, <1>c, Carried, ResultTypes, DataAssumption DEF SharedTypeOK
    <2>1. ControlTypeOK'
      BY <1>7, <1>c, <2>r, Control DEF Get
    <2>2. SharedTypeOK'
      BY <1>7, <1>c, <2>0, Carried, DataAssumption
         DEF SharedTypeOK, Get, shared, Contexts
    <2>3. CallTypeOK'
      BY <1>7, <1>c DEF CallTypeOK, Get, shared
    <2>4. CallInv(r)'
      <3>1. conf' = conf /\ call' = call /\ rctx' = rctx
        BY <1>7 DEF Get
      <3>2. pc'[r] \in {"upload", "done"}
        BY <1>7, <1>c, <2>r, Control, ResultTypes DEF Get, Labels
      <3> QED  BY <2>0, <3>1, <3>2, ContextKept
    <2> QED  BY <1>7, <2>1, <2>2, <2>3, <2>4, TypeParts, OwnSuffices DEF Base, Step
  <1>8. ASSUME NEW r \in Requests, GetFails(r) PROVE Base'
    <2>0. Active(r)
      BY <1>8 DEF Active, GetFails
    <2>1. ControlTypeOK'
      BY <1>8, <1>c, Control, ResultTypes DEF GetFails
    <2>2. SharedTypeOK'
      BY <1>8, <1>c, <2>0, Carried, DataAssumption
         DEF SharedTypeOK, GetFails, shared, Contexts
    <2>3. CallTypeOK'
      BY <1>8, <1>c DEF CallTypeOK, GetFails, shared
    <2>4. CallInv(r)'
      <3>1. conf' = conf /\ call' = call /\ rctx' = rctx
        BY <1>8 DEF GetFails
      <3>2. pc'[r] \in {"upload", "done"}
        BY <1>8, <1>c, Control, ResultTypes DEF GetFails, Labels
      <3> QED  BY <2>0, <3>1, <3>2, ContextKept
    <2> QED  BY <1>8, <2>1, <2>2, <2>3, <2>4, TypeParts, OwnSuffices DEF Base, Step
  <1>9. ASSUME NEW r \in Requests, ProbeKnown(r) PROVE Base'
    <2>0. Active(r)
      BY <1>9 DEF Active, ProbeKnown
    <2>1. ControlTypeOK'
      BY <1>9, <1>c, Control DEF ProbeKnown
    <2>2. SharedTypeOK'
      BY <1>9, <1>c, <2>0, Carried, DataAssumption
         DEF SharedTypeOK, ProbeKnown, shared, Contexts
    <2>3. CallTypeOK'
      BY <1>9, <1>c, <2>0, Recorded DEF CallTypeOK, ProbeKnown, shared
    <2>4. CallInv(r)'
      <3>1. conf' = conf /\ call' = call /\ rctx' = rctx
        BY <1>9 DEF ProbeKnown
      <3>2. \/ pc'[r] \in {"get", "done"}
            \/ /\ pc'[r] = "validate" /\ phase'[r] = "download" /\ phase[r] = "exists"
        BY <1>9, <1>c, Control DEF ProbeKnown, Labels
      <3>3. phase[r] = "exists" => Tried(r)' <= 1
        BY <1>9, <2>0, Recorded DEF ProbeKnown
      <3> QED  BY <2>0, <3>1, <3>2, <3>3, ContextKept
    <2> QED  BY <1>9, <2>1, <2>2, <2>3, <2>4, TypeParts, OwnSuffices DEF Base, Step
  <1>10. ASSUME NEW r \in Requests, ProbeGranted(r) PROVE Base'
    <2>0. Active(r)
      BY <1>10 DEF Active, ProbeGranted
    <2>1. ControlTypeOK'
      BY <1>10, <1>c, Control DEF ProbeGranted
    <2>2. SharedTypeOK'
      BY <1>10, <1>c, <2>0, Carried, DataAssumption
         DEF SharedTypeOK, ProbeGranted, shared, Contexts
    <2>3. CallTypeOK'
      BY <1>10, <1>c, <2>0, Recorded DEF CallTypeOK, ProbeGranted, shared
    <2>4. CallInv(r)'
      <3>1. conf' = conf /\ call' = call /\ rctx' = rctx
        BY <1>10 DEF ProbeGranted
      <3>2. \/ pc'[r] \in {"get", "done"}
            \/ /\ pc'[r] = "validate" /\ phase'[r] = "download" /\ phase[r] = "exists"
        BY <1>10, <1>c, Control DEF ProbeGranted, Labels
      <3>3. phase[r] = "exists" => Tried(r)' <= 1
        BY <1>10, <2>0, Recorded DEF ProbeGranted
      <3> QED  BY <2>0, <3>1, <3>2, <3>3, ContextKept
    <2> QED  BY <1>10, <2>1, <2>2, <2>3, <2>4, TypeParts, OwnSuffices DEF Base, Step
  <1>11. ASSUME NEW r \in Requests, NotListed(r) PROVE Base'
    <2>0. Active(r)
      BY <1>11 DEF Active, NotListed
    <2>1. ControlTypeOK'
      BY <1>11, <1>c, Control, ResultTypes DEF NotListed
    <2>2. SharedTypeOK'
      BY <1>11, <1>c, <2>0, Carried, DataAssumption
         DEF SharedTypeOK, NotListed, shared, Contexts
    <2>3. CallTypeOK'
      BY <1>11, <1>c DEF CallTypeOK, NotListed, shared
    <2>4. CallInv(r)'
      <3>1. conf' = conf /\ call' = call /\ rctx' = rctx
        BY <1>11 DEF NotListed
      <3>2. pc'[r] \in {"upload", "done"}
        BY <1>11, <1>c, Control, ResultTypes DEF NotListed, Labels
      <3> QED  BY <2>0, <3>1, <3>2, ContextKept
    <2> QED  BY <1>11, <2>1, <2>2, <2>3, <2>4, TypeParts, OwnSuffices DEF Base, Step
  <1>12. ASSUME NEW r \in Requests, AskFails(r) PROVE Base'
    <2>0. Active(r)
      BY <1>12 DEF Active, AskFails
    <2>1. ControlTypeOK'
      BY <1>12, <1>c, Control, ResultTypes DEF AskFails
    <2>2. SharedTypeOK'
      BY <1>12, <1>c, <2>0, Carried, DataAssumption
         DEF SharedTypeOK, AskFails, shared, Contexts
    <2>3. CallTypeOK'
      BY <1>12, <1>c DEF CallTypeOK, AskFails, shared
    <2>4. CallInv(r)'
      <3>1. conf' = conf /\ call' = call /\ rctx' = rctx
        BY <1>12 DEF AskFails
      <3>2. pc'[r] \in {"upload", "done"}
        BY <1>12, <1>c, Control, ResultTypes DEF AskFails, Labels
      <3> QED  BY <2>0, <3>1, <3>2, ContextKept
    <2> QED  BY <1>12, <2>1, <2>2, <2>3, <2>4, TypeParts, OwnSuffices DEF Base, Step
  <1>13. ASSUME NEW r \in Requests, Fetch(r) PROVE Base'
    <2>0. Active(r)
      BY <1>13 DEF Active, Fetch
    <2>r. Ok(Parts, "remote", SentTo(r)) \in Results
      BY <2>0, <1>c, Carried, ResultTypes, DataAssumption DEF SharedTypeOK
    <2>1. ControlTypeOK'
      BY <1>13, <1>c, <2>r, Control DEF Fetch, Labels
    <2>2. SharedTypeOK'
      BY <1>13, <1>c, <2>0, Carried, DataAssumption
         DEF SharedTypeOK, Fetch, Labels, shared, Contexts
    <2>3. CallTypeOK'
      BY <1>13, <1>c, <2>0, Recorded DEF CallTypeOK, Fetch, shared
    <2>4. CallInv(r)'
      <3>1. conf' = conf /\ call' = call /\ rctx' = rctx
        BY <1>13 DEF Fetch
      <3>2. pc'[r] \in {"upload", "done"}
        BY <1>13, <1>c, <2>r, Control, ResultTypes DEF Fetch, Labels
      <3> QED  BY <2>0, <3>1, <3>2, ContextKept
    <2> QED  BY <1>13, <2>1, <2>2, <2>3, <2>4, TypeParts, OwnSuffices DEF Base, Step
  <1>14. ASSUME NEW r \in Requests, Upload(r) PROVE Base'
    <2>0. Active(r)
      BY <1>14 DEF Active, Upload
    <2>r. Ok(Parts, "remote", SentTo(r)) \in Results
      BY <2>0, <1>c, Carried, ResultTypes, DataAssumption DEF SharedTypeOK
    <2>1. ControlTypeOK'
      BY <1>14, <1>c, <2>r, Control DEF Upload, Deliver
    <2>s. Parts \in 0..Parts /\ Deliver(r, Parts)
      BY <1>14, DataAssumption DEF Upload
    <2>t. store' \in [Keys -> 0..Parts] /\ origin' \in [Keys -> AnyCredential]
      BY <1>14, <1>c, <2>0, <2>s, Carried DEF SharedTypeOK, Upload
    <2>u. UNCHANGED <<known, seen, live, heard>>
      BY <1>14 DEF Upload
    <2>2. SharedTypeOK'
      BY <1>c, <2>s, <2>t, <2>u, Delivering DEF SharedTypeOK
    <2>3. CallTypeOK'
      BY <1>14, <1>c DEF CallTypeOK, Upload, shared
    <2>4. CallInv(r)'
      <3>1. conf' = conf /\ call' = call /\ rctx' = rctx
        BY <1>14 DEF Upload
      <3>2. pc'[r] \in {"upload", "done"}
        BY <1>14, <1>c, <2>r, Control, ResultTypes DEF Upload, Deliver, Labels
      <3> QED  BY <2>0, <3>1, <3>2, ContextKept
    <2> QED  BY <1>14, <2>1, <2>2, <2>3, <2>4, TypeParts, OwnSuffices DEF Base, Step
  <1>15. ASSUME NEW r \in Requests, UploadFails(r) PROVE Base'
    <2>0. Active(r)
      BY <1>15 DEF Active, UploadFails
    <2>r. \A m \in 0..Parts : Ok(m, "remote", SentTo(r)) \in Results
      BY <2>0, <1>c, Carried, ResultTypes, DataAssumption DEF SharedTypeOK
    <2>1. ControlTypeOK'
      BY <1>15, <1>c, <2>r, Control DEF UploadFails, Deliver, Leftover
    <2>s. \E m \in 0..Parts : Deliver(r, m)
      BY <1>15 DEF UploadFails
    <2>t. store' \in [Keys -> 0..Parts] /\ origin' \in [Keys -> AnyCredential]
      BY <1>15, <1>c, <2>0, Carried DEF SharedTypeOK, UploadFails, Leftover
    <2>u. UNCHANGED <<known, seen, live, heard>>
      BY <1>15 DEF UploadFails
    <2>2. SharedTypeOK'
      BY <1>c, <2>s, <2>t, <2>u, Delivering DEF SharedTypeOK
    <2>3. CallTypeOK'
      BY <1>15, <1>c DEF CallTypeOK, UploadFails, Leftover, shared
    <2>4. CallInv(r)'
      <3>1. conf' = conf /\ call' = call /\ rctx' = rctx
        BY <1>15 DEF UploadFails
      <3>2. pc'[r] \in {"upload", "done"}
        BY <1>15, <1>c, <2>r, Control, ResultTypes DEF UploadFails, Deliver, Labels
      <3> QED  BY <2>0, <3>1, <3>2, ContextKept
    <2> QED  BY <1>15, <2>1, <2>2, <2>3, <2>4, TypeParts, OwnSuffices DEF Base, Step
  <1>16. ASSUME Environment \/ UNCHANGED vars PROVE Base'
    <2>1. UNCHANGED <<conf, call, phase, pc, rctx, result, created>>
      BY <1>16 DEF Environment, ForgetUser, ForgetProbe, Revoke, vars
    <2>2. SharedTypeOK'
      BY <1>16, <1>c
         DEF SharedTypeOK, Environment, ForgetUser, ForgetProbe, Revoke, vars
    <2>3. ControlTypeOK' /\ CallTypeOK'
      BY <1>c, <2>1 DEF ControlTypeOK, CallTypeOK
    <2>4. \A r \in Requests : CallInv(r)'
      BY <1>o, <2>1 DEF CallInv, Active, ContextOK, SentTo, Validated, Tried
    <2> QED  BY <2>2, <2>3, <2>4, TypeParts DEF Base
  <1> QED
    BY <1>1, <1>2, <1>3, <1>4, <1>5, <1>6, <1>7, <1>8, <1>9, <1>10, <1>11, <1>12,
       <1>13, <1>14, <1>15, <1>16
    DEF Next, Step

\* Types, and what a call under way carries, hold in every reachable state.
THEOREM BaseInvariant == Spec => []Base
  BY InitBase, StepBase, PTL DEF Spec

\* Every variable stays within its type: in particular a call records at most
\* one download in Exists and one in Download, whatever the other calls do.
THEOREM TypeCorrect == Spec => []TypeOK
  <1>1. Base => TypeOK
    BY DEF Base
  <1> QED  BY <1>1, BaseInvariant, PTL

-----------------------------------------------------------------------------
(* What a step can do to what the calls share and to the answers.          *)

\* Only a call in contact with the remote or GitLab sends credentials.
LEMMA HeardEffect ==
    ASSUME Base, [Next]_vars
    PROVE  /\ conf' = conf
           /\ \A c \in heard' : \/ c \in heard
                                \/ \E r \in Requests : Active(r) /\ c = SentTo(r)
  <1>1. ASSUME NEW r \in Requests, Step(r)
        PROVE  /\ conf' = conf
               /\ heard' = heard \/ (Active(r) /\ heard' = heard \cup {SentTo(r)})
    <2>1. CASE Query(r) \/ QueryFails(r) \/ ProbeGranted(r) \/ AskFails(r) \/ Fetch(r)
      BY <2>1 DEF Query, QueryFails, ProbeGranted, AskFails, Fetch, Active
    <2>2. CASE Start(r) \/ Validate(r) \/ HeadHit(r) \/ HeadMiss(r) \/ Get(r)
               \/ GetFails(r) \/ ProbeKnown(r) \/ NotListed(r) \/ Upload(r)
               \/ UploadFails(r)
      BY <2>2 DEF Start, Validate, HeadHit, HeadMiss, Get, GetFails, ProbeKnown,
                  NotListed, Upload, UploadFails, shared
    <2> QED  BY <1>1, <2>1, <2>2 DEF Step
  <1>2. ASSUME Environment \/ UNCHANGED vars
        PROVE  conf' = conf /\ heard' = heard
    BY <1>2 DEF Environment, ForgetUser, ForgetProbe, Revoke, vars
  <1> QED  BY <1>1, <1>2 DEF Next

\* The store changes under one key, and by a whole upload.
LEMMA StoreEffect ==
    ASSUME Base, [Next]_vars
    PROVE  \/ store' = store /\ origin' = origin
           \/ \E r \in Requests :
                 /\ Upload(r)
                 /\ store' = [store EXCEPT ![Key(r)] = Parts]
                 /\ origin' = [origin EXCEPT ![Key(r)] = SentTo(r)]
  <1>1. ASSUME NEW r \in Requests, Step(r), ~Upload(r)
        PROVE  store' = store /\ origin' = origin
    <2>1. CASE UploadFails(r)
      <3>1. origin' = origin /\ store' = [store EXCEPT ![Key(r)] = store[Key(r)]]
        BY <2>1 DEF UploadFails, Leftover
      <3> QED  BY <3>1 DEF Base, TypeOK
    <2>2. CASE Query(r) \/ QueryFails(r) \/ ProbeGranted(r) \/ AskFails(r) \/ Fetch(r)
      BY <2>2 DEF Query, QueryFails, ProbeGranted, AskFails, Fetch
    <2>3. CASE Start(r) \/ Validate(r) \/ HeadHit(r) \/ HeadMiss(r) \/ Get(r)
               \/ GetFails(r) \/ ProbeKnown(r) \/ NotListed(r)
      BY <2>3 DEF Start, Validate, HeadHit, HeadMiss, Get, GetFails, ProbeKnown,
                  NotListed, shared
    <2> QED  BY <1>1, <2>1, <2>2, <2>3 DEF Step
  <1>2. ASSUME NEW r \in Requests, Upload(r)
        PROVE  /\ store' = [store EXCEPT ![Key(r)] = Parts]
               /\ origin' = [origin EXCEPT ![Key(r)] = SentTo(r)]
    BY <1>2 DEF Upload
  <1>3. ASSUME Environment \/ UNCHANGED vars
        PROVE  store' = store /\ origin' = origin
    BY <1>3 DEF Environment, ForgetUser, ForgetProbe, Revoke, vars
  <1> QED  BY <1>1, <1>2, <1>3 DEF Next

\* A call that answers does so once: with an error, with a location, with what
\* is under its key, or with what its own credentials brought from the remote.
Answered(r) ==
    \/ pc'[r] # "done" /\ result'[r] = result[r]
    \/ pc'[r] = "done" /\ result'[r] = Error
    \/ /\ pc'[r] = "done" /\ call' = call
       /\ \/ call[r].op = "HEAD" /\ result'[r] = Exists
          \/ /\ pc[r] = "get"
             /\ result'[r] = Ok(store[Key(r)], "store", origin[Key(r)])
          \/ /\ pc[r] \in {"ask", "upload"}
             /\ \E n \in 0..Parts : result'[r] = Ok(n, "remote", SentTo(r))

LEMMA AnswerEffect ==
    ASSUME Base, NEW r \in Requests, Step(r)
    PROVE  pc[r] # "done" /\ Answered(r)
  <1>c. ControlTypeOK
    BY TypeParts DEF Base
  <1>p. Parts \in 0..Parts
    BY DataAssumption
  <1>1. ASSUME Start(r) PROVE pc[r] # "done" /\ Answered(r)
    BY <1>1, <1>c DEF Start, Answered, ControlTypeOK
  <1>2. ASSUME Validate(r) \/ Query(r) \/ QueryFails(r) \/ HeadMiss(r)
        PROVE  pc[r] # "done" /\ Answered(r)
    <2>1. PICK label \in Labels \ {"done"} : Goto(r, label)
      BY <1>2 DEF Validate, Query, QueryFails, HeadMiss, FirstTrip, Labels
    <2>2. pc[r] # "done"
      BY <1>2 DEF Validate, Query, QueryFails, HeadMiss
    <2>3. pc'[r] = label /\ result'[r] = result[r]
      BY <1>c, <2>1, Control
    <2> QED  BY <2>1, <2>2, <2>3 DEF Answered
  <1>3. ASSUME GetFails(r) \/ NotListed(r) \/ AskFails(r)
        PROVE  pc[r] # "done" /\ Answered(r)
    <2>1. Finish(r, Error) /\ pc[r] # "done"
      BY <1>3 DEF GetFails, NotListed, AskFails
    <2> QED  BY <1>c, <2>1, Control, ResultTypes DEF Answered
  <1>4. ASSUME ProbeKnown(r) \/ ProbeGranted(r) \/ (HeadHit(r) /\ phase[r] = "exists")
        PROVE  pc[r] # "done" /\ Answered(r)
    <2>1. Located(r) /\ call' = call /\ pc[r] # "done"
      BY <1>4 DEF ProbeKnown, ProbeGranted, HeadHit
    <2>2. call[r].op = "HEAD" => Finish(r, Exists)
      BY <2>1 DEF Located
    <2>3. call[r].op # "HEAD" => pc'[r] = "validate" /\ result'[r] = result[r]
      BY <1>c, <2>1 DEF Located, ControlTypeOK
    <2> QED  BY <1>c, <2>1, <2>2, <2>3, Control, ResultTypes DEF Answered
  <1>5. ASSUME HeadHit(r), phase[r] # "exists" PROVE pc[r] # "done" /\ Answered(r)
    <2>1. Goto(r, "get") /\ pc[r] # "done"
      BY <1>5 DEF HeadHit
    <2> QED  BY <1>c, <2>1, Control DEF Answered, Labels
  <1>6. ASSUME Get(r) PROVE pc[r] # "done" /\ Answered(r)
    BY <1>6, <1>c DEF Get, Finish, Answered, ControlTypeOK
  <1>7. ASSUME Fetch(r) PROVE pc[r] # "done" /\ Answered(r)
    BY <1>7, <1>c, <1>p DEF Fetch, Goto, Finish, Answered, ControlTypeOK
  <1>8. ASSUME Upload(r) \/ UploadFails(r) PROVE pc[r] # "done" /\ Answered(r)
    BY <1>8, <1>c, <1>p
       DEF Upload, UploadFails, Deliver, Finish, Answered, ControlTypeOK
  <1> QED
    BY <1>1, <1>2, <1>3, <1>4, <1>5, <1>6, <1>7, <1>8 DEF Step

\* The answers of all the calls, in terms of the one that moves.
LEMMA AnswersEffect ==
    ASSUME Base, [Next]_vars, NEW q \in Requests
    PROVE  /\ conf' = conf
           /\ \/ /\ pc'[q] = pc[q] /\ result'[q] = result[q] /\ call'[q] = call[q]
                 /\ phase'[q] = phase[q] /\ rctx'[q] = rctx[q]
              \/ Step(q) /\ pc[q] # "done" /\ Answered(q)
  <1>1. ASSUME Environment \/ UNCHANGED vars
        PROVE  UNCHANGED <<conf, pc, result, call, phase, rctx>>
    BY <1>1 DEF Environment, ForgetUser, ForgetProbe, Revoke, vars
  <1>2. conf' = conf
    BY HeardEffect
  <1> QED  BY <1>1, <1>2, OthersKeep, AnswerEffect DEF Next, Base
-----------------------------------------------------------------------------
(* Credentials.                                                            *)

\* What the remote and GitLab are sent is what validateContext leaves of a
\* client's credentials, whichever calls interleave.
THEOREM OnlyAllowedSent == Spec => []SentOnlyAllowed
  <1>1. Init => SentOnlyAllowed
    BY DEF Init, SentOnlyAllowed
  <1>2. SentOnlyAllowed /\ Base /\ [Next]_vars => SentOnlyAllowed'
    <2> SUFFICES ASSUME SentOnlyAllowed, Base, [Next]_vars, NEW c \in heard'
                 PROVE  CASE conf.mode = "NONE" -> c = Anonymous
                          [] conf.mode = "PROXY" -> \/ c = Anonymous
                                                    \/ c.header \in AuthHeaders
                          [] conf.mode = "DIRECT" -> c.token = DirectToken
      BY HeardEffect DEF SentOnlyAllowed
    <2>1. CASE c \in heard
      BY <2>1 DEF SentOnlyAllowed
    <2>2. ASSUME NEW r \in Requests, Active(r), c = SentTo(r)
          PROVE  CASE conf.mode = "NONE" -> c = Anonymous
                   [] conf.mode = "PROXY" -> c = Anonymous \/ c.header \in AuthHeaders
                   [] conf.mode = "DIRECT" -> c.token = DirectToken
      <3>1. c = Validated(call[r].cred)
        BY <2>2 DEF Base, CallInv, ContextOK
      <3>2. conf.mode \in {"NONE", "PROXY", "DIRECT"}
        BY DataAssumption DEF Base, TypeOK
      <3> QED  BY <3>1, <3>2 DEF Validated, Credential
    <2> QED  BY <2>1, <2>2, HeardEffect
  <1> QED  BY <1>1, <1>2, BaseInvariant, PTL DEF Spec

-----------------------------------------------------------------------------
(* The partitions of the cache.                                            *)

\* Partition p may hold content fetched with credential d: the user behind a
\* job token, or the token itself; what was fetched anonymously may be anywhere.
Owns(p, d) ==
    \/ d.token = NoToken
    \/ d.token = p
    \/ d.header = JobToken /\ d.token \in Tokens /\ p = UserOf[d.token]

Answers(r) == pc[r] # "done" => result[r] = Unanswered

PartitionsInv ==
    /\ \A k \in Keys : Owns(k.part, origin[k])
    /\ \A r \in Requests : Answers(r)
    /\ NoForeignContent

\* A call uses the partition of the credentials it carries.
LEMMA OwnPartition ==
    ASSUME Base, NEW r \in Requests, Active(r)
    PROVE  Owns(Key(r).part, SentTo(r))
  <1>1. Key(r).part = Partition(rctx[r])
    BY DEF Key
  <1>2. SentTo(r).header = rctx[r].header /\ SentTo(r).token = rctx[r].token
    BY DEF SentTo, Credential
  <1>3. SentTo(r) \in AnyCredential
    BY Carried
  <1>4. rctx[r].header = "none" => rctx[r].token = NoToken
    BY <1>2, <1>3
    DEF AnyCredential, ClientCredentials, Credential, Anonymous, Headers, JobToken
  <1>5. rctx[r].user # NoUser =>
           /\ rctx[r].header = JobToken /\ rctx[r].token \in Tokens
           /\ rctx[r].user = UserOf[rctx[r].token]
    BY DEF Base, CallInv, ContextOK
  <1> QED  BY <1>1, <1>2, <1>4, <1>5 DEF Partition, Owns

\* On a pass-through remote the owner of a call's partition, and the call
\* itself, fetch only what the call's client is entitled to.
LEMMA PartitionEntitles ==
    ASSUME Base, NEW r \in Requests, Active(r), conf.mode = "PROXY",
           NEW d \in AnyCredential, Owns(Key(r).part, d)
    PROVE  Entitled(call[r].cred, d)
  <1> DEFINE c == call[r].cred
             p == Key(r).part
  <1> SUFFICES ASSUME d.token # NoToken PROVE Entitled(c, d)
    BY DEF Entitled
  <1>1. p = Partition(rctx[r])
    BY DEF Key
  <1>2. d.token \in Tokens \cup {DirectToken}
    BY CredentialTypes
  <1>3. SentTo(r) = (IF c.header \in AuthHeaders THEN c ELSE Anonymous)
    BY DEF Base, CallInv, ContextOK, Validated
  <1>4. SentTo(r).header = rctx[r].header /\ SentTo(r).token = rctx[r].token
    BY DEF SentTo, Credential
  <1>5. rctx[r].user # NoUser =>
           /\ rctx[r].header = JobToken /\ rctx[r].token \in Tokens
           /\ rctx[r].user = UserOf[rctx[r].token]
    BY DEF Base, CallInv, ContextOK
  <1>6. c \in ClientCredentials
    BY DEF Base, TypeOK
  <1>7. p # Public
    <2>1. Public \notin Tokens \cup Users \cup {DirectToken}
      BY DataAssumption
    <2>2. d.token \in Tokens => UserOf[d.token] \in Users
      BY DataAssumption
    <2> QED  BY <1>2, <2>1, <2>2 DEF Owns
  <1>8. rctx[r].header # "none" /\ rctx[r].token # NoToken
    BY <1>1, <1>7 DEF Partition
  <1>9. SentTo(r) = c /\ c.header \in AuthHeaders
    BY <1>3, <1>4, <1>8 DEF Anonymous, Credential
  <1>10. c.token \in Tokens
    BY <1>4, <1>6, <1>8, <1>9 DEF ClientCredentials, Anonymous, Credential
  <1>11. CASE rctx[r].user = NoUser
    <2>1. p = c.token
      BY <1>1, <1>4, <1>8, <1>9, <1>11 DEF Partition
    <2>2. p \notin Users
      BY <1>10, <2>1, DataAssumption
    <2>3. d.token = c.token
      BY <2>1, <2>2, DataAssumption DEF Owns
    <2> QED  BY <1>9, <2>3 DEF Entitled
  <1>12. CASE rctx[r].user # NoUser
    <2>1. p = UserOf[c.token] /\ c.header = JobToken
      BY <1>1, <1>4, <1>5, <1>8, <1>9, <1>12 DEF Partition
    <2>2. p \in Users /\ p \notin Tokens /\ p # DirectToken
      BY <1>10, <2>1, DataAssumption
    <2>3. d.header = JobToken /\ p = UserOf[d.token]
      BY <1>2, <2>2 DEF Owns
    <2> QED  BY <1>9, <2>1, <2>3 DEF Entitled
  <1> QED  BY <1>11, <1>12

LEMMA InitPartitions == Init => PartitionsInv
  BY
     DEF Init, PartitionsInv, Owns, Answers, NoForeignContent, Anonymous, Credential,
         Unanswered, Exists, Ok

LEMMA StepPartitions == Base /\ PartitionsInv /\ [Next]_vars => PartitionsInv'
  <1> SUFFICES ASSUME Base, PartitionsInv, [Next]_vars PROVE PartitionsInv'
    OBVIOUS
  <1>t. origin \in [Keys -> AnyCredential] /\ ControlTypeOK
    BY TypeParts DEF Base, SharedTypeOK
  <1>1. \A k \in Keys : Owns(k.part, origin'[k])
    <2>1. CASE origin' = origin
      BY <2>1 DEF PartitionsInv
    <2>2. ASSUME NEW r \in Requests, Upload(r),
                 origin' = [origin EXCEPT ![Key(r)] = SentTo(r)]
          PROVE  \A k \in Keys : Owns(k.part, origin'[k])
      <3>1. Active(r)
        BY <2>2 DEF Upload, Active
      <3>2. Owns(Key(r).part, SentTo(r))
        BY <3>1, OwnPartition
      <3>3. \A k \in Keys : origin'[k] = (IF k = Key(r) THEN SentTo(r) ELSE origin[k])
        BY <1>t, <2>2
      <3> QED  BY <3>2, <3>3 DEF PartitionsInv
    <2> QED  BY <2>1, <2>2, StoreEffect
  <1>2. ASSUME NEW q \in Requests
        PROVE  /\ Answers(q)'
               /\ conf'.mode = "PROXY" /\ result'[q].status = "ok" =>
                     Entitled(call'[q].cred, result'[q].by)
    <2>1. conf' = conf /\ Answers(q)
      BY AnswersEffect DEF PartitionsInv
    <2>2. CASE /\ pc'[q] = pc[q] /\ result'[q] = result[q] /\ call'[q] = call[q]
      BY <2>1, <2>2 DEF PartitionsInv, Answers, NoForeignContent
    <2>3. CASE Step(q) /\ pc[q] # "done" /\ Answered(q)
      <3>1. CASE pc'[q] # "done" /\ result'[q] = result[q]
        BY <2>1, <2>3, <3>1 DEF Answers, Unanswered, Exists, Ok
      <3>2. CASE pc'[q] = "done" /\ result'[q] = Error
        BY <3>2 DEF Answers, Error, Exists, Ok
      <3>3. CASE pc'[q] = "done" /\ result'[q] = Exists
        BY <3>3 DEF Answers, Exists, Ok, Entitled, Anonymous, Credential
      <3>4. CASE /\ pc'[q] = "done" /\ call' = call /\ pc[q] = "get"
                 /\ result'[q] = Ok(store[Key(q)], "store", origin[Key(q)])
        <4>1. Active(q)
          BY <3>4 DEF Active
        <4>2. Key(q) \in Keys
          BY <4>1, Carried
        <4>3. Owns(Key(q).part, origin[Key(q)]) /\ origin[Key(q)] \in AnyCredential
          BY <1>t, <4>2 DEF PartitionsInv
        <4>4. conf.mode = "PROXY" => Entitled(call[q].cred, origin[Key(q)])
          BY <4>1, <4>3, PartitionEntitles
        <4> QED  BY <2>1, <3>4, <4>4 DEF Answers, Ok
      <3>5. CASE /\ pc'[q] = "done" /\ call' = call /\ pc[q] \in {"ask", "upload"}
                 /\ \E n \in 0..Parts : result'[q] = Ok(n, "remote", SentTo(q))
        <4>1. Active(q)
          BY <3>5 DEF Active
        <4>2. Owns(Key(q).part, SentTo(q)) /\ SentTo(q) \in AnyCredential
          BY <4>1, Carried, OwnPartition
        <4>3. conf.mode = "PROXY" => Entitled(call[q].cred, SentTo(q))
          BY <4>1, <4>2, PartitionEntitles
        <4> QED  BY <2>1, <3>5, <4>3 DEF Answers, Ok
      <3> QED  BY <2>3, <3>1, <3>2, <3>3, <3>4, <3>5 DEF Answered
    <2> QED  BY <2>2, <2>3, AnswersEffect
  <1> QED  BY <1>1, <1>2 DEF PartitionsInv, NoForeignContent

\* No client of a pass-through remote is served content that only another
\* client's credentials were entitled to: the partitions of the cache hold up
\* under any interleaving of calls, evictions, revocations and faults.
THEOREM ContentStaysWithOwners == Spec => []NoForeignContent
  <1>1. PartitionsInv => NoForeignContent
    BY DEF PartitionsInv
  <1> QED  BY <1>1, InitPartitions, StepPartitions, BaseInvariant, PTL DEF Spec

-----------------------------------------------------------------------------
(* Whole objects.                                                          *)

WholeInv ==
    /\ \A k \in Keys : store[k] \in {0, Parts}
    /\ \A r \in Requests : pc[r] = "get" => store[Key(r)] = Parts
    /\ CacheServesWhole

\* A call is about to read the store only if it has just found the object.
LEMMA GetEffect ==
    ASSUME Base, NEW r \in Requests, Step(r), pc'[r] = "get"
    PROVE  HeadHit(r) /\ Key(r)' = Key(r)
  <1>c. ControlTypeOK
    BY TypeParts DEF Base
  <1>1. HeadHit(r)
    <2>1. ~Start(r)
      BY <1>c DEF Start, ControlTypeOK
    <2>2. ~(Validate(r) \/ Query(r) \/ QueryFails(r) \/ HeadMiss(r))
      BY <1>c, Control
      DEF Validate, Query, QueryFails, HeadMiss, FirstTrip, Labels
    <2>3. ~(Get(r) \/ GetFails(r) \/ NotListed(r) \/ AskFails(r))
      BY <1>c DEF Get, GetFails, NotListed, AskFails, Finish, ControlTypeOK
    <2>4. ~(ProbeKnown(r) \/ ProbeGranted(r))
      BY <1>c, Control DEF ProbeKnown, ProbeGranted
    <2>5. ~(Fetch(r) \/ Upload(r) \/ UploadFails(r))
      BY <1>c DEF Fetch, Upload, UploadFails, Deliver, Goto, Finish, ControlTypeOK
    <2> QED  BY <2>1, <2>2, <2>3, <2>4, <2>5 DEF Step
  <1>2. /\ conf' = conf /\ call' = call /\ rctx' = rctx
        /\ phase'[r] = phase[r]
    <2>1. Goto(r, "get") \/ Located(r)
      BY <1>1 DEF HeadHit
    <2>2. phase'[r] = phase[r]
      BY <1>c, <2>1, Control DEF Labels
    <2> QED  BY <1>1, <2>2 DEF HeadHit
  <1> QED  BY <1>1, <1>2 DEF Key, Partition

LEMMA InitWhole == Init => WholeInv
  BY DEF Init, WholeInv, CacheServesWhole, Unanswered, Exists, Ok

LEMMA StepWhole == Base /\ WholeInv /\ [Next]_vars => WholeInv'
  <1> SUFFICES ASSUME Base, WholeInv, [Next]_vars PROVE WholeInv'
    OBVIOUS
  <1>t. store \in [Keys -> 0..Parts] /\ ControlTypeOK
    BY TypeParts DEF Base, SharedTypeOK
  <1>p. Parts \in Nat /\ Parts > 0
    BY DataAssumption
  \* Keys that hold an object go on holding it.
  <1>1. \A k \in Keys : store'[k] = store[k] \/ store'[k] = Parts
    BY <1>t, StoreEffect
  <1>2. \A k \in Keys : store'[k] \in {0, Parts}
    BY <1>1 DEF WholeInv
  <1>3. ASSUME NEW q \in Requests, pc'[q] = "get" PROVE store'[Key(q)'] = Parts
    <2>1. CASE /\ pc'[q] = pc[q] /\ call'[q] = call[q]
               /\ phase'[q] = phase[q] /\ rctx'[q] = rctx[q]
      <3>1. Active(q) /\ store[Key(q)] = Parts
        BY <1>3, <2>1 DEF WholeInv, Active
      <3>2. Key(q)' = Key(q)
        BY <2>1, AnswersEffect DEF Key, Partition
      <3>3. Key(q) \in Keys
        BY <3>1, Carried
      <3> QED  BY <1>1, <3>1, <3>2, <3>3
    <2>2. CASE Step(q)
      <3>1. HeadHit(q) /\ Key(q)' = Key(q)
        BY <1>3, <2>2, GetEffect
      <3>2. store[Key(q)] > 0
        BY <3>1 DEF HeadHit
      <3>3. Active(q) /\ Key(q) \in Keys
        BY <3>1, Carried DEF HeadHit, Active
      <3>4. store[Key(q)] = Parts
        BY <1>p, <3>2, <3>3 DEF WholeInv
      <3> QED  BY <1>1, <3>1, <3>3, <3>4
    <2> QED  BY <2>1, <2>2, AnswersEffect
  <1>4. ASSUME NEW q \in Requests, result'[q].from = "store"
        PROVE  result'[q].parts = Parts
    <2>1. CASE result'[q] = result[q]
      BY <1>4, <2>1 DEF WholeInv, CacheServesWhole
    <2>2. CASE Answered(q) /\ result'[q] # result[q]
      <3>1. pc[q] = "get" /\ result'[q] = Ok(store[Key(q)], "store", origin[Key(q)])
        <4>1. Error.from = "none" /\ Exists.from = "none"
          BY DEF Error, Exists, Ok
        <4>2. \A n \in 0..Parts : Ok(n, "remote", SentTo(q)).from = "remote"
          BY DEF Ok
        <4> QED  BY <1>4, <2>2, <4>1, <4>2 DEF Answered
      <3>2. result'[q].parts = store[Key(q)]
        BY <3>1 DEF Ok
      <3> QED  BY <3>1, <3>2 DEF WholeInv
    <2> QED  BY <2>1, <2>2, AnswersEffect
  <1> QED  BY <1>2, <1>3, <1>4 DEF WholeInv, CacheServesWhole

\* Whatever uploads fail and bodies break off, and whoever uploads the same
\* key at the same time, what is served from the cache is a whole object.
THEOREM CacheIsWhole == Spec => []CacheServesWhole
  <1>1. WholeInv => CacheServesWhole
    BY DEF WholeInv
  <1> QED  BY <1>1, InitWhole, StepWhole, BaseInvariant, PTL DEF Spec

-----------------------------------------------------------------------------
(* Recorded downloads.                                                     *)

RecordInv(r) ==
    /\ Tried(r) > 0 => CanCache(r)
    /\ pc[r] \in {"head", "get", "upload"} => CanCache(r)
    /\ pc[r] \in {"get", "upload"} => Tried(r) > 0
    /\ pc[r] # "done" => result[r] = Unanswered
    /\ result[r].status = "ok" /\ call[r].op # "HEAD" /\ CanCache(r) => Tried(r) > 0
    /\ call[r].op = "none" => pc[r] = "idle"
    /\ call[r].op = "HEAD" => phase[r] = "exists"
    /\ call[r].op = "FETCH" /\ pc[r] \in {"validate", "query", "head", "ask"} =>
          phase[r] = "download" /\ Tried(r) = 0
    /\ call[r].op # "GET" => Tried(r) <= 1

Records == \A r \in Requests : RecordInv(r)

LEMMA InitRecords == Init => \A r \in Requests : RecordInv(r)
  BY DEF Init, RecordInv, Unanswered, Exists, Ok, Tried

\* Before the object is looked for, a call has recorded nothing in this phase.
LEMMA Untried ==
    ASSUME Base, NEW r \in Requests
    PROVE  /\ Tried(r) \in Nat
           /\ created' = created => Tried(r)' = Tried(r)
           /\ pc[r] \notin {"get", "upload", "done"} /\ phase[r] = "exists"
                 => Tried(r) = 0
           /\ pc[r] = "idle" => Tried(r) = 0
  <1>1. created \in [Requests -> [made : 0..2, refused : 0..2]]
    BY DEF Base, TypeOK
  <1>2. CallInv(r)
    BY DEF Base
  <1>3. Tried(r) \in Nat /\ (created' = created => Tried(r)' = Tried(r))
    BY <1>1 DEF Tried
  <1> QED  BY <1>2, <1>3 DEF CallInv

\* A step of a call under way either keeps its record or adds to it.
LEMMA StepRecord ==
    ASSUME Base, NEW r \in Requests, Step(r), RecordInv(r)
    PROVE  RecordInv(r)'
  <1>c. ControlTypeOK /\ CallTypeOK
    BY TypeParts DEF Base
  <1>n. Tried(r) \in Nat
    BY Untried
  <1>u. Unanswered.status = "none" /\ Error.status = "error"
    BY DEF Unanswered, Error, Exists, Ok
  <1>p. /\ phase[r] \in {"exists", "download"}
        /\ call[r].op \in {"none", "HEAD", "GET", "FETCH"}
    BY <1>c DEF ControlTypeOK, CallTypeOK
  <1>1. ASSUME Start(r) PROVE RecordInv(r)'
    <2>1. pc[r] = "idle" /\ Tried(r)' = 0
      BY <1>1, Untried DEF Start
    <2>2. PICK op \in {"HEAD", "GET", "FETCH"} :
             /\ call'[r].op = op
             /\ phase'[r] = (IF op = "FETCH" THEN "download" ELSE "exists")
      BY <1>1, <1>c DEF Start, ControlTypeOK, CallTypeOK
    <2>3. \/ pc'[r] = "done" /\ result'[r] = Error
          \/ pc'[r] = "validate" /\ result'[r] = result[r]
      BY <1>1, <1>c DEF Start, ControlTypeOK
    <2>4. result[r] = Unanswered
      BY <2>1 DEF RecordInv
    <2> QED  BY <2>1, <2>2, <2>3, <2>4, <1>u DEF RecordInv
  <1>2. ASSUME Validate(r) \/ Query(r) \/ QueryFails(r) \/ HeadMiss(r)
        PROVE  RecordInv(r)'
    <2>1. /\ created' = created /\ call' = call
          /\ pc[r] \in {"validate", "query", "head"}
      BY <1>2 DEF Validate, Query, QueryFails, HeadMiss, shared
    <2>2. /\ pc'[r] \in {"query", "head", "ask"} /\ result'[r] = result[r]
          /\ pc'[r] = "head" => CanCache(r)
          /\ phase'[r] = phase[r]
      BY <1>2, <1>c, Control
         DEF Validate, Query, QueryFails, HeadMiss, FirstTrip, Labels
    <2>3. Tried(r)' = Tried(r)
      BY <2>1, Untried
    <2> QED  BY <2>1, <2>2, <2>3, <1>u DEF RecordInv, CanCache
  <1>3. ASSUME GetFails(r) \/ NotListed(r) \/ AskFails(r) PROVE RecordInv(r)'
    <2>1. Finish(r, Error) /\ created' = created /\ call' = call /\ pc[r] # "idle"
      BY <1>3 DEF GetFails, NotListed, AskFails, shared
    <2>2. pc'[r] = "done" /\ result'[r] = Error /\ phase'[r] = phase[r]
      BY <1>c, <2>1, Control, ResultTypes
    <2>3. Tried(r)' = Tried(r)
      BY <2>1, Untried
    <2> QED  BY <2>1, <2>2, <2>3, <1>u DEF RecordInv, CanCache
  <1>4. ASSUME HeadHit(r) \/ ProbeKnown(r) \/ ProbeGranted(r) PROVE RecordInv(r)'
    <2>1. call' = call /\ pc[r] \in {"head", "ask"}
      BY <1>4 DEF HeadHit, ProbeKnown, ProbeGranted
    <2>2. \/ /\ Located(r) /\ phase[r] = "exists"
             /\ created' = created \/ (CanCache(r) /\ Record(r))
          \/ Goto(r, "get") /\ Record(r) /\ CanCache(r) /\ phase[r] = "download"
      <3>1. CASE HeadHit(r)
        <4>1. CanCache(r)
          BY <3>1 DEF HeadHit, RecordInv
        <4>2. CASE phase[r] = "exists"
          BY <3>1, <4>2 DEF HeadHit
        <4>3. CASE phase[r] = "download"
          BY <3>1, <4>1, <4>3 DEF HeadHit
        <4> QED  BY <1>p, <4>2, <4>3
      <3>2. CASE ProbeKnown(r) \/ ProbeGranted(r)
        <4>1. Located(r) /\ phase[r] = "exists"
          BY <3>2 DEF ProbeKnown, ProbeGranted
        <4>2. CASE CanCache(r)
          BY <3>2, <4>1, <4>2 DEF ProbeKnown, ProbeGranted
        <4>3. CASE ~CanCache(r)
          BY <3>2, <4>1, <4>3 DEF ProbeKnown, ProbeGranted
        <4> QED  BY <4>2, <4>3
      <3> QED  BY <1>4, <3>1, <3>2
    <2>3. /\ Record(r) => Tried(r)' = Tried(r) + 1
          /\ created' = created => Tried(r)' = Tried(r)
      BY <2>1, Recorded DEF Active
    <2>4. CASE /\ Located(r) /\ phase[r] = "exists"
               /\ created' = created \/ (CanCache(r) /\ Record(r))
      <3>1. \/ /\ call[r].op = "HEAD" /\ pc'[r] = "done"
               /\ phase'[r] = phase[r]
            \/ /\ call[r].op # "HEAD" /\ pc'[r] = "validate"
               /\ phase'[r] = "download" /\ result'[r] = result[r]
        BY <2>4, <1>c DEF Located, Finish, ControlTypeOK
      <3>2. Tried(r) = 0 /\ Tried(r)' \in {0, 1}
        BY <2>1, <2>3, <2>4, Untried
      <3>3. Tried(r)' > 0 => CanCache(r)
        BY <2>3, <2>4, <3>2
      <3>4. result[r] = Unanswered /\ call[r].op # "FETCH"
        BY <2>1, <2>4 DEF RecordInv
      <3> QED  BY <2>1, <2>4, <3>1, <3>2, <3>3, <3>4, <1>u DEF RecordInv, CanCache
    <2>5. CASE Goto(r, "get") /\ Record(r) /\ CanCache(r) /\ phase[r] = "download"
      <3>1. pc'[r] = "get" /\ result'[r] = result[r] /\ phase'[r] = phase[r]
        BY <2>5, <1>c, Control DEF Labels
      <3>2. Tried(r)' = Tried(r) + 1 /\ Tried(r)' > 0
        BY <2>3, <2>5, <1>n
      <3>3. result[r] = Unanswered /\ call[r].op # "HEAD"
            /\ (call[r].op = "FETCH" => Tried(r) = 0)
        BY <2>1, <2>5 DEF RecordInv
      <3>4. call[r].op # "GET" => Tried(r)' <= 1
        <4>1. call[r].op # "none"
          BY <2>1 DEF RecordInv
        <4> QED  BY <1>p, <3>2, <3>3, <4>1
      <3> QED  BY <2>1, <2>5, <3>1, <3>2, <3>3, <3>4, <1>u DEF RecordInv, CanCache
    <2> QED  BY <2>2, <2>4, <2>5
  <1>5. ASSUME Fetch(r) PROVE RecordInv(r)'
    <2>1. call' = call /\ pc[r] = "ask" /\ phase[r] = "download"
      BY <1>5 DEF Fetch
    <2>2. /\ Record(r) => Tried(r)' = Tried(r) + 1
          /\ created' = created => Tried(r)' = Tried(r)
      BY <2>1, Recorded DEF Active
    <2>3. result[r] = Unanswered /\ call[r].op \notin {"none", "HEAD"}
          /\ (call[r].op = "FETCH" => Tried(r) = 0)
      BY <2>1 DEF RecordInv
    <2>4. CASE CanCache(r)
      <3>1. Goto(r, "upload") /\ Record(r)
        BY <1>5, <2>4 DEF Fetch
      <3>2. pc'[r] = "upload" /\ result'[r] = result[r] /\ phase'[r] = phase[r]
        BY <3>1, <1>c, Control DEF Labels
      <3>3. Tried(r)' = Tried(r) + 1 /\ Tried(r)' > 0
        BY <2>2, <3>1, <1>n
      <3> QED  BY <1>p, <2>1, <2>3, <2>4, <3>2, <3>3, <1>u DEF RecordInv, CanCache
    <2>5. CASE ~CanCache(r)
      <3>1. pc'[r] = "done" /\ created' = created /\ phase'[r] = phase[r]
        BY <1>5, <2>5, <1>c DEF Fetch, Finish, ControlTypeOK
      <3> QED  BY <1>p, <2>1, <2>2, <2>3, <2>5, <3>1 DEF RecordInv, CanCache
    <2> QED  BY <2>4, <2>5
  <1>6. ASSUME Get(r) \/ Upload(r) \/ UploadFails(r) PROVE RecordInv(r)'
    <2>1. /\ call' = call /\ created' = created /\ pc[r] \in {"get", "upload"}
          /\ pc'[r] = "done" /\ phase'[r] = phase[r]
      BY <1>6, <1>c DEF Get, Upload, UploadFails, Deliver, Finish, ControlTypeOK
    <2>2. Tried(r)' = Tried(r)
      BY <2>1, Untried
    <2> QED  BY <2>1, <2>2 DEF RecordInv, CanCache
  <1> QED  BY <1>1, <1>2, <1>3, <1>4, <1>5, <1>6 DEF Step

LEMMA StepRecords ==
    Base /\ (\A r \in Requests : RecordInv(r)) /\ [Next]_vars
        => (\A r \in Requests : RecordInv(r)')
  <1> SUFFICES ASSUME Base, \A r \in Requests : RecordInv(r), [Next]_vars,
                      NEW q \in Requests
               PROVE  RecordInv(q)'
    OBVIOUS
  <1>1. CASE Environment \/ UNCHANGED vars
    <2>1. UNCHANGED <<pc, phase, result, call, created>>
      BY <1>1 DEF Environment, ForgetUser, ForgetProbe, Revoke, vars
    <2> QED  BY <2>1 DEF RecordInv, CanCache, Tried
  <1>2. ASSUME NEW r \in Requests, Step(r), q # r PROVE RecordInv(q)'
    <2>1. /\ pc'[q] = pc[q] /\ call'[q] = call[q] /\ created'[q] = created[q]
          /\ result'[q] = result[q] /\ phase'[q] = phase[q]
      BY <1>2, OthersKeep DEF Base
    <2> QED  BY <2>1 DEF RecordInv, CanCache, Tried
  <1>3. CASE Step(q)
    BY <1>3, StepRecord
  <1> QED  BY <1>1, <1>2, <1>3 DEF Next

\* Every cacheable file a client was given has been recorded as a download, or
\* the database refused the row, whether the file came from the cache, the
\* remote or a failed upload; nothing else is recorded, and no probe and no
\* download twice.
THEOREM DownloadsRecorded == Spec => []DeliveriesRecorded
  <1>1. Init => Records
    BY InitRecords DEF Records
  <1>2. Base /\ Records /\ [Next]_vars => Records'
    BY StepRecords DEF Records
  <1>3. ASSUME Base, Records PROVE DeliveriesRecorded
    <2>1. created \in [Requests -> [made : 0..2, refused : 0..2]]
      BY <1>3 DEF Base, TypeOK
    <2>2. ASSUME NEW r \in Requests, Tried(r) > 0
          PROVE  created[r].made > 0 \/ created[r].refused > 0
      BY <2>1, <2>2 DEF Tried
    <2> QED  BY <1>3, <2>2 DEF Records, RecordInv, DeliveriesRecorded
  <1> QED  BY <1>1, <1>2, <1>3, BaseInvariant, PTL DEF Spec

-----------------------------------------------------------------------------
(* Reported traffic.                                                       *)

\* Sums are counted part by part: a step that adds parts 1..n of one object or
\* of one answer adds at most n.
LEMMA Numbered ==
    ASSUME NEW R, NEW n, NEW C, C = UNION {{c} \X (1..n[c]) : c \in R}
    PROVE  /\ \A c, i : <<c, i>> \in C <=> c \in R /\ i \in 1..n[c]
           /\ \A p \in C : p = <<p[1], p[2]>>
  <1> DEFINE Of(c) == {c} \X (1..n[c])
  <1>1. \A p : p \in C <=> \E c \in R : p \in Of(c)
    OBVIOUS
  <1>2. \A c, p : p \in Of(c) <=> \E i \in 1..n[c] : p = <<c, i>>
    OBVIOUS
  <1> HIDE DEF Of
  <1> QED  BY <1>1, <1>2

LEMMA PartsAdded ==
    ASSUME NEW S, IsFiniteSet(S), NEW c, NEW n \in Nat,
           NEW T \in SUBSET (S \cup ({c} \X (1..n)))
    PROVE  /\ IsFiniteSet(T) /\ Cardinality(T) \in Nat /\ Cardinality(S) \in Nat
           /\ Cardinality(T) <= Cardinality(S) + n
  <1> DEFINE added == {c} \X (1..n)
  <1>1. IsFiniteSet(1..n) /\ Cardinality(1..n) = n
    BY FS_Interval
  <1>2. IsFiniteSet(added) /\ Cardinality(added) = n
    <2>1. IsFiniteSet({c}) /\ Cardinality({c}) = 1
      BY FS_Singleton
    <2>2. \A A, B : IsFiniteSet(A) /\ IsFiniteSet(B) =>
             IsFiniteSet(A \X B) /\ Cardinality(A \X B) = Cardinality(A) * Cardinality(B)
      BY FS_Product
    <2>3. /\ IsFiniteSet(added)
          /\ Cardinality(added) = Cardinality({c}) * Cardinality(1..n)
      BY <1>1, <2>1, <2>2
    <2> HIDE DEF added
    <2> QED  BY <1>1, <2>1, <2>3
  <1> HIDE DEF added
  <1>3. /\ IsFiniteSet(S \cup added) /\ Cardinality(S) \in Nat
        /\ Cardinality(S \cup added) = Cardinality(S) + n - Cardinality(S \cap added)
    BY <1>2, FS_Union, FS_CardinalityType
  <1>4. Cardinality(S \cap added) \in Nat
    BY FS_Intersection, FS_CardinalityType
  <1>5. T \in SUBSET (S \cup added)
    BY DEF added
  <1>6. IsFiniteSet(T) /\ Cardinality(T) <= Cardinality(S \cup added)
    BY <1>3, <1>5, FS_Subset
  <1>7. Cardinality(T) \in Nat
    BY <1>6, FS_CardinalityType
  <1> QED  BY <1>3, <1>4, <1>6, <1>7

\* A call that gives its client nothing of a cacheable file.
LEMMA NothingGiven ==
    ASSUME Base, NEW r \in Requests, RecordInv(r), Step(r),
           ~(Get(r) \/ Upload(r) \/ UploadFails(r))
    PROVE  CanCache(r)' => result'[r].parts = 0
  <1>c. ControlTypeOK
    BY TypeParts DEF Base
  <1>u. Unanswered.parts = 0 /\ Error.parts = 0 /\ Exists.parts = 0
    BY DEF Unanswered, Error, Exists, Ok
  <1>r. result[r] = Unanswered
    BY AnswerEffect DEF RecordInv
  <1>1. CASE Start(r)
    BY <1>1, <1>c, <1>u, <1>r DEF Start, ControlTypeOK
  <1>2. CASE Validate(r) \/ Query(r) \/ QueryFails(r) \/ HeadMiss(r)
    <2>1. PICK label \in Labels : Goto(r, label)
      BY <1>2 DEF Validate, Query, QueryFails, HeadMiss, FirstTrip, Labels
    <2> QED  BY <1>c, <1>u, <1>r, <2>1, Control
  <1>3. CASE GetFails(r) \/ NotListed(r) \/ AskFails(r)
    <2>1. Finish(r, Error)
      BY <1>3 DEF GetFails, NotListed, AskFails
    <2> QED  BY <1>c, <1>u, <2>1, Control, ResultTypes
  <1>4. CASE HeadHit(r) \/ ProbeKnown(r) \/ ProbeGranted(r)
    <2>1. Located(r) \/ Goto(r, "get")
      BY <1>4 DEF HeadHit, ProbeKnown, ProbeGranted
    <2> QED  BY <1>c, <1>u, <1>r, <2>1, Control DEF Labels
  <1>5. CASE Fetch(r)
    <2>1. CanCache(r)' => Goto(r, "upload")
      BY <1>5 DEF Fetch, CanCache
    <2> QED  BY <1>c, <1>u, <1>r, <2>1, Control DEF Labels
  <1> QED  BY <1>1, <1>2, <1>3, <1>4, <1>5 DEF Step

\* The parts that are given are those of the call that moves.
LEMMA DeliveredEffect ==
    ASSUME Base, NEW r \in Requests, Step(r), NEW n \in Nat,
           CanCache(r)' => result'[r].parts \in 0..n
    PROVE  DeliveredParts' \subseteq DeliveredParts \cup ({r} \X (1..n))
  <1> DEFINE parts == [q \in Requests |-> result[q].parts]
             Cached == {q \in Requests : CanCache(q)}
  <1>1. /\ DeliveredParts = UNION {{q} \X (1..parts[q]) : q \in Cached}
        /\ DeliveredParts' = UNION {{q} \X (1..parts'[q]) : q \in Cached'}
    BY DEF DeliveredParts
  <1>2. /\ \A q \in Requests \ {r} : parts'[q] = parts[q] /\ (q \in Cached' <=> q \in Cached)
        /\ Cached' \subseteq Requests
        /\ r \in Cached' => parts'[r] \in 0..n
    BY OthersKeep DEF Base, CanCache
  <1> HIDE DEF parts, Cached
  <1>3. /\ \A q, i : <<q, i>> \in DeliveredParts <=> q \in Cached /\ i \in 1..parts[q]
        /\ \A q, i : <<q, i>> \in DeliveredParts' <=> q \in Cached' /\ i \in 1..parts'[q]
        /\ \A p \in DeliveredParts' : p = <<p[1], p[2]>>
    BY <1>1, Numbered
  <1> SUFFICES ASSUME NEW p \in DeliveredParts'
               PROVE  p \in DeliveredParts \/ p \in {r} \X (1..n)
    OBVIOUS
  <1>4. p = <<p[1], p[2]>> /\ p[1] \in Cached' /\ p[2] \in 1..parts'[p[1]]
    BY <1>3
  <1>5. CASE p[1] = r
    <2>1. p[2] \in 1..n
      BY <1>2, <1>4, <1>5
    <2> QED  BY <1>4, <1>5, <2>1
  <1>6. CASE p[1] # r
    BY <1>2, <1>3, <1>4, <1>6
  <1> QED  BY <1>5, <1>6

\* An upload adds the parts of its own object.
LEMMA StoredEffect ==
    ASSUME Base, [Next]_vars
    PROVE  \/ StoredParts' = StoredParts
           \/ \E r \in Requests : /\ Upload(r) /\ Key(r) \in Keys
                                  /\ StoredParts' \subseteq StoredParts
                                        \cup ({Key(r)} \X (1..Parts))
  <1>1. CASE store' = store
    BY <1>1 DEF StoredParts
  <1>2. ASSUME NEW r \in Requests, Upload(r), store' = [store EXCEPT ![Key(r)] = Parts]
        PROVE  /\ Upload(r) /\ Key(r) \in Keys
               /\ StoredParts' \subseteq StoredParts \cup ({Key(r)} \X (1..Parts))
    <2>1. Key(r) \in Keys /\ store \in [Keys -> 0..Parts]
      BY <1>2, Carried DEF Upload, Active, Base, TypeOK
    <2>2. PICK k \in Keys : k = Key(r) /\ store'[k] = Parts
                            /\ \A l \in Keys \ {k} : store'[l] = store[l]
      BY <1>2, <2>1
    <2>3. /\ \A l, i : <<l, i>> \in StoredParts <=> l \in Keys /\ i \in 1..store[l]
          /\ \A l, i : <<l, i>> \in StoredParts' <=> l \in Keys /\ i \in 1..store'[l]
          /\ \A p \in StoredParts' : p = <<p[1], p[2]>>
      <3>1. /\ StoredParts = UNION {{l} \X (1..store[l]) : l \in Keys}
            /\ StoredParts' = UNION {{l} \X (1..store'[l]) : l \in Keys}
        BY DEF StoredParts
      <3> HIDE DEF Keys
      <3> QED  BY <3>1, Numbered
    <2>4. \A p \in StoredParts' : p \in StoredParts \/ p \in {k} \X (1..Parts)
      BY <2>2, <2>3
    <2> QED  BY <1>2, <2>2, <2>4
  <1> QED  BY <1>1, <1>2, StoreEffect

TrafficInv ==
    IsFiniteSet(StoredParts) /\ IsFiniteSet(DeliveredParts) /\ TrafficReported

\* What a step adds to the store and to what clients were given is reported in
\* the same step.
LEMMA TrafficEffect ==
    ASSUME Base, Records, Base', [Next]_vars
    PROVE  \E k, r : \E m, n \in 0..Parts :
              /\ StoredParts' \subseteq StoredParts \cup ({k} \X (1..m))
              /\ DeliveredParts' \subseteq DeliveredParts \cup ({r} \X (1..n))
              /\ observed'.storage >= observed.storage + m
              /\ observed'.networkA + observed'.networkB
                    >= observed.networkA + observed.networkB + n
  <1> DEFINE Effect(k, r, m, n) ==
                /\ StoredParts' \subseteq StoredParts \cup ({k} \X (1..m))
                /\ DeliveredParts' \subseteq DeliveredParts \cup ({r} \X (1..n))
                /\ observed'.storage >= observed.storage + m
                /\ observed'.networkA + observed'.networkB
                      >= observed.networkA + observed.networkB + n
             Some == \E k, r : \E m, n \in 0..Parts : Effect(k, r, m, n)
  <1>c. ControlTypeOK
    BY TypeParts DEF Base
  <1>p. 0 \in 0..Parts /\ Parts \in 0..Parts /\ 0..Parts \subseteq Nat
    BY DataAssumption
  <1>o. /\ observed \in [networkA : Nat, networkB : Nat, storage : Nat]
        /\ observed' \in [networkA : Nat, networkB : Nat, storage : Nat]
        /\ observed.networkA \in Nat /\ observed.networkB \in Nat /\ observed.storage \in Nat
    BY DEF Base, TypeOK
  <1>1. ASSUME Environment \/ UNCHANGED vars PROVE Some
    <2>1. UNCHANGED <<call, result, store, observed>>
      BY <1>1 DEF Environment, ForgetUser, ForgetProbe, Revoke, vars
    <2>2. StoredParts' = StoredParts /\ DeliveredParts' = DeliveredParts
      BY <2>1 DEF StoredParts, DeliveredParts, CanCache
    <2>3. Effect(0, 0, 0, 0)
      BY <1>o, <2>1, <2>2
    <2> QED  BY <1>p, <2>3
  <1>2. ASSUME NEW r \in Requests, Step(r), ~(Get(r) \/ Upload(r) \/ UploadFails(r))
        PROVE  Some
    <2>1. DeliveredParts' \subseteq DeliveredParts \cup ({r} \X (1..0))
      BY <1>2, NothingGiven, DeliveredEffect DEF Records
    <2>2. store' = store /\ (observed' = observed \/ GetFails(r))
      <3>1. CASE Query(r) \/ QueryFails(r) \/ ProbeGranted(r) \/ AskFails(r) \/ Fetch(r)
        BY <3>1 DEF Query, QueryFails, ProbeGranted, AskFails, Fetch
      <3>2. CASE Start(r) \/ Validate(r) \/ HeadHit(r) \/ HeadMiss(r) \/ GetFails(r)
                 \/ ProbeKnown(r) \/ NotListed(r)
        BY <3>2 DEF Start, Validate, HeadHit, HeadMiss, GetFails, ProbeKnown, NotListed, shared
      <3> QED  BY <1>2, <3>1, <3>2 DEF Step
    <2>3. StoredParts' = StoredParts
      BY <2>2 DEF StoredParts
    <2>4. /\ observed'.storage >= observed.storage
          /\ observed'.networkA + observed'.networkB >= observed.networkA + observed.networkB
      <3>1. CASE observed' = observed
        BY <1>o, <3>1
      <3>2. CASE GetFails(r)
        <4>1. PICK n \in 0..store[Key(r)] :
                 observed' = [observed EXCEPT !.networkB = observed.networkB + n]
          BY <3>2 DEF GetFails
        <4>2. n \in Nat
          BY <4>1
        <4> QED  BY <1>o, <4>1, <4>2
      <3> QED  BY <2>2, <3>1, <3>2
    <2>5. Effect(0, r, 0, 0)
      BY <1>o, <2>1, <2>3, <2>4
    <2> QED  BY <1>p, <2>5
  <1>3. ASSUME NEW r \in Requests, Get(r) PROVE Some
    <2>1. PICK n \in 0..Parts : n = store[Key(r)]
      <3>1. Key(r) \in Keys
        BY <1>3, Carried DEF Get, Active
      <3> QED  BY <3>1 DEF Base, TypeOK
    <2>2. result'[r].parts = n
      BY <1>3, <1>c, <2>1 DEF Get, Finish, ControlTypeOK, Ok
    <2>3. DeliveredParts' \subseteq DeliveredParts \cup ({r} \X (1..n))
      BY <1>3, <2>1, <2>2, DeliveredEffect DEF Step
    <2>4. StoredParts' = StoredParts
      BY <1>3 DEF Get, StoredParts
    <2>5. observed' = [observed EXCEPT !.networkB = observed.networkB + n]
      BY <1>3, <2>1 DEF Get
    <2>6. Effect(0, r, 0, n)
      BY <1>o, <2>1, <2>3, <2>4, <2>5
    <2> HIDE DEF Effect
    <2> QED  BY <1>p, <2>1, <2>6
  <1>4. ASSUME NEW r \in Requests, NEW n \in 0..Parts, Deliver(r, n),
               (Upload(r) /\ n = Parts) \/ (UploadFails(r) /\ StoredParts' = StoredParts)
        PROVE  Some
    <2>1. result'[r].parts = n
      BY <1>4, <1>c DEF Deliver, Finish, ControlTypeOK, Ok
    <2>2. DeliveredParts' \subseteq DeliveredParts \cup ({r} \X (1..n))
      BY <1>4, <2>1, DeliveredEffect DEF Step
    <2>3. observed' = [observed EXCEPT !.networkA = observed.networkA + n,
                                      !.storage = observed.storage + n]
      BY <1>4 DEF Deliver
    <2>4. \E k : StoredParts' \subseteq StoredParts \cup ({k} \X (1..n))
      <3>1. CASE Upload(r) /\ n = Parts
        BY <3>1, <1>4, StoredEffect
      <3>2. CASE StoredParts' = StoredParts
        BY <3>2
      <3> QED  BY <1>4, <3>1, <3>2
    <2>5. PICK k : Effect(k, r, n, n)
      BY <1>o, <2>2, <2>3, <2>4
    <2> HIDE DEF Effect
    <2> QED  BY <2>5
  <1>5. ASSUME NEW r \in Requests, Upload(r) PROVE Some
    <2>1. PICK n \in 0..Parts : n = Parts
      BY <1>p
    <2>2. Deliver(r, n)
      BY <1>5, <2>1 DEF Upload
    <2> HIDE DEF Effect, Some
    <2> QED  BY <1>4, <1>5, <2>1, <2>2
  <1>6. ASSUME NEW r \in Requests, UploadFails(r) PROVE Some
    <2>1. PICK n \in 0..Parts : Deliver(r, n) /\ store' = [store EXCEPT ![Key(r)] = store[Key(r)]]
      BY <1>6 DEF UploadFails, Leftover
    <2>2. store' = store
      BY <2>1 DEF Base, TypeOK
    <2>3. StoredParts' = StoredParts
      BY <2>2 DEF StoredParts
    <2> QED  BY <1>4, <1>6, <2>1, <2>3
  <1> HIDE DEF Effect
  <1>7. Some
    BY <1>1, <1>2, <1>3, <1>5, <1>6 DEF Next
  <1> QED  BY <1>7 DEF Effect

LEMMA InitTraffic == Init => TrafficInv
  <1> SUFFICES ASSUME Init PROVE TrafficInv
    OBVIOUS
  <1>1. StoredParts = {}
    BY DEF Init, StoredParts
  <1>2. DeliveredParts = {}
    BY DEF Init, DeliveredParts, Unanswered, Exists, Ok
  <1> QED
    BY <1>1, <1>2, FS_EmptySet DEF Init, TrafficInv, TrafficReported, Stored, Delivered

LEMMA StepTraffic ==
    ASSUME Base, Records, TrafficInv, Base', [Next]_vars
    PROVE  TrafficInv'
  <1>1. PICK k, r, m, n :
              /\ m \in 0..Parts /\ n \in 0..Parts
              /\ StoredParts' \subseteq StoredParts \cup ({k} \X (1..m))
              /\ DeliveredParts' \subseteq DeliveredParts \cup ({r} \X (1..n))
              /\ observed'.storage >= observed.storage + m
              /\ observed'.networkA + observed'.networkB
                    >= observed.networkA + observed.networkB + n
    BY TrafficEffect
  <1>2. m \in Nat /\ n \in Nat
    BY <1>1, DataAssumption
  <1>3. /\ observed.networkA \in Nat /\ observed.networkB \in Nat /\ observed.storage \in Nat
        /\ observed'.networkA \in Nat /\ observed'.networkB \in Nat
        /\ observed'.storage \in Nat
    BY DEF Base, TypeOK
  <1>4. /\ IsFiniteSet(StoredParts') /\ Stored' \in Nat /\ Stored \in Nat
        /\ Stored' <= Stored + m
    BY <1>1, <1>2, PartsAdded DEF TrafficInv, Stored
  <1>5. /\ IsFiniteSet(DeliveredParts') /\ Delivered' \in Nat /\ Delivered \in Nat
        /\ Delivered' <= Delivered + n
    BY <1>1, <1>2, PartsAdded DEF TrafficInv, Delivered
  <1>6. Stored' <= observed'.storage
    BY <1>1, <1>2, <1>3, <1>4 DEF TrafficInv, TrafficReported
  <1>7. Delivered' <= observed'.networkA + observed'.networkB
    BY <1>1, <1>2, <1>3, <1>5 DEF TrafficInv, TrafficReported
  <1> QED  BY <1>4, <1>5, <1>6, <1>7 DEF TrafficInv, TrafficReported

\* Nothing reaches the store or a client of the cache unreported, though uploads
\* and bodies break off half-way and calls overwrite each other's objects.
THEOREM AllTrafficReported == Spec => []TrafficReported
  <1>1. Init => Records
    BY InitRecords DEF Records
  <1>2. Base /\ Records /\ [Next]_vars => Records'
    BY StepRecords DEF Records
  <1>3. Base /\ Records /\ TrafficInv /\ Base' /\ [Next]_vars => TrafficInv'
    BY StepTraffic
  <1>4. TrafficInv => TrafficReported
    BY DEF TrafficInv
  <1> QED  BY <1>1, <1>2, <1>3, <1>4, InitTraffic, BaseInvariant, PTL DEF Spec
=============================================================================
