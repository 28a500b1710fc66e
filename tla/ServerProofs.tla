----------------------------- MODULE ServerProofs -----------------------------
(***************************************************************************)
(* What the server's request threads keep, for every value of the          *)
(* constants.  The components share no variable, so each is an instance    *)
(* with variables of its own, and its theorem is about its own behaviours. *)
(*                                                                         *)
(* Sessions.  A token that is known belongs to the operator it was handed  *)
(* to, one that was logged out is never known again, and from its last     *)
(* look at the session on a request is neither late nor under a wrong name.*)
(* Consents.  A submission past its last close is in the log and listed.   *)
(* CRM webhook.  What is left to connect to is public, and connected to.   *)
(* Boards.  A dictionary beyond its bound is trimmed by a request that     *)
(* nothing it has read can fail any more.                                  *)
(* Work loops.  What is on record of a request is the count of its steps.  *)
(***************************************************************************)
EXTENDS Server, Sequences, FiniteSets, SequencesExt, SequenceTheorems, FiniteSetTheorems,
        NaturalsInduction, WellFoundedInduction, TLAPS

-----------------------------------------------------------------------------
\* Operator sessions.
Names == Users \cup {Sessions!Nobody}

Steps == {"idle", "logout", "popping", "desk", "naming", "writing",
          "flow", "binding", "waiting", "again", "rebinding"}

Requests == [pc : Steps, token : Tokens \cup {Sessions!NoToken}, actor : Names, late : BOOLEAN]

SessionsTyped ==
    /\ sessions \in [Tokens -> [user : Names, until : Nat]]
    /\ owner \in [Tokens -> Names]
    /\ gone \subseteq Tokens
    /\ req \in [Callers -> Requests]
    /\ now \in Nat

\* A known token is its owner's; a token that was logged out is not known.
KnownIsOwned ==
    /\ \A k \in Tokens :
         sessions[k] # Sessions!NoSession => owner[k] # Sessions!Nobody /\ sessions[k].user = owner[k]
    /\ \A k \in gone : owner[k] # Sessions!Nobody /\ sessions[k] = Sessions!NoSession

\* What a request knows of its token, by how far it has come.
RequestStands(r) ==
    r.pc # "idle" =>
        /\ r.token \in Tokens /\ owner[r.token] # Sessions!Nobody
        /\ r.pc = "desk" /\ r.late => r.token \in gone
        /\ r.pc = "again" /\ r.late => ~Sessions!Live(r.token)
        /\ r.pc \in {"naming", "writing", "rebinding"} => ~r.late
        /\ r.pc = "writing" => r.actor \in {owner[r.token], Sessions!Nobody}

RequestsStand == \A t \in Callers : RequestStands(req[t])

Written(w) == w.token \in Tokens /\ owner[w.token] # Sessions!Nobody /\ ~w.late

\* What was written was in time and under the right name.
WritesStand ==
    /\ \A w \in desk : Written(w) /\ w.actor \in {owner[w.token], Sessions!Nobody}
    /\ \A w \in decisions : Written(w) /\ w.actor = owner[w.token]

SessionsInv == SessionsTyped /\ KnownIsOwned /\ RequestsStand /\ WritesStand

\* Tokens are handed out once and logouts are final.
Onward ==
    /\ gone \subseteq gone'
    /\ \A k \in Tokens : owner[k] # Sessions!Nobody =>
          owner'[k] = owner[k] /\ (~Sessions!Live(k) => ~Sessions!Live(k)')

\* So a step keeps what stands for a request or a write it leaves alone.
LEMMA RequestsStayTrue ==
    ASSUME Onward, NEW r, RequestStands(r) PROVE RequestStands(r)'
BY DEF Onward, RequestStands

LEMMA WritesStayTrue ==
    ASSUME Onward, WritesStand, desk' = desk, decisions' = decisions PROVE WritesStand'
BY DEF Onward, WritesStand, Written

LEMMA SessionsInit == ASSUME Sessions!Init PROVE SessionsInv
<1> USE DEF Sessions!Init, Sessions!NoSession, Sessions!Nobody, Sessions!Idle, Names
<1>1. SessionsTyped
  BY DEF SessionsTyped, Requests, Steps, Sessions!NoToken
<1>2. KnownIsOwned
  BY DEF KnownIsOwned
<1>3. RequestsStand
  BY DEF RequestsStand, RequestStands
<1>4. WritesStand
  BY DEF WritesStand
<1> QED BY <1>1, <1>2, <1>3, <1>4 DEF SessionsInv

\* A token is handed out: it was never known, no request holds it.
LEMMA LoginKeeps ==
    ASSUME Sessions!SessionAssumption, SessionsInv, NEW u \in Users, Sessions!Login(u)
    PROVE  SessionsInv'
<1> USE DEF Sessions!Login, Sessions!Nobody, Sessions!NoSession, Names, SessionsInv
<1>1. PICK k \in Tokens :
         /\ owner[k] = "operator"
         /\ sessions' = [sessions EXCEPT ![k] = [user |-> u, until |-> now + TTL]]
         /\ owner' = [owner EXCEPT ![k] = u]
  OBVIOUS
<1>2. now + TTL \in Nat /\ u # "operator"
  BY DEF Sessions!SessionAssumption, SessionsTyped
<1>3. SessionsTyped'
  BY <1>1, <1>2 DEF SessionsTyped, Requests
<1>4. KnownIsOwned'
  BY <1>1, <1>2 DEF KnownIsOwned, SessionsTyped
<1>5. Onward
  BY <1>1, <1>2 DEF Onward, SessionsTyped, Sessions!Live
<1>6. RequestsStand'
  BY <1>5, RequestsStayTrue DEF RequestsStand
<1>7. WritesStand'
  BY <1>5, WritesStayTrue
<1> QED BY <1>3, <1>4, <1>6, <1>7

\* A request begins, perhaps with a token that was logged out.
LEMMA BeginKeeps ==
    ASSUME SessionsInv, NEW t \in Callers, NEW kind \in {"logout", "desk", "flow"},
           Sessions!Begin(t, kind)
    PROVE  SessionsInv'
<1> USE DEF Sessions!Begin, Sessions!Idle, Sessions!Nobody, SessionsInv
<1>1. PICK k \in Tokens, late \in BOOLEAN :
         /\ owner[k] # "operator" /\ (late => k \in gone)
         /\ req' = [req EXCEPT ![t] = [pc |-> kind, token |-> k, actor |-> "operator",
                                       late |-> late]]
  <2>1. PICK k \in Tokens :
           /\ owner[k] # "operator"
           /\ req' = [req EXCEPT ![t] = [pc |-> kind, token |-> k, actor |-> "operator",
                                         late |-> k \in gone]]
    OBVIOUS
  <2>2. (k \in gone) = TRUE \/ (k \in gone) = FALSE
    OBVIOUS
  <2> QED BY <2>1, <2>2
<1>2. SessionsTyped'
  BY <1>1 DEF SessionsTyped, Requests, Names, Steps
<1>3. KnownIsOwned'
  BY DEF KnownIsOwned
<1>4. Onward
  BY DEF Onward, Sessions!Live
<1>5. RequestsStand'
  <2> SUFFICES ASSUME NEW v \in Callers PROVE RequestStands(req[v])'
    BY DEF RequestsStand
  <2> QED BY <1>1, <1>4, RequestsStayTrue DEF RequestsStand, RequestStands, SessionsTyped
<1>6. WritesStand'
  BY <1>4, WritesStayTrue
<1> QED BY <1>2, <1>3, <1>5, <1>6

\* What is left to show of a step on behalf of t that touches no other request.
LEMMA OneRequestMoves ==
    ASSUME SessionsInv, Onward, NEW t \in Callers, NEW r,
           req' = [req EXCEPT ![t] = r], RequestStands(r)'
    PROVE  RequestsStand'
<1>1. req'[t] = r /\ \A v \in Callers \ {t} : req'[v] = req[v]
  BY DEF SessionsInv, SessionsTyped
<1> SUFFICES ASSUME NEW v \in Callers PROVE RequestStands(req[v])'
  BY DEF RequestsStand
<1>2. CASE v = t
  BY <1>1, <1>2 DEF RequestStands
<1>3. CASE v # t
  <2>1. PICK q : q = req[v]
    OBVIOUS
  <2>2. RequestStands(q)'
    BY <2>1, RequestsStayTrue DEF SessionsInv, RequestsStand
  <2> QED BY <1>1, <1>3, <2>1, <2>2 DEF RequestStands
<1> QED BY <1>2, <1>3

\* _auth: who passes has a live token, so it was not logged out; a token that is
\* forgotten was not live.
LEMMA AuthKeeps ==
    ASSUME SessionsInv, NEW t \in Callers, NEW next,
           \/ req[t].pc = "logout" /\ next = "popping"
           \/ req[t].pc = "desk" /\ next = "naming"
           \/ req[t].pc = "flow" /\ next = "binding"
           \/ req[t].pc = "again" /\ next = "rebinding",
           Sessions!Auth(t, next)
    PROVE  SessionsInv'
<1> USE DEF SessionsInv
<1>1. PICK q : q = req[t]
  OBVIOUS
<1>2. q \in Requests
  BY <1>1 DEF SessionsTyped
<1>3. RequestStands(q) /\ q.token \in Tokens
  BY <1>1 DEF RequestsStand, RequestStands
<1>4. /\ owner' = owner /\ gone' = gone /\ desk' = desk /\ decisions' = decisions /\ now' = now
  BY DEF Sessions!Auth
<1>7. now \in Nat /\ Sessions!NoSession.until = 0
  BY DEF Sessions!NoSession, SessionsTyped
<1>5. CASE Sessions!Live(q.token)
  <2>1. sessions' = sessions /\ req' = [req EXCEPT ![t] = [q EXCEPT !.pc = next]]
    BY <1>1, <1>2, <1>5 DEF Sessions!Auth, Sessions!To, SessionsTyped
  <2>2. SessionsTyped'
    BY <1>2, <1>4, <2>1 DEF SessionsTyped, Requests, Steps
  <2>3. KnownIsOwned'
    BY <1>4, <2>1 DEF KnownIsOwned
  <2>4. Onward
    BY <1>4, <2>1 DEF Onward, Sessions!Live
  <2>5. q.token \notin gone
    BY <1>5, <1>7 DEF KnownIsOwned, Sessions!Live
  <2>6. RequestStands([q EXCEPT !.pc = next])'
    BY <1>1, <1>2, <1>3, <1>4, <1>5, <2>5 DEF RequestStands
  <2> QED BY <1>4, <2>1, <2>2, <2>3, <2>4, <2>6, OneRequestMoves, WritesStayTrue
<1>6. CASE ~Sessions!Live(q.token)
  <2>1. /\ sessions' = [sessions EXCEPT ![q.token] = Sessions!NoSession]
        /\ req' = [req EXCEPT ![t] = Sessions!Idle]
    BY <1>1, <1>6 DEF Sessions!Auth, Sessions!End
  <2>2. SessionsTyped'
    BY <1>3, <1>4, <2>1 DEF SessionsTyped, Requests, Steps, Sessions!Idle, Names, Sessions!NoSession
  <2>3. KnownIsOwned'
    BY <1>3, <1>4, <2>1 DEF KnownIsOwned, SessionsTyped
  <2>4. Onward
    BY <1>3, <1>4, <1>7, <2>1 DEF Onward, Sessions!Live, SessionsTyped
  <2>5. RequestStands(Sessions!Idle)'
    BY DEF RequestStands, Sessions!Idle
  <2> QED BY <1>4, <2>1, <2>2, <2>3, <2>4, <2>5, OneRequestMoves, WritesStayTrue
<1> QED BY <1>5, <1>6

\* The steps after the last look at the session.
LEMMA LogoutPopKeeps ==
    ASSUME SessionsInv, NEW t \in Callers, Sessions!LogoutPop(t) PROVE SessionsInv'
<1> USE DEF SessionsInv
<1>1. PICK k : k = req[t].token
  OBVIOUS
<1>2. k \in Tokens /\ owner[k] # Sessions!Nobody
  BY <1>1 DEF RequestsStand, RequestStands, Sessions!LogoutPop
<1>3. /\ sessions' = [sessions EXCEPT ![k] = Sessions!NoSession]
      /\ gone' = gone \cup {k}
      /\ req' = [req EXCEPT ![t] = Sessions!Idle]
      /\ owner' = owner /\ desk' = desk /\ decisions' = decisions /\ now' = now
  BY <1>1 DEF Sessions!LogoutPop, Sessions!End
<1>4. SessionsTyped'
  BY <1>2, <1>3 DEF SessionsTyped, Requests, Steps, Sessions!Idle, Names, Sessions!NoSession, Sessions!Nobody
<1>5. KnownIsOwned'
  BY <1>2, <1>3 DEF KnownIsOwned, SessionsTyped
<1>6. now \in Nat /\ Sessions!NoSession.until = 0
  BY DEF SessionsTyped, Sessions!NoSession
<1>7. Onward
  BY <1>2, <1>3, <1>6 DEF Onward, Sessions!Live, SessionsTyped
<1>8. RequestStands(Sessions!Idle)'
  BY DEF RequestStands, Sessions!Idle
<1> QED BY <1>3, <1>4, <1>5, <1>7, <1>8, OneRequestMoves, WritesStayTrue

LEMMA DeskNameKeeps ==
    ASSUME SessionsInv, NEW t \in Callers, Sessions!DeskName(t) PROVE SessionsInv'
<1> USE DEF SessionsInv
<1>1. PICK q : q = req[t]
  OBVIOUS
<1>2. PICK a : a = sessions[q.token].user
  OBVIOUS
<1>3. /\ q \in Requests
      /\ q.pc = "naming" /\ RequestStands(q)
  BY <1>1 DEF SessionsTyped, RequestsStand, Sessions!DeskName
<1>4. a \in Names /\ a \in {owner[q.token], Sessions!Nobody}
  <2>1. q.token \in Tokens
    BY <1>3 DEF RequestStands
  <2>2. CASE sessions[q.token] = Sessions!NoSession
    BY <1>2, <2>2 DEF Sessions!NoSession, Names
  <2>3. CASE sessions[q.token] # Sessions!NoSession
    BY <1>2, <2>1, <2>3 DEF KnownIsOwned, SessionsTyped
  <2> QED BY <2>2, <2>3
<1> DEFINE r == [q EXCEPT !.pc = "writing", !.actor = a]
<1>5. /\ req' = [req EXCEPT ![t] = r]
      /\ UNCHANGED <<sessions, owner, gone, desk, decisions, now>>
  BY <1>1, <1>2 DEF Sessions!DeskName, Sessions!Actor, SessionsTyped
<1>6. SessionsTyped'
  BY <1>3, <1>4, <1>5 DEF SessionsTyped, Requests, Steps
<1>7. KnownIsOwned'
  BY <1>5 DEF KnownIsOwned
<1>8. Onward
  BY <1>5 DEF Onward, Sessions!Live
<1>9. RequestStands(r)'
  <2>1. owner' = owner /\ r.pc = "writing" /\ r.actor = a /\ r.token = q.token /\ r.late = q.late
    BY <1>3, <1>5
  <2>2. q.token \in Tokens /\ owner[q.token] # Sessions!Nobody /\ ~q.late
    BY <1>3 DEF RequestStands
  <2> HIDE DEF r
  <2> QED BY <1>4, <2>1, <2>2 DEF RequestStands
<1> HIDE DEF r
<1> QED BY <1>5, <1>6, <1>7, <1>8, <1>9, OneRequestMoves, WritesStayTrue

\* A write on the desk, or one in the workflow by a session that is still live.
LEMMA WriteKeeps ==
    ASSUME SessionsInv, NEW t \in Callers, Sessions!DeskWrite(t) \/ Sessions!FlowWrite(t)
    PROVE  SessionsInv'
<1> USE DEF SessionsInv
<1>1. PICK q : q = req[t]
  OBVIOUS
<1>2. RequestStands(q) /\ q.pc \in {"writing", "rebinding"}
  BY <1>1 DEF RequestsStand, Sessions!DeskWrite, Sessions!FlowWrite
<1>3. /\ req' = [req EXCEPT ![t] = Sessions!Idle]
      /\ UNCHANGED <<sessions, owner, gone, now>>
  BY DEF Sessions!DeskWrite, Sessions!FlowWrite, Sessions!End
<1>4. SessionsTyped'
  BY <1>3 DEF SessionsTyped, Requests, Steps, Sessions!Idle, Names
<1>5. KnownIsOwned'
  BY <1>3 DEF KnownIsOwned
<1>6. Onward
  BY <1>3 DEF Onward, Sessions!Live
<1>7. RequestsStand'
  <2>1. RequestStands(Sessions!Idle)'
    BY DEF RequestStands, Sessions!Idle
  <2> QED BY <1>3, <1>6, <2>1, OneRequestMoves
<1>8. WritesStand'
  <2>1. q.token \in Tokens /\ owner[q.token] # Sessions!Nobody /\ ~q.late
    BY <1>2 DEF RequestStands
  <2>2. CASE Sessions!DeskWrite(t)
    <3>1. /\ desk' = desk \cup {[token |-> q.token, actor |-> q.actor, late |-> q.late]}
          /\ decisions' = decisions /\ owner' = owner
      BY <1>1, <2>2 DEF Sessions!DeskWrite
    <3>2. q.actor \in {owner[q.token], Sessions!Nobody}
      BY <1>1, <1>2, <2>2 DEF RequestStands, Sessions!DeskWrite
    <3> QED BY <2>1, <3>1, <3>2 DEF WritesStand, Written
  <2>3. CASE Sessions!FlowWrite(t) /\ Sessions!Live(q.token)
    <3>1. /\ decisions' = decisions \cup
                {[token |-> q.token, actor |-> sessions[q.token].user, late |-> q.late]}
          /\ desk' = desk /\ owner' = owner
      BY <1>1, <2>3 DEF Sessions!FlowWrite, Sessions!Actor
    <3>2. sessions[q.token] # Sessions!NoSession
      <4>1. now \in Nat /\ Sessions!NoSession.until = 0
        BY DEF SessionsTyped, Sessions!NoSession
      <4> QED BY <2>3, <4>1 DEF Sessions!Live
    <3>3. sessions[q.token].user = owner[q.token]
      BY <2>1, <3>2 DEF KnownIsOwned
    <3> QED BY <2>1, <3>1, <3>3 DEF WritesStand, Written
  <2>4. CASE Sessions!FlowWrite(t) /\ ~Sessions!Live(q.token)
    <3>1. desk' = desk /\ decisions' = decisions
      BY <1>1, <2>4 DEF Sessions!FlowWrite
    <3> QED BY <1>6, <3>1, WritesStayTrue
  <2> QED BY <2>2, <2>3, <2>4
<1> QED BY <1>4, <1>5, <1>7, <1>8

\* The request waits for its lock, and is granted it.
LEMMA FlowWaits ==
    ASSUME SessionsInv, NEW t \in Callers, Sessions!FlowBind(t) \/ Sessions!FlowLocked(t)
    PROVE  SessionsInv'
<1> USE DEF SessionsInv
<1>1. PICK q : q = req[t]
  OBVIOUS
<1>2. /\ q \in Requests
      /\ RequestStands(q) /\ q.pc \in {"binding", "waiting"}
  BY <1>1 DEF SessionsTyped, RequestsStand, Sessions!FlowBind, Sessions!FlowLocked
<1>3. UNCHANGED <<sessions, owner, gone, desk, decisions, now>>
  BY DEF Sessions!FlowBind, Sessions!FlowLocked
<1>4. Onward
  BY <1>3 DEF Onward, Sessions!Live
<1>5. PICK r \in Requests :
         /\ req' = [req EXCEPT ![t] = r]
         /\ r.pc # "idle" =>
              /\ r.token = q.token /\ r.pc \in {"waiting", "again"}
              /\ r.pc = "again" /\ r.late => ~Sessions!Live(q.token)
  <2>1. CASE Sessions!FlowBind(t) /\ Sessions!Live(q.token)
    <3> DEFINE w == [q EXCEPT !.pc = "waiting"]
    <3>1. req' = [req EXCEPT ![t] = w]
      BY <1>1, <1>2, <2>1 DEF Sessions!FlowBind, Sessions!To, SessionsTyped
    <3>2. w \in Requests /\ w.pc = "waiting" /\ w.token = q.token
      BY <1>2 DEF Steps, Requests
    <3> HIDE DEF w
    <3> QED BY <3>1, <3>2
  <2>2. CASE Sessions!FlowBind(t) /\ ~Sessions!Live(q.token)
    <3>1. req' = [req EXCEPT ![t] = Sessions!Idle]
      BY <1>1, <2>2 DEF Sessions!FlowBind, Sessions!End
    <3>2. Sessions!Idle \in Requests /\ Sessions!Idle.pc = "idle"
      BY DEF Steps, Sessions!Idle, Names, Requests
    <3> QED BY <3>1, <3>2
  <2>3. CASE Sessions!FlowLocked(t)
    <3>1. now \in Nat /\ sessions[q.token].until \in Nat
      BY <1>2 DEF RequestStands, SessionsTyped
    <3>2. PICK late \in BOOLEAN : (late => ~Sessions!Live(q.token))
                                  /\ req' = [req EXCEPT ![t] = [q EXCEPT !.pc = "again", !.late = late]]
      <4>1. req' = [req EXCEPT ![t] = [q EXCEPT !.pc = "again", !.late = now >= sessions[q.token].until]]
        BY <1>1, <1>2, <2>3 DEF Sessions!FlowLocked, SessionsTyped
      <4>2. (now >= sessions[q.token].until) = TRUE \/ (now >= sessions[q.token].until) = FALSE
        OBVIOUS
      <4>3. (now >= sessions[q.token].until) => ~Sessions!Live(q.token)
        BY <3>1 DEF Sessions!Live
      <4> QED BY <4>1, <4>2, <4>3, Zenon
    <3> DEFINE w == [q EXCEPT !.pc = "again", !.late = late]
    <3>3. w \in Requests /\ w.pc = "again" /\ w.token = q.token /\ w.late = late
      BY <1>2, <3>2 DEF Steps, Requests
    <3>4. req' = [req EXCEPT ![t] = w]
      BY <3>2
    <3> HIDE DEF w
    <3> QED BY <3>2, <3>3, <3>4
  <2> QED BY <2>1, <2>2, <2>3
<1>6. SessionsTyped'
  BY <1>3, <1>5 DEF SessionsTyped, Requests
<1>7. KnownIsOwned'
  BY <1>3 DEF KnownIsOwned
<1>8. RequestStands(r)'
  <2>1. q.token \in Tokens /\ owner[q.token] # Sessions!Nobody
    BY <1>2 DEF RequestStands
  <2>2. ~Sessions!Live(q.token) => ~Sessions!Live(q.token)'
    BY <1>3 DEF Sessions!Live
  <2> QED BY <1>3, <1>5, <2>1, <2>2 DEF RequestStands
<1> QED BY <1>3, <1>4, <1>5, <1>6, <1>7, <1>8, OneRequestMoves, WritesStayTrue

\* The process stops, or time passes.
LEMMA RestartKeeps == ASSUME SessionsInv, Sessions!Restart PROVE SessionsInv'
<1> USE DEF Sessions!Restart, SessionsInv, Sessions!NoSession, Sessions!Idle, Sessions!Nobody
<1>1. SessionsTyped'
  BY DEF SessionsTyped, Requests, Steps, Names
<1>2. KnownIsOwned'
  BY DEF KnownIsOwned, SessionsTyped
<1>3. RequestsStand'
  BY DEF RequestsStand, RequestStands
<1>4. WritesStand'
  BY DEF WritesStand, Written
<1> QED BY <1>1, <1>2, <1>3, <1>4

LEMMA TickKeeps == ASSUME SessionsInv, Sessions!Tick PROVE SessionsInv'
<1> USE DEF Sessions!Tick, SessionsInv
<1>1. SessionsTyped'
  BY DEF SessionsTyped, Requests
<1>2. KnownIsOwned'
  BY DEF KnownIsOwned
<1>3. Onward
  BY DEF Onward, SessionsTyped, Sessions!Live
<1>4. RequestsStand'
  <2> SUFFICES ASSUME NEW v \in Callers PROVE RequestStands(req[v])'
    BY DEF RequestsStand
  <2>1. PICK q : q = req[v]
    OBVIOUS
  <2>2. RequestStands(q)'
    BY <1>3, <2>1, RequestsStayTrue DEF RequestsStand
  <2> QED BY <2>1, <2>2 DEF RequestStands
<1>5. WritesStand'
  BY <1>3, WritesStayTrue
<1> QED BY <1>1, <1>2, <1>4, <1>5

\* Whatever sessions come and go while a request runs: no write is put under
\* another operator's name; a request that begins after a logout was answered
\* writes nothing on the desk, and one that got the lock of its scope after its
\* session ended nothing in the workflow (_operator_actor, load_operator_context).
THEOREM SessionsStayHonoured ==
    ASSUME Sessions!SessionAssumption
    PROVE  Sessions!Spec => []SessionsAreHonoured
<1>1. Sessions!Init => SessionsInv
  BY SessionsInit
<1>2. SessionsInv /\ [Sessions!Next]_Sessions!vars => SessionsInv'
  <2> SUFFICES ASSUME SessionsInv, [Sessions!Next]_Sessions!vars PROVE SessionsInv'
    OBVIOUS
  <2>1. ASSUME NEW u \in Users, Sessions!Login(u) PROVE SessionsInv'
    BY <2>1, LoginKeeps
  <2>2. ASSUME NEW t \in Callers, NEW kind \in {"logout", "desk", "flow"}, Sessions!Begin(t, kind)
        PROVE  SessionsInv'
    BY <2>2, BeginKeeps
  <2>3. ASSUME NEW t \in Callers, Sessions!LogoutAuth(t) PROVE SessionsInv'
    BY <2>3, AuthKeeps DEF Sessions!LogoutAuth
  <2>4. ASSUME NEW t \in Callers, Sessions!DeskAuth(t) PROVE SessionsInv'
    BY <2>4, AuthKeeps DEF Sessions!DeskAuth
  <2>5. ASSUME NEW t \in Callers, Sessions!FlowAuth(t) PROVE SessionsInv'
    BY <2>5, AuthKeeps DEF Sessions!FlowAuth
  <2>6. ASSUME NEW t \in Callers, Sessions!FlowAuthAgain(t) PROVE SessionsInv'
    BY <2>6, AuthKeeps DEF Sessions!FlowAuthAgain
  <2>7. ASSUME NEW t \in Callers, Sessions!LogoutPop(t) PROVE SessionsInv'
    BY <2>7, LogoutPopKeeps
  <2>8. ASSUME NEW t \in Callers, Sessions!DeskName(t) PROVE SessionsInv'
    BY <2>8, DeskNameKeeps
  <2>9. ASSUME NEW t \in Callers, Sessions!DeskWrite(t) \/ Sessions!FlowWrite(t) PROVE SessionsInv'
    BY <2>9, WriteKeeps
  <2>10. ASSUME NEW t \in Callers, Sessions!FlowBind(t) \/ Sessions!FlowLocked(t) PROVE SessionsInv'
    BY <2>10, FlowWaits
  <2>11. CASE UNCHANGED Sessions!vars
    BY <2>11 DEF Sessions!vars, SessionsInv, SessionsTyped, KnownIsOwned, RequestsStand,
                 RequestStands, WritesStand, Written, Sessions!Live
  <2> QED BY <2>1, <2>2, <2>3, <2>4, <2>5, <2>6, <2>7, <2>8, <2>9, <2>10, <2>11,
             RestartKeeps, TickKeeps DEF Sessions!Next
<1>3. SessionsInv => Sessions!SessionsAreHonoured
  BY DEF SessionsInv, WritesStand, Written, Sessions!SessionsAreHonoured,
         Sessions!NobodyElsesName, Sessions!LogoutsAreHonoured
<1> QED BY <1>1, <1>2, <1>3, PTL DEF Sessions!Spec, SessionsAreHonoured

-----------------------------------------------------------------------------
\* Consent capture.
ConsentTyped ==
    /\ leads \in Seq(Consents)
    /\ file \in [items : Seq(Consents), len : Nat, ok : BOOLEAN]
    /\ submission \in [Consents -> [pc : {"idle", "open", "serialise", "close", "answer"},
                                    bytes : Seq(Consents)]]
    /\ answered \subseteq Consents /\ kept \subseteq answered

\* In the list: what is being written or was answered since the start.
SubmittedIsListed ==
    \A c \in Consents : submission[c].pc # "idle" \/ c \in kept => c \in ToSet(leads)

\* Written, whether or not it was answered yet.
Settled == answered \cup {c \in Consents : submission[c].pc = "answer"}

\* Nobody writes: the file parses and holds what is settled.  Somebody writes: it is
\* alone, the file is empty, and the bytes hold what is settled and its consent.
SettledIsOnFile ==
    /\ Settled \subseteq ToSet(leads)
    /\ Consent!Writing = {} => file.ok = TRUE /\ Settled \subseteq ToSet(file.items)
    /\ \A c \in Consents :
         submission[c].pc \in {"serialise", "close"} =>
           /\ file.len = 0
           /\ \A d \in Consents : submission[d].pc \in {"serialise", "close"} => d = c
           /\ submission[c].pc = "close" => Settled \cup {c} \subseteq ToSet(submission[c].bytes)

ConsentInv == ConsentTyped /\ SubmittedIsListed /\ (clean => SettledIsOnFile)

\* Appending adds one element.
LEMMA AppendedElements ==
    ASSUME NEW S, NEW s \in Seq(S), NEW x \in S
    PROVE  ToSet(Append(s, x)) = ToSet(s) \cup {x} /\ Append(s, x) \in Seq(S)
<1>1. /\ Append(s, x) \in Seq(S) /\ Len(Append(s, x)) = Len(s) + 1
      /\ Append(s, x)[Len(s) + 1] = x /\ \A i \in 1..Len(s) : Append(s, x)[i] = s[i]
  BY AppendProperties
<1>2. DOMAIN s = 1..Len(s) /\ DOMAIN Append(s, x) = 1..(Len(s) + 1) /\ Len(s) \in Nat
  BY <1>1, LenProperties
<1> QED BY <1>1, <1>2 DEF ToSet

LEMMA ConsentInit == ASSUME Consent!Init PROVE ConsentInv
<1> USE DEF Consent!Init, Consent!Missing, Consent!Idle
<1>1. <<>> \in Seq(Consents)
  OBVIOUS
<1>2. ConsentTyped
  BY <1>1 DEF ConsentTyped
<1>3. SubmittedIsListed
  BY DEF SubmittedIsListed
<1>4. SettledIsOnFile
  BY DEF SettledIsOnFile, Settled, Consent!Writing
<1> QED BY <1>2, <1>3, <1>4 DEF ConsentInv

LEMMA SubmitKeeps == ASSUME ConsentInv, NEW c \in Consents, Consent!Submit(c) PROVE ConsentInv'
<1> USE DEF ConsentInv, Consent!Submit, Consent!Goto, Consent!Listed
<1>1. ToSet(leads') = ToSet(leads) \cup {c} /\ leads' \in Seq(Consents)
  BY AppendedElements DEF ConsentTyped
<1>2. ConsentTyped'
  BY <1>1 DEF ConsentTyped
<1>3. SubmittedIsListed'
  BY <1>1 DEF SubmittedIsListed, ConsentTyped
<1>4. Settled' = Settled /\ Consent!Writing' = Consent!Writing
  BY DEF Settled, ConsentTyped, Consent!Writing
<1>5. ASSUME clean PROVE SettledIsOnFile'
  BY <1>1, <1>4, <1>5 DEF SettledIsOnFile, ConsentTyped
<1> QED BY <1>2, <1>3, <1>5

\* A write begins: alone, or the file is not undisturbed any more.
LEMMA OpenKeeps == ASSUME ConsentInv, NEW c \in Consents, Consent!Open(c) PROVE ConsentInv'
<1> USE DEF ConsentInv, Consent!Open, Consent!Goto
<1>1. ConsentTyped'
  <2>1. Consent!Truncated \in [items : Seq(Consents), len : Nat, ok : BOOLEAN]
    BY DEF Consent!Truncated
  <2>2. file' \in [items : Seq(Consents), len : Nat, ok : BOOLEAN]
    BY <2>1 DEF ConsentTyped
  <2>3. \/ submission' = [submission EXCEPT ![c].pc = "serialise"]
        \/ submission' = [submission EXCEPT ![c].pc = "answer"]
    OBVIOUS
  <2>4. UNCHANGED <<leads, answered, kept>>
    OBVIOUS
  <2> HIDE DEF Consent!Open
  <2>5. CASE submission' = [submission EXCEPT ![c].pc = "serialise"]
    BY <2>2, <2>4, <2>5 DEF ConsentTyped
  <2>6. CASE submission' = [submission EXCEPT ![c].pc = "answer"]
    BY <2>2, <2>4, <2>6 DEF ConsentTyped
  <2> QED BY <2>3, <2>5, <2>6
<1>2. SubmittedIsListed'
  BY DEF SubmittedIsListed, ConsentTyped
<1>3. ASSUME clean' PROVE SettledIsOnFile'
  <2>1. /\ clean /\ Consent!Writing = {} /\ file' = Consent!Truncated
        /\ submission' = [submission EXCEPT ![c].pc = "serialise"]
        /\ submission[c].pc = "open" /\ UNCHANGED <<leads, answered>>
    BY <1>3
  <2>2. Settled' = Settled
    BY <2>1 DEF Settled, ConsentTyped
  <2>3. /\ submission'[c].pc = "serialise"
        /\ \A d \in Consents : submission'[d].pc \in {"serialise", "close"} => d = c
    BY <2>1 DEF ConsentTyped, Consent!Writing
  <2> QED BY <2>1, <2>2, <2>3 DEF SettledIsOnFile, Consent!Writing, Consent!Truncated
<1> QED BY <1>1, <1>2, <1>3

LEMMA SerialiseKeeps ==
    ASSUME ConsentInv, NEW c \in Consents, Consent!Serialise(c) PROVE ConsentInv'
<1> USE DEF ConsentInv, Consent!Serialise, Consent!Serialised
<1>1. ConsentTyped'
  BY DEF ConsentTyped
<1>2. SubmittedIsListed'
  BY DEF SubmittedIsListed, ConsentTyped
<1>3. Settled' = Settled /\ Consent!Writing' = Consent!Writing
  BY DEF Settled, ConsentTyped, Consent!Writing
<1>4. ASSUME clean PROVE SettledIsOnFile'
  <2>1. c \in ToSet(leads) /\ submission'[c].bytes = leads
    BY DEF SubmittedIsListed, ConsentTyped
  <2> QED BY <1>3, <1>4, <2>1 DEF SettledIsOnFile, ConsentTyped
<1> QED BY <1>1, <1>2, <1>4

\* The bytes reach the file: it was empty, so they are all there is.
LEMMA CloseKeeps == ASSUME ConsentInv, NEW c \in Consents, Consent!Close(c) PROVE ConsentInv'
<1> USE DEF ConsentInv, Consent!Close, Consent!Goto
<1>1. ConsentTyped'
  <2>1. submission[c].bytes \in Seq(Consents) /\ Len(submission[c].bytes) \in Nat
    BY DEF ConsentTyped
  <2>2. Consent!Written(submission[c].bytes) \in [items : Seq(Consents), len : Nat, ok : BOOLEAN]
    BY <2>1 DEF ConsentTyped, Consent!Written
  <2>3. file' \in [items : Seq(Consents), len : Nat, ok : BOOLEAN]
    BY <2>2 DEF ConsentTyped
  <2> QED BY <2>3 DEF ConsentTyped
<1>2. SubmittedIsListed'
  BY DEF SubmittedIsListed, ConsentTyped
<1>3. ASSUME clean' PROVE SettledIsOnFile'
  <2>1. /\ clean /\ file' = Consent!Written(submission[c].bytes)
        /\ submission' = [submission EXCEPT ![c].pc = "answer"]
        /\ submission[c].pc = "close" /\ UNCHANGED <<leads, answered>>
    BY <1>3 DEF ConsentTyped
  <2>2. Settled' = Settled \cup {c}
    BY <2>1 DEF Settled, ConsentTyped
  <2>3. \A d \in Consents : submission'[d].pc \notin {"serialise", "close"}
    BY <2>1 DEF SettledIsOnFile, ConsentTyped
  <2>4. file' = [items |-> submission[c].bytes, len |-> Len(submission[c].bytes), ok |-> TRUE]
    BY <2>1 DEF SettledIsOnFile, Consent!Written, ConsentTyped
  <2>5. c \in ToSet(leads)
    BY <2>1 DEF SubmittedIsListed
  <2> QED BY <2>1, <2>2, <2>3, <2>4, <2>5 DEF SettledIsOnFile, Consent!Writing
<1> QED BY <1>1, <1>2, <1>3

LEMMA AnswerKeeps == ASSUME ConsentInv, NEW c \in Consents, Consent!Answer(c) PROVE ConsentInv'
<1> USE DEF ConsentInv, Consent!Answer, Consent!Goto
<1>1. ConsentTyped'
  BY DEF ConsentTyped
<1>2. SubmittedIsListed'
  BY DEF SubmittedIsListed, ConsentTyped
<1>3. Settled' = Settled /\ Consent!Writing' = Consent!Writing
  BY DEF Settled, ConsentTyped, Consent!Writing
<1>4. ASSUME clean PROVE SettledIsOnFile'
  BY <1>3, <1>4 DEF SettledIsOnFile, ConsentTyped
<1> QED BY <1>1, <1>2, <1>4

\* A restart reads the file back; one that cuts a write off disturbs it.
LEMMA ConsentRestarts == ASSUME ConsentInv, Consent!Restart PROVE ConsentInv'
<1> USE DEF ConsentInv, Consent!Restart, Consent!Idle
<1>1. ConsentTyped'
  BY DEF ConsentTyped, Consent!Loaded
<1>2. SubmittedIsListed'
  BY DEF SubmittedIsListed, ConsentTyped
<1>3. ASSUME clean' PROVE SettledIsOnFile'
  <2>1. clean /\ Consent!Writing = {}
    BY <1>3 DEF ConsentTyped
  <2>2. Settled' = answered /\ answered \subseteq Settled
    BY DEF Settled
  <2>3. leads' = file.items /\ file.ok = TRUE /\ Settled \subseteq ToSet(file.items)
    BY <2>1 DEF SettledIsOnFile, Consent!Loaded
  <2> QED BY <2>2, <2>3 DEF SettledIsOnFile, Consent!Writing
<1> QED BY <1>1, <1>2, <1>3

\* However submissions overlap, writes fail and the process stops: a consent
\* acknowledged since the start is listed; and as long as no two submissions wrote at
\* once, no write failed and none was cut off, every acknowledged consent is on file
\* whenever nobody writes (post_optin, _save_optin, _load_optin).
THEOREM ConsentsStayKept == Consent!Spec => []ConsentsAreKept
<1>1. Consent!Init => ConsentInv
  BY ConsentInit
<1>2. ConsentInv /\ [Consent!Next]_Consent!vars => ConsentInv'
  <2> SUFFICES ASSUME ConsentInv, [Consent!Next]_Consent!vars PROVE ConsentInv'
    OBVIOUS
  <2>1. CASE UNCHANGED Consent!vars
    BY <2>1 DEF Consent!vars, ConsentInv, ConsentTyped, SubmittedIsListed, SettledIsOnFile,
                Settled, Consent!Writing
  <2> QED BY <2>1, SubmitKeeps, OpenKeeps, SerialiseKeeps, CloseKeeps, AnswerKeeps,
             ConsentRestarts DEF Consent!Next
<1>3. ConsentInv => Consent!ConsentsAreKept
  <2> SUFFICES ASSUME ConsentInv PROVE Consent!ConsentsAreKept
    OBVIOUS
  <2>1. Consent!AcknowledgedAreListed
    BY DEF ConsentInv, ConsentTyped, SubmittedIsListed, Consent!AcknowledgedAreListed,
           Consent!ToSet, ToSet
  <2>2. Consent!UndisturbedConsentsAreDurable
    BY DEF ConsentInv, ConsentTyped, SettledIsOnFile, Settled, Consent!Loaded,
           Consent!UndisturbedConsentsAreDurable, Consent!ToSet, ToSet
  <2> QED BY <2>1, <2>2 DEF Consent!ConsentsAreKept
<1> QED BY <1>1, <1>2, <1>3, PTL DEF Consent!Spec, ConsentsAreKept

-----------------------------------------------------------------------------
\* The CRM webhook test.
\* Only validated addresses are ever tried, and until the request went out there is
\* nothing at the CRM and nothing was answered.
WebhookInv ==
    /\ todo \in Seq(Public) /\ conn \in Public \cup {Webhook!NoAddress}
    /\ received \in Seq(Addresses) /\ Len(received) <= 1
    /\ pc \in {"resolve", "connect", "send"} => received = <<>> /\ reply = "none"
    /\ pc = "send" => conn \in Public
    /\ pc = "judge" => Len(received) = 1 /\ reply = "none"
    /\ reply = "sent" => Len(received) = 1 /\ status = "accepted"

\* The resolved addresses, when all of them are public.
LEMMA SortedArePublic ==
    ASSUME Webhook!WebhookAssumption, dns \in SUBSET Addresses, dns \subseteq Public,
           NEW s \in Webhook!Sorted(dns)
    PROVE  s \in Seq(Public)
<1>1. IsFiniteSet(dns)
  <2>1. IsFiniteSet(Addresses)
    BY DEF Webhook!WebhookAssumption, Webhook!IsFiniteSet, IsFiniteSet
  <2> QED BY <2>1, FS_Subset
<1>2. Cardinality(dns) \in Nat
  BY <1>1, FS_CardinalityType
<1>3. s \in [1..Cardinality(dns) -> Public]
  BY DEF Webhook!Sorted, Webhook!Cardinality, Cardinality
<1> QED BY <1>2, <1>3, IsASeq

LEMMA WebhookStep ==
    ASSUME Webhook!WebhookAssumption, WebhookInv, dns \in SUBSET Addresses,
           [Webhook!Next]_Webhook!vars
    PROVE  WebhookInv'
<1> USE DEF WebhookInv, Webhook!Say
<1>1. CASE Webhook!Rebind
  BY <1>1 DEF Webhook!Rebind
<1>2. CASE Webhook!Resolve
  BY <1>2, SortedArePublic DEF Webhook!Resolve, Webhook!Acceptable
<1>3. CASE Webhook!GiveUp
  BY <1>3 DEF Webhook!GiveUp
<1>4. CASE Webhook!Connect
  BY <1>4, HeadTailProperties DEF Webhook!Connect, Webhook!Target
<1>5. CASE Webhook!Send
  <2>1. Public \subseteq Addresses
    BY DEF Webhook!WebhookAssumption
  <2>2. Append(received, conn) \in Seq(Addresses) /\ Len(Append(received, conn)) = 1
    BY <1>5, <2>1, AppendProperties DEF Webhook!Send
  <2>3. received = <<>> /\ reply = "none" /\ conn \in Public /\ todo' = todo /\ conn' = conn
    BY <1>5 DEF Webhook!Send
  <2>4. CASE received' = received /\ reply' = "unsent" /\ pc' = "done"
    BY <2>3, <2>4
  <2>5. CASE received' = Append(received, conn) /\ pc' = "judge" /\ reply' = reply
    BY <2>2, <2>3, <2>5
  <2>6. CASE received' = Append(received, conn) /\ pc' = "done" /\ reply' = "unsent"
    BY <2>2, <2>3, <2>6
  <2> QED BY <1>5, <2>4, <2>5, <2>6 DEF Webhook!Send, Webhook!Lost
<1>6. CASE Webhook!Judge
  BY <1>6 DEF Webhook!Judge, Webhook!Judged
<1>7. CASE UNCHANGED Webhook!vars
  BY <1>7 DEF Webhook!vars
<1> QED BY <1>1, <1>2, <1>3, <1>4, <1>5, <1>6, <1>7 DEF Webhook!Next

\* Whatever the name resolves to meanwhile and whichever call fails: the CRM gets the
\* leads at most once and only at a public address that was validated, and "sent" is
\* said only of a request it took and accepted (post_webhook_test).
THEOREM WebhookStaysHonest ==
    ASSUME Webhook!WebhookAssumption
    PROVE  Webhook!Spec => []WebhookIsHonest
<1> DEFINE Inv == WebhookInv /\ dns \in SUBSET Addresses
<1>1. Webhook!Init => Inv
  BY DEF Webhook!Init, WebhookInv
<1>2. Inv /\ [Webhook!Next]_Webhook!vars => Inv'
  <2> SUFFICES ASSUME Inv, [Webhook!Next]_Webhook!vars PROVE Inv'
    OBVIOUS
  <2>1. dns' \in SUBSET Addresses
    BY DEF Webhook!Next, Webhook!Rebind, Webhook!Resolve, Webhook!GiveUp, Webhook!Connect,
           Webhook!Send, Webhook!Judge, Webhook!vars
  <2> QED BY <2>1, WebhookStep
<1>3. Inv => Webhook!WebhookIsHonest
  BY DEF WebhookInv, Webhook!WebhookAssumption, Webhook!WebhookIsHonest,
         Webhook!DeliveredAtMostOnce, Webhook!SentMeansAccepted, Webhook!OnlyValidatedAddresses
<1> QED BY <1>1, <1>2, <1>3, PTL DEF Webhook!Spec, WebhookIsHonest

-----------------------------------------------------------------------------
\* The anonymous boards.
Tables == {"proofs", "boards"}
Phases == {"idle", "looking", "dropping", "admitting", "collecting", "storing",
           "trimming", "iterating", "evicting"}
Entries(c) ==
    IF c = "proofs" THEN Nat
    ELSE [key : Boards!Keys, until : Nat, ids : SUBSET Nat, echo : BOOLEAN]
Fetches ==
    [pc : Phases, key : Boards!Keys \cup {"none"}, todo : Seq(Nat), ids : SUBSET Nat,
     echo : BOOLEAN, table : Tables, size : Nat, victim : SUBSET (Nat \cup Boards!Keys),
     alone : BOOLEAN]

BoardsTyped ==
    /\ cache \in [proofs : Seq(Entries("proofs")), boards : Seq(Entries("boards"))]
    /\ echo \in [until : Nat, id : Nat]
    /\ fetching \in [Callers -> Fetches]
    /\ \A t \in Callers : fetching[t].pc # "idle" => fetching[t].key \in Boards!Keys
    /\ \A t \in Callers : fetching[t].pc = "iterating" => fetching[t].size > 0
    /\ minted \in Nat /\ minute \in Nat

\* The eviction loop of t over this dictionary goes on: what it read still holds.
GoesOn(t, c) ==
    /\ fetching[t].table = c
    /\ \/ fetching[t].pc = "trimming"
       \/ fetching[t].pc = "iterating" /\ fetching[t].size = Len(cache[c])
       \/ fetching[t].pc = "evicting" /\ Boards!Holds(t)

\* A dictionary beyond its bound is being trimmed by somebody who goes on.
Guarded(c) ==
    Len(cache[c]) > Boards!Limit[c] => \E t \in Callers : GoesOn(t, c)

BoardsInv ==
    /\ BoardsTyped /\ Boards!PublicTypeOK
    /\ Guarded("proofs") /\ (~torn => Guarded("boards"))

\* What the invariant says of the requests other than t is as it was.
OthersStay(t) ==
    \A u \in Callers \ {t} :
        /\ fetching'[u].pc = fetching[u].pc /\ fetching'[u].key = fetching[u].key /\ fetching'[u].table = fetching[u].table
        /\ fetching'[u].size = fetching[u].size /\ fetching'[u].victim = fetching[u].victim

DistinctIn(c, s) ==
    \A i, j \in DOMAIN s : Boards!KeyOf(c, s[i]) = Boards!KeyOf(c, s[j]) => i = j

SlotRight ==
    \A t \in Callers : slot = t <=> fetching[t].pc = "collecting" /\ fetching[t].key \in FrontierKeys

LEMMA PublicTypeParts ==
    Boards!PublicTypeOK
      <=> DistinctIn("proofs", cache.proofs) /\ DistinctIn("boards", cache.boards) /\ SlotRight
BY DEF Boards!PublicTypeOK, DistinctIn, SlotRight, Boards!At

LEMMA OnlyOneMoves ==
    ASSUME BoardsTyped, NEW t \in Callers, NEW r, fetching' = [fetching EXCEPT ![t] = r]
    PROVE  fetching'[t] = r /\ OthersStay(t)
BY DEF BoardsTyped, OthersStay

\* Whoever keeps a dictionary guarded goes on doing so while it is left alone.
LEMMA GuardStays ==
    ASSUME NEW t \in Callers, OthersStay(t), NEW c \in Tables,
           cache'[c] = cache[c], ~GoesOn(t, c), Guarded(c)
    PROVE  Guarded(c)'
<1> SUFFICES ASSUME Len(cache'[c]) > Boards!Limit[c] PROVE \E u \in Callers : GoesOn(u, c)'
  BY DEF Guarded, Boards!Limit
<1>1. PICK u \in Callers : GoesOn(u, c)
  BY DEF Guarded
<1>2. GoesOn(u, c)'
  BY <1>1 DEF GoesOn, OthersStay, Boards!Holds
<1> QED BY <1>2

LEMMA GuardTaken ==
    ASSUME NEW t \in Callers, NEW c, GoesOn(t, c)' PROVE Guarded(c)'
BY DEF Guarded

\* The slot of a step that neither begins nor ends a collection.
LEMMA SlotStays ==
    ASSUME SlotRight, NEW t \in Callers, OthersStay(t), slot' = slot,
           fetching[t].pc # "collecting", fetching'[t].pc # "collecting"
    PROVE  SlotRight'
BY DEF SlotRight, OthersStay

\* A step of a request that does not trim and leaves both dictionaries alone.
LEMMA QuietStep ==
    ASSUME BoardsInv, NEW t \in Callers, OthersStay(t), fetching' \in [Callers -> Fetches],
           fetching'[t].pc # "idle" => fetching'[t].key \in Boards!Keys,
           fetching[t].pc \notin {"trimming", "iterating", "evicting"}, fetching'[t].pc # "iterating",
           cache' = cache, torn' = torn, SlotRight',
           echo' \in [until : Nat, id : Nat], minted' \in Nat, minute' \in Nat
    PROVE  BoardsInv'
<1>1. BoardsTyped'
  BY DEF BoardsInv, BoardsTyped, OthersStay
<1>2. Boards!PublicTypeOK'
  <2>1. DistinctIn("proofs", cache'.proofs) /\ DistinctIn("boards", cache'.boards)
    BY PublicTypeParts DEF BoardsInv
  <2> QED BY <2>1 DEF Boards!PublicTypeOK, DistinctIn, SlotRight, Boards!At
<1>3. ASSUME NEW c \in Tables, Guarded(c) PROVE Guarded(c)'
  <2>1. ~GoesOn(t, c)
    BY DEF GoesOn
  <2> QED BY <1>3, <2>1, GuardStays
<1> QED BY <1>1, <1>2, <1>3 DEF BoardsInv, Tables

\* Removing one entry: the rest keep their order.
LEMMA OneRemoved ==
    ASSUME NEW S, NEW s \in Seq(S), NEW i \in 1..Len(s)
    PROVE  /\ RemoveAt(s, i) \in Seq(S) /\ Len(RemoveAt(s, i)) = Len(s) - 1
           /\ \A k \in 1..(Len(s) - 1) : RemoveAt(s, i)[k] = IF k < i THEN s[k] ELSE s[k + 1]
<1> DEFINE a == SubSeq(s, 1, i - 1)
           b == SubSeq(s, i + 1, Len(s))
<1>1. Len(s) \in Nat /\ \A k \in 1..Len(s) : s[k] \in S
  BY ElementOfSeq
<1>2. a \in Seq(S) /\ Len(a) = i - 1 /\ \A k \in 1..(i - 1) : a[k] = s[k]
  BY <1>1, SubSeqProperties
<1>3. b \in Seq(S) /\ Len(b) = Len(s) - i /\ \A k \in 1..(Len(s) - i) : b[k] = s[i + k]
  BY <1>1, SubSeqProperties
<1>4. RemoveAt(s, i) = a \o b
  BY DEF RemoveAt
<1> HIDE DEF a, b
<1>5. /\ a \o b \in Seq(S) /\ Len(a \o b) = Len(a) + Len(b)
      /\ \A k \in 1 .. Len(a) + Len(b) : (a \o b)[k] = IF k <= Len(a) THEN a[k] ELSE b[k - Len(a)]
  BY <1>2, <1>3, ConcatProperties
<1>6. ASSUME NEW k \in 1..(Len(s) - 1)
      PROVE  (a \o b)[k] = IF k < i THEN s[k] ELSE s[k + 1]
  <2>1. CASE k < i
    BY <1>1, <1>2, <1>3, <1>5, <2>1
  <2>2. CASE ~(k < i)
    <3>1. (a \o b)[k] = b[k - (i - 1)] /\ k - (i - 1) \in 1..(Len(s) - i)
      BY <1>1, <1>2, <1>3, <1>5, <2>2
    <3>2. b[k - (i - 1)] = s[i + (k - (i - 1))] /\ i + (k - (i - 1)) = k + 1
      BY <1>1, <1>3, <3>1
    <3> QED BY <2>2, <3>1, <3>2
  <2> QED BY <2>1, <2>2
<1> QED BY <1>1, <1>2, <1>3, <1>4, <1>5, <1>6

\* dict[key] = entry and dict.pop(key, None).
LEMMA PutKeepsKeys ==
    ASSUME NEW S, NEW c \in Tables, NEW e \in S, cache[c] \in Seq(S), DistinctIn(c, cache[c]),
           NEW s, s = Boards!Put(c, e)
    PROVE  s \in Seq(S) /\ DistinctIn(c, s)
<1>1. PICK d : d = cache[c]
  OBVIOUS
<1>2. d \in Seq(S) /\ DistinctIn(c, d) /\ DOMAIN d = 1..Len(d) /\ Len(d) \in Nat
      /\ \A i \in 1..Len(d) : d[i] \in S
  BY <1>1, ElementOfSeq, LenProperties
<1>3. CASE \E i \in DOMAIN d : Boards!KeyOf(c, d[i]) = Boards!KeyOf(c, e)
  <2>1. s = [i \in 1..Len(d) |->
               IF Boards!KeyOf(c, d[i]) = Boards!KeyOf(c, e) THEN e ELSE d[i]]
    BY <1>1, <1>2, <1>3 DEF Boards!Put
  <2>2. s \in [1..Len(d) -> S]
    BY <1>2, <2>1
  <2>3. \A i \in DOMAIN s : Boards!KeyOf(c, s[i]) = Boards!KeyOf(c, d[i])
    BY <2>1
  <2> QED BY <1>2, <2>2, <2>3, IsASeq DEF DistinctIn
<1>4. CASE \A i \in DOMAIN d : Boards!KeyOf(c, d[i]) # Boards!KeyOf(c, e)
  <2>1. s = Append(d, e)
    BY <1>1, <1>4 DEF Boards!Put
  <2>2. s \in Seq(S) /\ Len(s) = Len(d) + 1 /\ DOMAIN s = 1..(Len(d) + 1)
        /\ s[Len(d) + 1] = e /\ \A i \in 1..Len(d) : s[i] = d[i]
    BY <1>2, <2>1, AppendProperties
  <2> QED BY <1>2, <1>4, <2>2 DEF DistinctIn
<1> QED BY <1>3, <1>4

LEMMA WithoutKeepsKeys ==
    ASSUME NEW S, NEW c \in Tables, NEW ks, cache[c] \in Seq(S), DistinctIn(c, cache[c]),
           NEW s, s = Boards!Without(c, ks)
    PROVE  s \in Seq(S) /\ DistinctIn(c, s) /\ Len(s) <= Len(cache[c])
<1>1. PICK d : d = cache[c]
  OBVIOUS
<1>2. d \in Seq(S) /\ DistinctIn(c, d) /\ DOMAIN d = 1..Len(d) /\ Len(d) \in Nat
  BY <1>1, LenProperties
<1> DEFINE at == {i \in DOMAIN d : Boards!KeyOf(c, d[i]) \in ks}
<1>3. CASE at = {}
  BY <1>1, <1>2, <1>3 DEF Boards!Without
<1>4. CASE at # {}
  <2>1. PICK i \in 1..Len(d) : s = RemoveAt(d, i)
    <3>1. (CHOOSE i \in at : TRUE) \in at
      BY <1>4
    <3>2. s = RemoveAt(d, CHOOSE i \in at : TRUE)
      BY <1>1, <1>4 DEF Boards!Without, Boards!RemoveAt, RemoveAt
    <3> QED BY <1>2, <3>1, <3>2
  <2>2. s \in Seq(S) /\ Len(s) = Len(d) - 1
        /\ \A k \in 1..(Len(d) - 1) : s[k] = IF k < i THEN d[k] ELSE d[k + 1]
    BY <1>2, <2>1, OneRemoved
  <2>3. DOMAIN s = 1..(Len(d) - 1)
    BY <1>2, <2>2, LenProperties
  <2>4. DistinctIn(c, s)
    <3> SUFFICES ASSUME NEW k \in 1..(Len(d) - 1), NEW l \in 1..(Len(d) - 1),
                        Boards!KeyOf(c, s[k]) = Boards!KeyOf(c, s[l])
                 PROVE  k = l
      BY <2>3 DEF DistinctIn
    <3> DEFINE p == IF k < i THEN k ELSE k + 1
               q == IF l < i THEN l ELSE l + 1
    <3>1. s[k] = d[p] /\ s[l] = d[q] /\ p \in 1..Len(d) /\ q \in 1..Len(d)
      BY <1>2, <2>2
    <3>2. p = q
      BY <1>2, <3>1 DEF DistinctIn
    <3> QED BY <1>2, <3>2
  <2> QED BY <1>1, <1>2, <2>2, <2>4
<1> QED BY <1>3, <1>4


LEMMA IdleFetch == Boards!Idle \in Fetches /\ Boards!Idle.pc = "idle"
BY DEF Boards!Idle, Fetches, Phases, Tables

\* A request is answered: a quiet step when it held neither slot nor dictionary.
LEMMA AnswerMoves ==
    ASSUME BoardsTyped, NEW t \in Callers, NEW result, NEW ids, NEW b, Boards!Answer(t, result, ids, b)
    PROVE  /\ fetching' = [fetching EXCEPT ![t] = Boards!Idle] /\ fetching' \in [Callers -> Fetches]
           /\ fetching'[t].pc = "idle" /\ OthersStay(t)
<1>1. fetching' = [fetching EXCEPT ![t] = Boards!Idle]
  BY DEF Boards!Answer
<1> QED BY <1>1, IdleFetch, OnlyOneMoves DEF BoardsTyped

LEMMA GotoMoves ==
    ASSUME BoardsTyped, NEW t \in Callers, NEW pc1 \in Phases, Boards!Goto(t, pc1)
    PROVE  /\ fetching' \in [Callers -> Fetches] /\ OthersStay(t)
           /\ fetching'[t] = [fetching[t] EXCEPT !.pc = pc1]
           /\ fetching'[t].pc = pc1 /\ fetching'[t].key = fetching[t].key /\ fetching'[t].table = fetching[t].table
           /\ fetching'[t].size = fetching[t].size /\ fetching'[t].victim = fetching[t].victim
<1>1. fetching[t] \in Fetches
  BY DEF BoardsTyped
<1> DEFINE w == [fetching[t] EXCEPT !.pc = pc1]
<1>2. w \in Fetches /\ w.pc = pc1 /\ w.key = fetching[t].key /\ w.table = fetching[t].table
      /\ w.size = fetching[t].size /\ w.victim = fetching[t].victim
  BY <1>1 DEF Fetches
<1>3. fetching' = [fetching EXCEPT ![t] = w]
  BY DEF Boards!Goto, BoardsTyped
<1> HIDE DEF w
<1>4. fetching'[t] = w /\ OthersStay(t) /\ fetching' \in [Callers -> Fetches]
  BY <1>2, <1>3, OnlyOneMoves DEF BoardsTyped
<1> QED BY <1>2, <1>4 DEF w

LEMMA AskKeeps ==
    ASSUME BoardsInv, NEW t \in Callers, NEW k \in Boards!Keys, Boards!Ask(t, k)
    PROVE  BoardsInv'
<1> DEFINE quiet == \A u \in Callers \ {t} : Boards!At(u, "idle")
<1>1. PICK alone \in BOOLEAN :
         fetching' = [u \in Callers |-> IF u # t THEN [fetching[u] EXCEPT !.alone = FALSE]
                                  ELSE [Boards!Idle EXCEPT !.pc = "looking", !.key = k, !.alone = alone]]
  <2>1. fetching' = [u \in Callers |-> IF u # t THEN [fetching[u] EXCEPT !.alone = FALSE]
                               ELSE [Boards!Idle EXCEPT !.pc = "looking", !.key = k, !.alone = quiet]]
    BY Zenon DEF Boards!Ask
  <2> HIDE DEF quiet
  <2>2. quiet = TRUE \/ quiet = FALSE
    BY DEF quiet
  <2> QED BY <2>1, <2>2
<1> HIDE DEF quiet
<1>2. \A u \in Callers : fetching[u] \in Fetches
  BY DEF BoardsInv, BoardsTyped
<1>3. \A u \in Callers : [fetching[u] EXCEPT !.alone = FALSE] \in Fetches
  BY <1>2 DEF Fetches
<1> DEFINE w == [Boards!Idle EXCEPT !.pc = "looking", !.key = k, !.alone = alone]
<1>4. w \in Fetches /\ w.pc = "looking" /\ w.key = k
  BY IdleFetch DEF Fetches, Phases
<1>5. fetching'[t] = w
  BY <1>1
<1> HIDE DEF w
<1>6. fetching' \in [Callers -> Fetches]
  BY <1>1, <1>3, <1>4 DEF w
<1>7. OthersStay(t)
  BY <1>1, <1>2 DEF OthersStay, Fetches
<1>8. fetching[t].pc = "idle" /\ UNCHANGED <<cache, echo, slot, minted, minute, torn>>
  BY DEF Boards!Ask, Boards!At
<1>9. SlotRight'
  BY <1>4, <1>5, <1>7, <1>8, PublicTypeParts, SlotStays DEF BoardsInv
<1> QED BY <1>4, <1>5, <1>6, <1>7, <1>8, <1>9, QuietStep DEF BoardsInv, BoardsTyped

\* Steps that only move the request on, or end it, without slot and dictionary.
LEMMA LookingKeeps ==
    ASSUME BoardsInv, NEW t \in Callers,
           Boards!Hit(t) \/ Boards!Miss(t) \/ Boards!RefuseBusy(t)
    PROVE  BoardsInv'
<1>1. /\ fetching[t].pc \in {"looking", "admitting"}
      /\ UNCHANGED <<cache, echo, slot, minted, minute, torn>>
  BY DEF Boards!Hit, Boards!Miss, Boards!RefuseBusy, Boards!At
<1>2. /\ fetching' \in [Callers -> Fetches] /\ OthersStay(t)
      /\ fetching'[t].pc # "idle" => fetching'[t].key = fetching[t].key
      /\ fetching'[t].pc \in {"idle", "dropping", "admitting"}
  <2>1. CASE Boards!Hit(t)
    BY <2>1, AnswerMoves DEF Boards!Hit, BoardsInv
  <2>2. CASE Boards!RefuseBusy(t)
    BY <2>2, AnswerMoves DEF Boards!RefuseBusy, BoardsInv
  <2>3. CASE Boards!Miss(t)
    <3>1. PICK p \in {"dropping", "admitting"} : Boards!Goto(t, p)
      BY <2>3 DEF Boards!Miss
    <3> QED BY <3>1, GotoMoves DEF BoardsInv, Phases
  <2> QED BY <2>1, <2>2, <2>3
<1>3. SlotRight'
  BY <1>1, <1>2, PublicTypeParts, SlotStays DEF BoardsInv
<1> QED BY <1>1, <1>2, <1>3, QuietStep DEF BoardsInv, BoardsTyped

\* The slot is taken, or not needed.
LEMMA AdmitKeeps ==
    ASSUME Boards!BoardsAssumption, BoardsInv, NEW t \in Callers, Boards!Admit(t)
    PROVE  BoardsInv'
<1>1. /\ fetching[t].pc = "admitting" /\ UNCHANGED <<cache, echo, minted, minute, torn>>
      /\ fetching[t].key \in FrontierKeys => slot = Boards!Free
      /\ slot' = IF fetching[t].key \in FrontierKeys THEN t ELSE slot
      /\ Boards!Goto(t, "collecting")
  BY DEF Boards!Admit, Boards!At
<1>2. /\ fetching' \in [Callers -> Fetches] /\ OthersStay(t)
      /\ fetching'[t].pc = "collecting" /\ fetching'[t].key = fetching[t].key
  BY <1>1, GotoMoves DEF BoardsInv, Phases
<1>3. Boards!Free \notin Callers
  BY DEF Boards!BoardsAssumption
<1>4. SlotRight'
  BY <1>1, <1>2, <1>3, PublicTypeParts DEF BoardsInv, SlotRight, OthersStay
<1> QED BY <1>1, <1>2, <1>4, QuietStep DEF BoardsInv, BoardsTyped

\* The sources were asked: the slot is released, whoever held it.
LEMMA ReleasedIsRight ==
    ASSUME Boards!BoardsAssumption, SlotRight, NEW t \in Callers, OthersStay(t),
           fetching[t].pc = "collecting", fetching'[t].pc # "collecting", slot' = Boards!Released(t)
    PROVE  SlotRight'
<1>1. Boards!Free \notin Callers
  BY DEF Boards!BoardsAssumption
<1>2. ASSUME NEW u \in Callers
      PROVE  slot' = u <=> fetching'[u].pc = "collecting" /\ fetching'[u].key \in FrontierKeys
  BY <1>1 DEF SlotRight, OthersStay, Boards!Released
<1> QED BY <1>2 DEF SlotRight


\* What was collected waits to be stored.
LEMMA CollectedMoves ==
    ASSUME BoardsTyped, NEW t \in Callers, NEW ids \in Seq(Nat), NEW id, Boards!Collected(t, ids, id)
    PROVE  /\ fetching' \in [Callers -> Fetches] /\ OthersStay(t)
           /\ fetching'[t].pc = "storing" /\ fetching'[t].key = fetching[t].key
<1>1. fetching[t] \in Fetches
  BY DEF BoardsTyped
<1>2. PICK b \in BOOLEAN : b = (id # 0)
  <2>1. (id # 0) = TRUE \/ (id # 0) = FALSE
    OBVIOUS
  <2> QED BY <2>1
<1> DEFINE w == [fetching[t] EXCEPT !.pc = "storing", !.todo = ids, !.ids = ToSet(ids), !.echo = b]
<1>3. fetching' = [fetching EXCEPT ![t] = w]
  BY <1>2 DEF Boards!Collected, BoardsTyped, Boards!ToSet, ToSet
<1>4. ToSet(ids) \in SUBSET Nat
  BY ElementOfSeq, LenProperties DEF ToSet
<1>5. w \in Fetches /\ w.pc = "storing" /\ w.key = fetching[t].key
  BY <1>1, <1>4 DEF Fetches, Phases
<1> HIDE DEF w
<1>6. fetching'[t] = w /\ OthersStay(t) /\ fetching' \in [Callers -> Fetches]
  BY <1>3, <1>5, OnlyOneMoves DEF BoardsTyped
<1> QED BY <1>5, <1>6

LEMMA CollectKeeps ==
    ASSUME Boards!BoardsAssumption, BoardsInv, NEW t \in Callers,
           Boards!CollectFrontier(t) \/ Boards!CollectDeals(t) \/ Boards!CollectFails(t)
    PROVE  BoardsInv'
<1> USE DEF BoardsInv
<1>1. /\ fetching[t].pc = "collecting" /\ fetching[t].key \in Boards!Keys
      /\ UNCHANGED <<cache, minute, torn>>
  BY DEF Boards!CollectFrontier, Boards!CollectDeals, Boards!CollectFails, Boards!At, BoardsTyped
<1>2. SlotRight /\ minted \in Nat /\ minute \in Nat /\ echo \in [until : Nat, id : Nat]
  BY PublicTypeParts DEF BoardsTyped
<1>3. CASE Boards!CollectFails(t)
  <2>1. /\ fetching' \in [Callers -> Fetches] /\ OthersStay(t) /\ fetching'[t].pc = "idle"
        /\ UNCHANGED <<echo, minted>> /\ slot' = Boards!Released(t)
    BY <1>3, AnswerMoves DEF Boards!CollectFails
  <2>2. SlotRight'
    BY <1>1, <1>2, <2>1, ReleasedIsRight
  <2> QED BY <1>1, <1>2, <2>1, <2>2, QuietStep
<1>4. CASE Boards!CollectDeals(t)
  <2>1. PICK n \in 0 .. Boards!PerBoard :
           /\ minted' = minted + n
           /\ Boards!Collected(t, [i \in 1 .. n |-> minted + i], 0)
    BY <1>4 DEF Boards!CollectDeals
  <2>2. n \in Nat /\ minted' \in Nat /\ [i \in 1 .. n |-> minted + i] \in Seq(Nat)
    BY <1>2, <2>1, IsASeq DEF Boards!PerBoard
  <2>3. /\ fetching' \in [Callers -> Fetches] /\ OthersStay(t)
        /\ fetching'[t].pc = "storing" /\ fetching'[t].key = fetching[t].key
    BY <2>1, <2>2, CollectedMoves
  <2>4. slot' = slot /\ echo' = echo /\ fetching[t].key \notin FrontierKeys
    BY <1>4 DEF Boards!CollectDeals, Boards!BoardsAssumption
  <2>5. SlotRight'
    BY <1>2, <2>3, <2>4 DEF SlotRight, OthersStay
  <2> QED BY <1>1, <1>2, <2>2, <2>3, <2>4, <2>5, QuietStep
<1>5. CASE Boards!CollectFrontier(t)
  <2>1. PICK laneUp \in BOOLEAN, echoUp \in BOOLEAN :
           LET lane   == Boards!LaneFetched(laneUp)
               echoId == Boards!EchoFetched(echoUp, minted + Len(lane) + 1)
           IN  /\ minted' = minted + Len(lane) + (IF Boards!EchoLoads(echoUp) THEN 1 ELSE 0)
               /\ echo' = IF Boards!EchoLoads(echoUp) THEN Boards!EchoCached(echoId) ELSE echo
               /\ Boards!Collected(t, lane \o (IF echoId = 0 THEN <<>> ELSE <<echoId>>), echoId)
    BY <1>5 DEF Boards!CollectFrontier
  <2> DEFINE lane   == Boards!LaneFetched(laneUp)
             echoId == Boards!EchoFetched(echoUp, minted + Len(lane) + 1)
             ids    == lane \o (IF echoId = 0 THEN <<>> ELSE <<echoId>>)
  <2>2. lane \in Seq(Nat) /\ Len(lane) \in Nat
    BY <1>2 DEF Boards!LaneFetched
  <2>3. /\ minted' = minted + Len(lane) + (IF Boards!EchoLoads(echoUp) THEN 1 ELSE 0)
        /\ echo' = IF Boards!EchoLoads(echoUp) THEN Boards!EchoCached(echoId) ELSE echo
        /\ Boards!Collected(t, ids, echoId)
    BY <2>1
  <2> HIDE DEF lane
  <2>4. echoId \in Nat
    BY <1>2, <2>2 DEF Boards!EchoFetched
  <2> HIDE DEF echoId
  <2>5. ids \in Seq(Nat)
    BY <2>2, <2>4, ConcatProperties
  <2> HIDE DEF ids
  <2>6. minted' \in Nat
    BY <1>2, <2>2, <2>3
  <2>7. echo' \in [until : Nat, id : Nat]
    <3>1. EchoTTL \in Nat /\ FreshUntil \in Nat
      BY DEF Boards!BoardsAssumption
    <3>2. Boards!EchoCached(echoId) \in [until : Nat, id : Nat]
      BY <1>2, <2>4, <3>1 DEF Boards!EchoCached
    <3> QED BY <1>2, <2>3, <3>2
  <2>8. /\ fetching' \in [Callers -> Fetches] /\ OthersStay(t)
        /\ fetching'[t].pc = "storing" /\ fetching'[t].key = fetching[t].key
    BY <2>3, <2>5, CollectedMoves
  <2>9. SlotRight'
    <3>1. slot' = Boards!Released(t)
      BY <1>5 DEF Boards!CollectFrontier
    <3> QED BY <1>1, <1>2, <2>8, <3>1, ReleasedIsRight
  <2> QED BY <1>1, <1>2, <2>6, <2>7, <2>8, <2>9, QuietStep
<1> QED BY <1>3, <1>4, <1>5

\* What is left to show of a step that does not touch the slot.
LEMMA TrimStep ==
    ASSUME BoardsInv, NEW t \in Callers, OthersStay(t), fetching' \in [Callers -> Fetches],
           fetching'[t].pc # "idle" => fetching'[t].key = fetching[t].key,
           fetching[t].pc \notin {"idle", "collecting"}, fetching'[t].pc # "collecting",
           fetching'[t].pc = "iterating" => fetching'[t].size > 0,
           UNCHANGED <<echo, slot, minted, minute>>,
           cache' \in [proofs : Seq(Entries("proofs")), boards : Seq(Entries("boards"))],
           DistinctIn("proofs", cache'.proofs), DistinctIn("boards", cache'.boards),
           Guarded("proofs")', ~torn' => Guarded("boards")'
    PROVE  BoardsInv'
<1>1. BoardsTyped'
  BY DEF BoardsInv, BoardsTyped, OthersStay
<1>2. SlotRight'
  BY PublicTypeParts, SlotStays DEF BoardsInv
<1>3. Boards!PublicTypeOK'
  BY <1>2 DEF Boards!PublicTypeOK, DistinctIn, SlotRight, Boards!At
<1> QED BY <1>1, <1>3 DEF BoardsInv


\* An expired board is dropped: harmless while nobody trims the boards.
LEMMA DropKeeps ==
    ASSUME Boards!BoardsAssumption, BoardsInv, NEW t \in Callers, Boards!DropExpired(t)
    PROVE  BoardsInv'
<1>1. PICK s : s = Boards!Without("boards", {fetching[t].key})
  OBVIOUS
<1>2. /\ fetching[t].pc = "dropping" /\ cache' = [cache EXCEPT !.boards = s]
      /\ torn' = (torn \/ \E u \in Callers : Boards!Trims(u, "boards"))
      /\ Boards!Goto(t, "admitting") /\ UNCHANGED <<echo, slot, minted, minute>>
  BY <1>1 DEF Boards!DropExpired, Boards!At
<1>3. /\ fetching' \in [Callers -> Fetches] /\ OthersStay(t)
      /\ fetching'[t].pc = "admitting" /\ fetching'[t].key = fetching[t].key
  BY <1>2, GotoMoves DEF BoardsInv, Phases
<1>4. /\ cache.boards \in Seq(Entries("boards")) /\ cache.proofs \in Seq(Entries("proofs"))
      /\ DistinctIn("boards", cache.boards) /\ DistinctIn("proofs", cache.proofs)
  BY PublicTypeParts DEF BoardsInv, BoardsTyped
<1>5. s \in Seq(Entries("boards")) /\ DistinctIn("boards", s) /\ Len(s) <= Len(cache.boards)
  BY <1>1, <1>4, WithoutKeepsKeys DEF Tables
<1>6. /\ cache' \in [proofs : Seq(Entries("proofs")), boards : Seq(Entries("boards"))]
      /\ cache'.proofs = cache.proofs /\ cache'.boards = s
  BY <1>2, <1>5 DEF BoardsInv, BoardsTyped
<1>7. Guarded("proofs")'
  <2>1. ~GoesOn(t, "proofs")
    BY <1>2 DEF GoesOn
  <2> QED BY <1>3, <1>6, <2>1, GuardStays DEF BoardsInv, Tables
<1>8. ASSUME ~torn' PROVE Guarded("boards")'
  <2>1. ~torn /\ \A u \in Callers : ~Boards!Trims(u, "boards")
    BY <1>2, <1>8
  <2>2. \A u \in Callers : ~GoesOn(u, "boards")
    BY <2>1 DEF GoesOn, Boards!Trims
  <2>3. Len(cache.boards) <= BoardLimit /\ BoardLimit \in Nat
        /\ Len(cache.boards) \in Nat /\ Len(s) \in Nat
    <3>1. BoardLimit \in Nat /\ Len(cache.boards) \in Nat /\ Len(s) \in Nat
      BY <1>4, <1>5, LenProperties DEF Boards!BoardsAssumption
    <3> QED BY <2>1, <2>2, <3>1 DEF BoardsInv, Guarded, Boards!Limit
  <2>4. ~(Len(cache'.boards) > BoardLimit)
    BY <1>5, <1>6, <2>3
  <2> QED BY <2>4 DEF Guarded, Boards!Limit
<1> QED BY <1>2, <1>3, <1>4, <1>5, <1>6, <1>7, <1>8, TrimStep

\* An entry is put; its dictionary is trimmed next.
LEMMA InsertKeeps ==
    ASSUME Boards!BoardsAssumption, BoardsInv, NEW t \in Callers,
           Boards!InsertReceipt(t) \/ Boards!InsertBoard(t)
    PROVE  BoardsInv'
<1>1. fetching[t] \in Fetches /\ fetching[t].pc = "storing" /\ fetching[t].key \in Boards!Keys
  BY DEF BoardsInv, BoardsTyped, Boards!InsertReceipt, Boards!InsertBoard, Boards!At
<1>2. UNCHANGED <<echo, slot, minted, minute, torn>>
  BY DEF Boards!InsertReceipt, Boards!InsertBoard
<1>3. PICK c \in Tables, w \in Fetches :
         /\ \E e \in Entries(c) : cache' = [cache EXCEPT ![c] = Boards!Put(c, e)]
         /\ fetching' = [fetching EXCEPT ![t] = w]
         /\ w.pc = "trimming" /\ w.table = c /\ w.key = fetching[t].key
  <2>1. CASE Boards!InsertReceipt(t)
    <3> DEFINE w == [fetching[t] EXCEPT !.todo = Tail(@), !.pc = "trimming", !.table = "proofs"]
    <3>1. fetching[t].todo \in Seq(Nat) /\ fetching[t].todo # <<>>
      BY <1>1, <2>1 DEF Fetches, Boards!InsertReceipt
    <3>2. Head(fetching[t].todo) \in Entries("proofs") /\ Tail(fetching[t].todo) \in Seq(Nat)
      BY <3>1, HeadTailProperties DEF Entries
    <3>3. w \in Fetches /\ w.pc = "trimming" /\ w.table = "proofs" /\ w.key = fetching[t].key
      BY <1>1, <3>2 DEF Fetches, Phases, Tables
    <3>4. fetching' = [fetching EXCEPT ![t] = w]
          /\ cache' = [cache EXCEPT !["proofs"] = Boards!Put("proofs", Head(fetching[t].todo))]
      BY <2>1 DEF Boards!InsertReceipt, BoardsInv, BoardsTyped
    <3> HIDE DEF w
    <3> QED BY <3>2, <3>3, <3>4 DEF Tables
  <2>2. CASE Boards!InsertBoard(t)
    <3> DEFINE w == [fetching[t] EXCEPT !.pc = "trimming", !.table = "boards"]
               e == [key |-> fetching[t].key, until |-> minute + BoardTTL, ids |-> fetching[t].ids,
                     echo |-> fetching[t].echo]
    <3>1. w \in Fetches /\ w.pc = "trimming" /\ w.table = "boards" /\ w.key = fetching[t].key
      BY <1>1 DEF Fetches, Phases, Tables
    <3>2. minute \in Nat /\ BoardTTL \in Nat
      BY DEF BoardsInv, BoardsTyped, Boards!BoardsAssumption
    <3>3. e \in Entries("boards")
      BY <1>1, <3>2 DEF Fetches, Entries
    <3>4. fetching' = [fetching EXCEPT ![t] = w]
          /\ cache' = [cache EXCEPT !["boards"] = Boards!Put("boards", e)]
      BY <2>2 DEF Boards!InsertBoard, BoardsInv, BoardsTyped
    <3> HIDE DEF w, e
    <3> QED BY <3>1, <3>3, <3>4 DEF Tables
  <2> QED BY <2>1, <2>2
<1>4. fetching'[t] = w /\ OthersStay(t) /\ fetching' \in [Callers -> Fetches]
  BY <1>3, OnlyOneMoves DEF BoardsInv, BoardsTyped
<1>5. PICK e \in Entries(c) : cache' = [cache EXCEPT ![c] = Boards!Put(c, e)]
  BY <1>3
<1>51. PICK s : s = Boards!Put(c, e)
  OBVIOUS
<1>6. /\ cache.boards \in Seq(Entries("boards")) /\ cache.proofs \in Seq(Entries("proofs"))
      /\ DistinctIn("boards", cache.boards) /\ DistinctIn("proofs", cache.proofs)
  BY PublicTypeParts DEF BoardsInv, BoardsTyped
<1>7. s \in Seq(Entries(c)) /\ DistinctIn(c, s)
  <2>1. cache[c] \in Seq(Entries(c)) /\ DistinctIn(c, cache[c])
    BY <1>6 DEF Tables
  <2> QED BY <1>51, <2>1, PutKeepsKeys
<1>8. /\ cache' \in [proofs : Seq(Entries("proofs")), boards : Seq(Entries("boards"))]
      /\ cache'[c] = s /\ \A d \in Tables \ {c} : cache'[d] = cache[d]
  BY <1>5, <1>51, <1>7 DEF BoardsInv, BoardsTyped, Tables
<1>9. DistinctIn("proofs", cache'.proofs) /\ DistinctIn("boards", cache'.boards)
  BY <1>6, <1>7, <1>8 DEF Tables
<1>10. \A d \in Tables : ~GoesOn(t, d)
  BY <1>1 DEF GoesOn
<1>11. Guarded(c)'
  BY <1>3, <1>4, GuardTaken DEF GoesOn
<1>12. ASSUME NEW d \in Tables \ {c}, Guarded(d) PROVE Guarded(d)'
  BY <1>4, <1>8, <1>10, <1>12, GuardStays
<1>13. Guarded("proofs")' /\ (~torn' => Guarded("boards")')
  BY <1>2, <1>11, <1>12 DEF BoardsInv, Tables
<1> QED BY <1>1, <1>2, <1>3, <1>4, <1>8, <1>9, <1>13, TrimStep


\* The other dictionary than the one a request trims is left as it is.
LEMMA OtherTableKept ==
    ASSUME BoardsInv, NEW t \in Callers, OthersStay(t), NEW c \in Tables, c # fetching[t].table,
           cache'[c] = cache[c], Guarded(c)
    PROVE  Guarded(c)'
<1>1. ~GoesOn(t, c)
  BY DEF GoesOn
<1> QED BY <1>1, GuardStays

\* Where no dictionary changes, the one trimmed must stay guarded; of the
\* other it is known.
LEMMA StillTrims ==
    ASSUME BoardsInv, NEW t \in Callers, OthersStay(t), fetching' \in [Callers -> Fetches],
           fetching'[t].pc # "idle" => fetching'[t].key = fetching[t].key,
           fetching[t].pc \in {"trimming", "iterating", "evicting"}, fetching'[t].pc # "collecting",
           fetching'[t].pc = "iterating" => fetching'[t].size > 0,
           UNCHANGED <<cache, echo, slot, minted, minute>>,
           torn' = torn \/ (fetching[t].table = "boards" /\ ~torn'),
           NEW c \in Tables, c = fetching[t].table,
           c = "proofs" \/ ~torn \/ torn' # torn => Guarded(c)'
    PROVE  BoardsInv'
<1>1. /\ cache' \in [proofs : Seq(Entries("proofs")), boards : Seq(Entries("boards"))]
      /\ DistinctIn("proofs", cache'.proofs) /\ DistinctIn("boards", cache'.boards)
  BY PublicTypeParts DEF BoardsInv, BoardsTyped
<1>2. ASSUME NEW d \in Tables \ {c}, Guarded(d) PROVE Guarded(d)'
  BY <1>2, OtherTableKept
<1>3. Guarded("proofs")' /\ (~torn' => Guarded("boards")')
  BY <1>2 DEF BoardsInv, Tables
<1> QED BY <1>1, <1>3, TrimStep

\* while len(d) > limit: iter(d)
LEMMA TrimMoreKeeps ==
    ASSUME Boards!BoardsAssumption, BoardsInv, NEW t \in Callers, Boards!TrimMore(t)
    PROVE  BoardsInv'
<1>1. PICK c \in Tables : c = fetching[t].table
  BY DEF BoardsInv, BoardsTyped, Fetches
<1>2. /\ fetching[t] \in Fetches /\ fetching[t].pc = "trimming" /\ Len(cache[c]) > Boards!Limit[c]
      /\ fetching' = [fetching EXCEPT ![t].pc = "iterating", ![t].size = Len(cache[c])]
      /\ UNCHANGED <<cache, echo, slot, minted, minute, torn>>
  BY <1>1 DEF Boards!TrimMore, Boards!At, BoardsInv, BoardsTyped
<1>3. Len(cache[c]) \in Nat /\ Len(cache[c]) > 0
  <2>1. Len(cache[c]) \in Nat
    BY LenProperties DEF BoardsInv, BoardsTyped, Tables
  <2>2. Boards!Limit[c] \in Nat
    BY DEF Boards!Limit, Boards!BoardsAssumption, Tables
  <2> QED BY <1>2, <2>1, <2>2
<1>4. PICK n \in Nat : n = Len(cache[c])
  BY <1>3
<1> DEFINE w == [fetching[t] EXCEPT !.pc = "iterating", !.size = n]
<1>5. w \in Fetches /\ w.pc = "iterating" /\ w.size = n /\ w.key = fetching[t].key /\ w.table = c
  BY <1>1, <1>2 DEF Fetches, Phases
<1>6. fetching' = [fetching EXCEPT ![t] = w]
  BY <1>2, <1>4 DEF BoardsInv, BoardsTyped
<1> HIDE DEF w
<1>7. fetching'[t] = w /\ OthersStay(t) /\ fetching' \in [Callers -> Fetches]
  BY <1>5, <1>6, OnlyOneMoves DEF BoardsInv, BoardsTyped
<1>8. Guarded(c)'
  <2>1. GoesOn(t, c)'
    BY <1>2, <1>4, <1>5, <1>7 DEF GoesOn
  <2> QED BY <2>1, GuardTaken
<1> QED BY <1>1, <1>2, <1>3, <1>4, <1>5, <1>7, <1>8, StillTrims

LEMMA TrimDoneKeeps ==
    ASSUME Boards!BoardsAssumption, BoardsInv, NEW t \in Callers, Boards!TrimDone(t)
    PROVE  BoardsInv'
<1>1. PICK c \in Tables : c = fetching[t].table
  BY DEF BoardsInv, BoardsTyped, Fetches
<1>2. /\ fetching[t].pc = "trimming" /\ Len(cache[c]) <= Boards!Limit[c]
      /\ UNCHANGED <<cache, echo, slot, minted, minute>>
  BY <1>1 DEF Boards!TrimDone, Boards!At
<1>3. /\ fetching' \in [Callers -> Fetches] /\ OthersStay(t) /\ fetching'[t].pc \in {"idle", "storing"}
      /\ fetching'[t].pc # "idle" => fetching'[t].key = fetching[t].key
      /\ torn' = torn \/ (c = "boards" /\ ~torn')
  <2>1. CASE c = "boards"
    BY <1>1, <2>1, AnswerMoves DEF Boards!TrimDone, BoardsInv
  <2>2. CASE c # "boards"
    <3>1. Boards!Goto(t, "storing") /\ torn' = torn
      BY <1>1, <2>2 DEF Boards!TrimDone
    <3> QED BY <3>1, GotoMoves DEF BoardsInv, Phases
  <2> QED BY <2>1, <2>2
<1>4. Guarded(c)'
  <2>1. Len(cache[c]) \in Nat /\ Boards!Limit[c] \in Nat
    <3>1. Len(cache[c]) \in Nat
      BY LenProperties DEF BoardsInv, BoardsTyped, Tables
    <3> QED BY <3>1 DEF Boards!Limit, Boards!BoardsAssumption, Tables
  <2>2. ~(Len(cache[c]) > Boards!Limit[c])
    BY <1>2, <2>1
  <2>3. ~(Len(cache'[c]) > Boards!Limit[c])
    BY <1>2, <2>2
  <2> QED BY <2>3 DEF Guarded, Boards!Limit
<1> QED BY <1>1, <1>2, <1>3, <1>4, StillTrims

\* next(iter(d)): the oldest entry is there, and somebody goes on to evict it.
LEMMA PeekKeeps ==
    ASSUME BoardsInv, NEW t \in Callers, Boards!PeekOldest(t) PROVE BoardsInv'
<1>1. PICK c \in Tables : c = fetching[t].table
  BY DEF BoardsInv, BoardsTyped, Fetches
<1>2. /\ fetching[t] \in Fetches /\ fetching[t].pc = "iterating" /\ Len(cache[c]) = fetching[t].size
      /\ fetching' = [fetching EXCEPT ![t].pc = "evicting",
                          ![t].victim = {Boards!KeyOf(c, Boards!Victim(t))}]
      /\ UNCHANGED <<cache, echo, slot, minted, minute, torn>>
  BY <1>1 DEF Boards!PeekOldest, Boards!At, BoardsInv, BoardsTyped
<1>3. PICK e \in Entries(c) : e = Boards!Victim(t) /\ e \in Boards!ToSet(cache[c])
  <2>1. cache[c] \in Seq(Entries(c)) /\ Len(cache[c]) > 0
    BY <1>2 DEF BoardsInv, BoardsTyped, Tables
  <2>2. PICK s \in Seq(Entries(c)) : s = cache[c] /\ Len(s) > 0
    BY <2>1
  <2>3. Len(s) \in Nat /\ Head(s) = s[1] /\ 1 \in DOMAIN s /\ s[1] \in Entries(c)
    BY <2>2, LenProperties, ElementOfSeq
  <2>4. Boards!Victim(t) = s[1]
    BY <1>1, <2>2, <2>3 DEF Boards!Victim
  <2>5. s[1] \in Boards!ToSet(cache[c])
    BY <2>2, <2>3 DEF Boards!ToSet
  <2> QED BY <2>3, <2>4, <2>5
<1>4. PICK k : k = Boards!KeyOf(c, e)
  OBVIOUS
<1>5. k \in Nat \cup Boards!Keys
  BY <1>4 DEF Boards!KeyOf, Entries, Tables
<1> DEFINE w == [fetching[t] EXCEPT !.pc = "evicting", !.victim = {k}]
<1>6. /\ w \in Fetches /\ w.pc = "evicting" /\ w.victim = {k}
      /\ w.key = fetching[t].key /\ w.table = c
  BY <1>1, <1>2, <1>5 DEF Fetches, Phases
<1>7. fetching' = [fetching EXCEPT ![t] = w]
  BY <1>2, <1>3, <1>4 DEF BoardsInv, BoardsTyped
<1> HIDE DEF w
<1>8. fetching'[t] = w /\ OthersStay(t) /\ fetching' \in [Callers -> Fetches]
  BY <1>6, <1>7, OnlyOneMoves DEF BoardsInv, BoardsTyped
<1>9. Guarded(c)'
  <2>1. e \in Boards!ToSet(cache[c])' /\ Boards!KeyOf(c, e) \in {k}
    BY <1>2, <1>3, <1>4
  <2>2. Boards!Holds(t)'
    BY <1>6, <1>8, <2>1 DEF Boards!Holds
  <2>3. GoesOn(t, c)'
    BY <1>6, <1>8, <2>2 DEF GoesOn
  <2> QED BY <2>3, GuardTaken
<1> QED BY <1>1, <1>2, <1>6, <1>8, <1>9, StillTrims

\* A request the dictionary failed had not been going on with it.
LEMMA TrimFails ==
    ASSUME BoardsInv, NEW t \in Callers, Boards!PeekFails(t) \/ Boards!EvictFails(t)
    PROVE  BoardsInv'
<1>1. PICK c \in Tables : c = fetching[t].table
  BY DEF BoardsInv, BoardsTyped, Fetches
<1>2. /\ fetching[t].pc \in {"iterating", "evicting"} /\ ~GoesOn(t, c)
      /\ UNCHANGED <<cache, echo, slot, minted, minute, torn>>
  BY <1>1 DEF Boards!PeekFails, Boards!EvictFails, Boards!At, GoesOn
<1>3. fetching' \in [Callers -> Fetches] /\ OthersStay(t) /\ fetching'[t].pc = "idle"
  BY AnswerMoves DEF Boards!PeekFails, Boards!EvictFails, BoardsInv
<1>4. c = "proofs" \/ ~torn => Guarded(c)
  BY DEF BoardsInv, Tables
<1>5. c = "proofs" \/ ~torn => Guarded(c)'
  BY <1>2, <1>3, <1>4, GuardStays
<1> QED BY <1>1, <1>2, <1>3, <1>5, StillTrims

\* The oldest entry is popped; its dictionary is trimmed on.
LEMMA EvictKeeps ==
    ASSUME BoardsInv, NEW t \in Callers, Boards!Evict(t) PROVE BoardsInv'
<1>1. PICK c \in Tables : c = fetching[t].table
  BY DEF BoardsInv, BoardsTyped, Fetches
<1>2. PICK s : s = Boards!Without(c, fetching[t].victim)
  OBVIOUS
<1>3. /\ fetching[t].pc = "evicting" /\ cache' = [cache EXCEPT ![c] = s]
      /\ Boards!Goto(t, "trimming") /\ UNCHANGED <<echo, slot, minted, minute, torn>>
  BY <1>1, <1>2 DEF Boards!Evict, Boards!At
<1>4. /\ fetching' \in [Callers -> Fetches] /\ OthersStay(t) /\ fetching'[t].pc = "trimming"
      /\ fetching'[t].key = fetching[t].key /\ fetching'[t].table = c
  BY <1>1, <1>3, GotoMoves DEF BoardsInv, Phases
<1>5. /\ cache.boards \in Seq(Entries("boards")) /\ cache.proofs \in Seq(Entries("proofs"))
      /\ DistinctIn("boards", cache.boards) /\ DistinctIn("proofs", cache.proofs)
  BY PublicTypeParts DEF BoardsInv, BoardsTyped
<1>6. s \in Seq(Entries(c)) /\ DistinctIn(c, s)
  <2>1. cache[c] \in Seq(Entries(c)) /\ DistinctIn(c, cache[c])
    BY <1>5 DEF Tables
  <2> QED BY <1>2, <2>1, WithoutKeepsKeys
<1>7. /\ cache' \in [proofs : Seq(Entries("proofs")), boards : Seq(Entries("boards"))]
      /\ cache'[c] = s /\ \A d \in Tables \ {c} : cache'[d] = cache[d]
  BY <1>3, <1>6 DEF BoardsInv, BoardsTyped, Tables
<1>8. DistinctIn("proofs", cache'.proofs) /\ DistinctIn("boards", cache'.boards)
  BY <1>5, <1>6, <1>7 DEF Tables
<1>9. Guarded(c)'
  BY <1>4, GuardTaken DEF GoesOn
<1>10. ASSUME NEW d \in Tables \ {c}, Guarded(d) PROVE Guarded(d)'
  BY <1>1, <1>4, <1>7, <1>10, OtherTableKept
<1>11. Guarded("proofs")' /\ (~torn' => Guarded("boards")')
  BY <1>3, <1>9, <1>10 DEF BoardsInv, Tables
<1> QED BY <1>3, <1>4, <1>7, <1>8, <1>11, TrimStep

LEMMA MinutesPass == ASSUME BoardsInv, Boards!Tick PROVE BoardsInv'
<1>1. UNCHANGED <<cache, echo, slot, fetching, minted, torn>> /\ minute' = minute + 1
  BY DEF Boards!Tick
<1>2. minute' \in Nat
  BY <1>1 DEF BoardsInv, BoardsTyped
<1> QED BY <1>1, <1>2
        DEF BoardsInv, BoardsTyped, Boards!PublicTypeOK, Boards!At, Guarded, GoesOn, Boards!Holds

LEMMA BoardsInit == ASSUME Boards!BoardsAssumption, Boards!Init PROVE BoardsInv
<1>1. /\ cache = [proofs |-> <<>>, boards |-> <<>>] /\ echo = Boards!NoEcho
      /\ slot = Boards!Free /\ fetching = [u \in Callers |-> Boards!Idle]
      /\ minted = 0 /\ minute = 0
  BY DEF Boards!Init
<1>2. BoardsTyped
  BY <1>1, IdleFetch DEF BoardsTyped, Boards!NoEcho
<1>3. Boards!Free \notin Callers /\ ProofLimit \in Nat /\ BoardLimit \in Nat
  BY DEF Boards!BoardsAssumption
<1>4. SlotRight
  BY <1>1, <1>3, IdleFetch DEF SlotRight
<1>5. DistinctIn("proofs", cache.proofs) /\ DistinctIn("boards", cache.boards)
  BY <1>1 DEF DistinctIn
<1>6. Guarded("proofs") /\ Guarded("boards")
  BY <1>1, <1>3 DEF Guarded, Boards!Limit
<1> QED BY <1>2, <1>4, <1>5, <1>6, PublicTypeParts DEF BoardsInv

LEMMA BoardsStep ==
    ASSUME Boards!BoardsAssumption, BoardsInv, [Boards!Next]_(Boards!vars) PROVE BoardsInv'
<1>1. ASSUME NEW t \in Callers, NEW k \in Boards!Keys, Boards!Ask(t, k) PROVE BoardsInv'
  BY <1>1, AskKeeps
<1>2. ASSUME NEW t \in Callers, Boards!Work(t) PROVE BoardsInv'
  <2>1. CASE Boards!Hit(t) \/ Boards!Miss(t) \/ Boards!RefuseBusy(t)
    BY <2>1, LookingKeeps
  <2>2. CASE Boards!DropExpired(t)
    BY <2>2, DropKeeps
  <2>3. CASE Boards!Admit(t)
    BY <2>3, AdmitKeeps
  <2>4. CASE Boards!CollectFrontier(t) \/ Boards!CollectDeals(t) \/ Boards!CollectFails(t)
    BY <2>4, CollectKeeps
  <2>5. CASE Boards!InsertReceipt(t) \/ Boards!InsertBoard(t)
    BY <2>5, InsertKeeps
  <2>6. CASE Boards!TrimMore(t)
    BY <2>6, TrimMoreKeeps
  <2>7. CASE Boards!TrimDone(t)
    BY <2>7, TrimDoneKeeps
  <2>8. CASE Boards!PeekOldest(t)
    BY <2>8, PeekKeeps
  <2>9. CASE Boards!PeekFails(t) \/ Boards!EvictFails(t)
    BY <2>9, TrimFails
  <2>10. CASE Boards!Evict(t)
    BY <2>10, EvictKeeps
  <2> QED BY <1>2, <2>1, <2>2, <2>3, <2>4, <2>5, <2>6, <2>7, <2>8, <2>9, <2>10
          DEF Boards!Work
<1>3. CASE Boards!Tick
  BY <1>3, MinutesPass
<1>4. CASE UNCHANGED Boards!vars
  BY <1>4 DEF Boards!vars, BoardsInv, BoardsTyped, Boards!PublicTypeOK, Boards!At,
              Guarded, GoesOn, Boards!Holds
<1> QED BY <1>1, <1>2, <1>3, <1>4 DEF Boards!Next

\* The proof cache and the board cache of server.py are bounded: whenever no
\* request is trimming a dictionary, it is within its bound - the boards
\* unless an expired one was dropped under the trimming.  For any number of
\* request threads, queries, bounds and lifetimes: a dictionary beyond its
\* bound always has a trimmer whom nothing it read can fail any more.
THEOREM CachesStayBounded ==
    ASSUME Boards!BoardsAssumption
    PROVE  Boards!Spec => []CachesAreBoundedAtRest
<1>1. Boards!Init => BoardsInv
  BY BoardsInit
<1>2. BoardsInv /\ [Boards!Next]_(Boards!vars) => BoardsInv'
  BY BoardsStep
<1>3. BoardsInv => Boards!PublicTypeOK /\ Boards!CachesAreBoundedAtRest
  <2> SUFFICES ASSUME BoardsInv PROVE Boards!CachesAreBoundedAtRest
    BY DEF BoardsInv
  <2>1. /\ Len(cache.proofs) \in Nat /\ Len(cache.boards) \in Nat
        /\ ProofLimit \in Nat /\ BoardLimit \in Nat
    BY LenProperties DEF BoardsInv, BoardsTyped, Boards!BoardsAssumption
  <2>2. ASSUME NEW c \in Tables, \A t \in Callers : ~Boards!Trims(t, c), Guarded(c)
        PROVE  ~(Len(cache[c]) > Boards!Limit[c])
    BY <2>2 DEF Guarded, GoesOn, Boards!Trims
  <2>3. /\ ~(Len(cache.proofs) > ProofLimit) => Len(cache.proofs) <= ProofLimit
        /\ ~(Len(cache.boards) > BoardLimit) => Len(cache.boards) <= BoardLimit
    BY <2>1
  <2> QED BY <2>2, <2>3 DEF BoardsInv, Tables, Boards!Limit, Boards!CachesAreBoundedAtRest
<1> QED BY <1>1, <1>2, <1>3, PTL DEF Boards!Spec, CachesAreBoundedAtRest

\* What a request answers.  Receipts are numbered as they are minted, and what came of
\* an ECHO snapshot is cached only while it is fresh.
Busy(t) == fetching[t].pc \in {"storing", "trimming", "iterating", "evicting"}
Trimming(t, c) == fetching[t].pc \in {"trimming", "iterating", "evicting"} /\ fetching[t].table = c

DatedProofs == \A i \in DOMAIN cache.proofs : cache.proofs[i] <= minted
DatedBoards ==
    \A i \in DOMAIN cache.boards : cache.boards[i].echo => cache.boards[i].until < FreshUntil + BoardTTL
DatedFetch(t) ==
    /\ \A i \in DOMAIN fetching[t].todo : fetching[t].todo[i] <= minted
    /\ Busy(t) /\ fetching[t].echo => minute < FreshUntil
Dated ==
    /\ DatedProofs /\ DatedBoards
    /\ \A t \in Callers : DatedFetch(t)
    /\ echo.id <= minted /\ echo.until <= FreshUntil
    /\ page = [t \in Callers |-> page[t]]

\* The receipts of t that are in the dictionary already.  All of them, while nobody
\* else is there: what is evicted is older, since a new one goes to the end, and only
\* the last, the one of the ECHO cache, may be there already.
Shown(t) == fetching[t].ids \ {fetching[t].todo[i] : i \in DOMAIN fetching[t].todo}

AloneEvicts(t) ==
    /\ fetching[t].pc \in {"iterating", "evicting"} =>
         Len(cache[fetching[t].table]) > Boards!Limit[fetching[t].table]
    /\ fetching[t].pc = "iterating" => fetching[t].size = Len(cache[fetching[t].table])
    /\ fetching[t].pc = "evicting" =>
         fetching[t].victim = {Boards!KeyOf(fetching[t].table, cache[fetching[t].table][1])}

AloneStores(t) ==
    /\ \A r \in Shown(t) : \E i \in DOMAIN cache.proofs : cache.proofs[i] = r
    /\ Len(fetching[t].todo) <= 2
    /\ Len(fetching[t].todo) = 2 =>
         /\ fetching[t].pc = "storing" /\ Shown(t) = {}
         /\ \A i \in DOMAIN cache.proofs : cache.proofs[i] # fetching[t].todo[1]
    /\ Len(fetching[t].todo) = 1 => \A r \in Shown(t) : r = cache.proofs[Len(cache.proofs)]

AloneTrims(t) ==
    /\ Trimming(t, "proofs") =>
         /\ Len(cache.proofs) <= ProofLimit + 1
         /\ Len(cache.proofs) > ProofLimit => cache.proofs[1] \notin Shown(t)
    /\ Trimming(t, "boards") => fetching[t].todo = <<>>

AloneStands(t) ==
    /\ \A u \in Callers \ {t} : fetching[u].pc = "idle"
    /\ AloneEvicts(t) /\ AloneTrims(t)
    /\ Busy(t) => AloneStores(t)

AnswersInv == BoardsInv /\ Dated /\ \A t \in Callers : fetching[t].alone => AloneStands(t)

\* A step of a request leaves the others as they were.
LEMMA WorkMoves ==
    ASSUME BoardsInv, NEW t \in Callers, Boards!Work(t)
    PROVE  /\ \A u \in Callers \ {t} : fetching'[u] = fetching[u]
           /\ fetching[t].pc # "idle"
<1>1. fetching \in [Callers -> Fetches]
  BY DEF BoardsInv, BoardsTyped
<1>2. CASE \E r, i, b : Boards!Answer(t, r, i, b) /\ fetching[t].pc # "idle"
  BY <1>1, <1>2 DEF Boards!Answer
<1>3. CASE \E pc1 : Boards!Goto(t, pc1) /\ fetching[t].pc # "idle"
  BY <1>1, <1>3 DEF Boards!Goto
<1>4. CASE Boards!Hit(t) \/ Boards!RefuseBusy(t) \/ Boards!CollectFails(t) \/ Boards!PeekFails(t)
           \/ Boards!EvictFails(t)
  BY <1>2, <1>4
     DEF Boards!Hit, Boards!RefuseBusy, Boards!CollectFails, Boards!PeekFails, Boards!EvictFails, Boards!At
<1>5. CASE Boards!Miss(t) \/ Boards!DropExpired(t) \/ Boards!Admit(t) \/ Boards!Evict(t)
  BY <1>3, <1>5 DEF Boards!Miss, Boards!DropExpired, Boards!Admit, Boards!Evict, Boards!At
<1>6. CASE Boards!TrimDone(t)
  BY <1>2, <1>3, <1>6 DEF Boards!TrimDone, Boards!At
<1>7. CASE Boards!CollectFrontier(t) \/ Boards!CollectDeals(t)
  <2>1. fetching[t].pc # "idle" /\ \E ids, id : Boards!Collected(t, ids, id)
    BY <1>7 DEF Boards!CollectFrontier, Boards!CollectDeals, Boards!At
  <2> QED BY <1>1, <2>1 DEF Boards!Collected
<1>8. CASE Boards!InsertReceipt(t) \/ Boards!InsertBoard(t) \/ Boards!TrimMore(t) \/ Boards!PeekOldest(t)
  BY <1>1, <1>8
     DEF Boards!InsertReceipt, Boards!InsertBoard, Boards!TrimMore, Boards!PeekOldest, Boards!At
<1> QED BY <1>4, <1>5, <1>6, <1>7, <1>8 DEF Boards!Work

\* Nobody is alone who was not, and the others stay idle.
LEMMA AloneStep ==
    ASSUME AnswersInv, NEW t \in Callers, Boards!Work(t), BoardsInv', Dated',
           fetching'[t].alone => fetching[t].alone,
           fetching'[t].alone => AloneEvicts(t)' /\ AloneTrims(t)' /\ (Busy(t)' => AloneStores(t)')
    PROVE  AnswersInv'
<1>1. /\ \A u \in Callers \ {t} : fetching'[u] = fetching[u]
      /\ fetching[t].pc # "idle"
  BY WorkMoves DEF AnswersInv
<1>2. ASSUME NEW u \in Callers, fetching'[u].alone PROVE AloneStands(u)'
  <2>1. fetching[u].alone /\ AloneStands(u)
    BY <1>1, <1>2 DEF AnswersInv
  <2>2. u = t
    BY <1>1, <2>1 DEF AloneStands
  <2>3. \A v \in Callers \ {u} : fetching'[v].pc = "idle"
    BY <1>1, <2>1, <2>2 DEF AloneStands
  <2>4. AloneEvicts(u)' /\ AloneTrims(u)' /\ (Busy(u)' => AloneStores(u)')
    BY <1>2, <2>2
  <2> QED BY <2>3, <2>4 DEF AloneStands
<1> QED BY <1>2 DEF AnswersInv

\* What is left to show of the dates after a step of t.
LEMMA DatedStep ==
    ASSUME Dated, NEW t \in Callers, \A u \in Callers \ {t} : DatedFetch(u)',
           DatedProofs', DatedBoards', DatedFetch(t)', echo'.id <= minted', echo'.until <= FreshUntil,
           page' = page \/ \E a : page' = [page EXCEPT ![t] = a]
    PROVE  Dated'
<1>1. page' = [u \in Callers |-> page'[u]]
  BY DEF Dated
<1> QED BY <1>1 DEF Dated

\* A step that mints nothing and stores nothing new.
LEMMA DatedQuiet ==
    ASSUME BoardsInv, BoardsInv', Dated, NEW t \in Callers,
           \A u \in Callers \ {t} : fetching'[u].pc = fetching[u].pc /\ fetching'[u].todo = fetching[u].todo
                                    /\ fetching'[u].echo = fetching[u].echo,
           \A c \in Tables : \A i \in DOMAIN cache'[c] : \E j \in DOMAIN cache[c] : cache'[c][i] = cache[c][j],
           UNCHANGED <<minted, echo, minute>>,
           fetching'[t].todo \in {<<>>, fetching[t].todo},
           Busy(t)' /\ fetching'[t].echo => Busy(t) /\ fetching[t].echo,
           page' = page \/ \E a : page' = [page EXCEPT ![t] = a]
    PROVE  Dated'
<1>1. \A u \in Callers \ {t} : DatedFetch(u)'
  BY DEF Dated, DatedFetch, Busy
<1>2. DatedFetch(t)'
  BY DEF Dated, DatedFetch
<1>3. DatedProofs'
  BY DEF Dated, DatedProofs, Tables
<1>4. DatedBoards'
  BY DEF Dated, DatedBoards, Tables
<1>5. echo'.id <= minted' /\ echo'.until <= FreshUntil
  BY DEF Dated
<1> QED BY <1>1, <1>2, <1>3, <1>4, <1>5, DatedStep

\* An answer that stores nothing: the request is idle, and so not alone.
LEMMA AnsweredAnswers ==
    ASSUME AnswersInv, NEW t \in Callers, Boards!Work(t), BoardsInv',
           NEW r, NEW i, NEW b, Boards!Answer(t, r, i, b),
           UNCHANGED <<cache, minted, echo, minute>>
    PROVE  AnswersInv' /\ page'[t] = [result |-> r, ids |-> i, echo |-> b]
<1>1. \A u \in Callers \ {t} : fetching'[u] = fetching[u]
  BY WorkMoves DEF AnswersInv
<1>2. fetching'[t] = Boards!Idle
  BY DEF Boards!Answer, AnswersInv, BoardsInv, BoardsTyped
<1>3. ~fetching'[t].alone /\ fetching'[t].todo = <<>> /\ ~Busy(t)'
  BY <1>2 DEF Boards!Idle, Busy
<1>4. page' = [page EXCEPT ![t] = [result |-> r, ids |-> i, echo |-> b]]
  BY DEF Boards!Answer
<1>5. Dated'
  BY <1>1, <1>3, <1>4, DatedQuiet DEF AnswersInv, Tables
<1>6. page'[t] = [result |-> r, ids |-> i, echo |-> b]
  BY <1>4 DEF AnswersInv, Dated
<1> QED BY <1>3, <1>5, <1>6, AloneStep

\* A step to a phase in which nothing is stored yet.
LEMMA GoesAnswers ==
    ASSUME AnswersInv, NEW t \in Callers, Boards!Work(t), BoardsInv',
           NEW pc1 \in {"dropping", "admitting", "collecting"}, Boards!Goto(t, pc1),
           \A c \in Tables : \A i \in DOMAIN cache'[c] : \E j \in DOMAIN cache[c] : cache'[c][i] = cache[c][j],
           UNCHANGED <<minted, echo, minute, page>>
    PROVE  AnswersInv'
<1>1. \A u \in Callers \ {t} : fetching'[u] = fetching[u]
  BY WorkMoves DEF AnswersInv
<1>2. fetching[t] \in Fetches /\ fetching'[t] = [fetching[t] EXCEPT !.pc = pc1]
  BY DEF Boards!Goto, AnswersInv, BoardsInv, BoardsTyped
<1>3. /\ fetching'[t].pc = pc1 /\ fetching'[t].todo = fetching[t].todo
      /\ fetching'[t].alone = fetching[t].alone
  BY <1>2 DEF Fetches
<1>4. ~Busy(t)' /\ AloneEvicts(t)' /\ AloneTrims(t)'
  BY <1>3 DEF Busy, AloneEvicts, AloneTrims, Trimming
<1>5. Dated'
  BY <1>1, <1>3, <1>4, DatedQuiet DEF AnswersInv
<1> QED BY <1>3, <1>4, <1>5, AloneStep

\* The elements of a dictionary after an entry was put, and after one was popped.
LEMMA PutHas ==
    ASSUME NEW S, NEW c \in Tables, NEW e \in S, cache[c] \in Seq(S), NEW s, s = Boards!Put(c, e)
    PROVE  \A i \in DOMAIN s : s[i] = e \/ \E j \in DOMAIN cache[c] : s[i] = cache[c][j]
<1>1. PICK d : d = cache[c]
  OBVIOUS
<1>2. d \in Seq(S) /\ DOMAIN d = 1..Len(d) /\ Len(d) \in Nat
  BY <1>1, LenProperties
<1>3. CASE \E i \in DOMAIN d : Boards!KeyOf(c, d[i]) = Boards!KeyOf(c, e)
  BY <1>1, <1>3 DEF Boards!Put
<1>4. CASE \A i \in DOMAIN d : Boards!KeyOf(c, d[i]) # Boards!KeyOf(c, e)
  <2>1. s = Append(d, e)
    BY <1>1, <1>4 DEF Boards!Put
  <2>2. DOMAIN s = 1..(Len(d) + 1) /\ s[Len(d) + 1] = e /\ \A i \in 1..Len(d) : s[i] = d[i]
    BY <1>2, <2>1, AppendProperties
  <2>3. 1..(Len(d) + 1) = (1..Len(d)) \cup {Len(d) + 1}
    BY <1>2
  <2> QED BY <1>1, <1>2, <2>2, <2>3
<1> QED BY <1>1, <1>3, <1>4

LEMMA WithoutHas ==
    ASSUME NEW S, NEW c \in Tables, NEW ks, cache[c] \in Seq(S), NEW s, s = Boards!Without(c, ks)
    PROVE  \A i \in DOMAIN s : \E j \in DOMAIN cache[c] : s[i] = cache[c][j]
<1>1. PICK d : d = cache[c]
  OBVIOUS
<1>2. d \in Seq(S) /\ DOMAIN d = 1..Len(d) /\ Len(d) \in Nat
  BY <1>1, LenProperties
<1> DEFINE at == {i \in DOMAIN d : Boards!KeyOf(c, d[i]) \in ks}
<1>3. CASE at = {}
  BY <1>1, <1>3 DEF Boards!Without
<1>4. CASE at # {}
  <2>1. PICK i \in 1..Len(d) : s = RemoveAt(d, i)
    <3>1. (CHOOSE i \in at : TRUE) \in at
      BY <1>4
    <3>2. s = RemoveAt(d, CHOOSE i \in at : TRUE)
      BY <1>1, <1>4 DEF Boards!Without, Boards!RemoveAt, RemoveAt
    <3> QED BY <1>2, <3>1, <3>2
  <2>2. s \in Seq(S) /\ Len(s) = Len(d) - 1
        /\ \A k \in 1..(Len(d) - 1) : s[k] = IF k < i THEN d[k] ELSE d[k + 1]
    BY <1>2, <2>1, OneRemoved
  <2>3. DOMAIN s = 1..(Len(d) - 1)
    BY <1>2, <2>2, LenProperties
  <2>4. ASSUME NEW k \in 1..(Len(d) - 1) PROVE \E j \in DOMAIN d : s[k] = d[j]
    <3>1. k \in DOMAIN d /\ k + 1 \in DOMAIN d
      BY <1>2
    <3> QED BY <2>2, <3>1
  <2> QED BY <1>1, <2>3, <2>4
<1> QED BY <1>3, <1>4

\* A receipt that is put is there already, or goes to the end.
LEMMA PutProof ==
    ASSUME cache.proofs \in Seq(Nat), NEW e \in Nat, NEW s, s = Boards!Put("proofs", e)
    PROVE  \/ s = cache.proofs /\ \E i \in DOMAIN cache.proofs : cache.proofs[i] = e
           \/ s = Append(cache.proofs, e) /\ \A i \in DOMAIN cache.proofs : cache.proofs[i] # e
<1>1. PICK d : d = cache.proofs
  OBVIOUS
<1>2. DOMAIN d = 1..Len(d) /\ d = [i \in DOMAIN d |-> d[i]]
  BY <1>1
<1>3. CASE \E i \in DOMAIN d : d[i] = e
  <2>1. s = [i \in DOMAIN d |-> IF d[i] = e THEN e ELSE d[i]]
    BY <1>1, <1>3 DEF Boards!Put, Boards!KeyOf
  <2> QED BY <1>1, <1>2, <1>3, <2>1
<1>4. CASE \A i \in DOMAIN d : d[i] # e
  BY <1>1, <1>4 DEF Boards!Put, Boards!KeyOf
<1> QED BY <1>1, <1>3, <1>4

\* Popping the oldest leaves the rest, one place further up.
LEMMA OldestPopped ==
    ASSUME NEW S, NEW c \in Tables, cache[c] \in Seq(S), DistinctIn(c, cache[c]), Len(cache[c]) > 0,
           NEW s, s = Boards!Without(c, {Boards!KeyOf(c, cache[c][1])})
    PROVE  s \in Seq(S) /\ Len(s) = Len(cache[c]) - 1
           /\ \A k \in 1..(Len(cache[c]) - 1) : s[k] = cache[c][k + 1]
<1>1. PICK d : d = cache[c]
  OBVIOUS
<1>2. d \in Seq(S) /\ DistinctIn(c, d) /\ DOMAIN d = 1..Len(d) /\ Len(d) \in Nat /\ Len(d) > 0
  BY <1>1, LenProperties
<1> DEFINE at == {i \in DOMAIN d : Boards!KeyOf(c, d[i]) \in {Boards!KeyOf(c, d[1])}}
<1>3. at = {1}
  BY <1>2 DEF DistinctIn
<1>4. s = RemoveAt(d, 1)
  <2>1. (CHOOSE i \in at : TRUE) = 1
    BY <1>3
  <2> QED BY <1>1, <1>3, <2>1 DEF Boards!Without, Boards!RemoveAt, RemoveAt
<1>5. PICK o \in 1..Len(d) : o = 1
  BY <1>2
<1>6. /\ s \in Seq(S) /\ Len(s) = Len(d) - 1
      /\ \A k \in 1..(Len(d) - 1) : s[k] = IF k < o THEN d[k] ELSE d[k + 1]
  <2>1. s = RemoveAt(d, o)
    BY <1>4, <1>5
  <2>2. d \in Seq(S)
    BY <1>2
  <2>3. /\ RemoveAt(d, o) \in Seq(S) /\ Len(RemoveAt(d, o)) = Len(d) - 1
        /\ \A k \in 1..(Len(d) - 1) : RemoveAt(d, o)[k] = IF k < o THEN d[k] ELSE d[k + 1]
    BY <2>2, OneRemoved, Zenon
  <2> QED BY <2>1, <2>3, Zenon
<1>7. ASSUME NEW k \in 1..(Len(d) - 1) PROVE s[k] = d[k + 1]
  <2>1. ~(k < o)
    BY <1>2, <1>5
  <2> QED BY <1>6, <2>1
<1> QED BY <1>1, <1>6, <1>7

LEMMA CollectedFetch ==
    ASSUME BoardsInv, NEW t \in Callers, NEW ids \in Seq(Nat), NEW id, Boards!Collected(t, ids, id)
    PROVE  /\ fetching'[t].pc = "storing" /\ fetching'[t].todo = ids
           /\ fetching'[t].ids = {ids[i] : i \in DOMAIN ids}
           /\ fetching'[t].echo = (id # 0) /\ fetching'[t].alone = fetching[t].alone
<1>1. fetching[t] \in Fetches /\ fetching \in [Callers -> Fetches]
  BY DEF BoardsInv, BoardsTyped
<1> DEFINE shown == Boards!ToSet(ids)
           w == [fetching[t] EXCEPT !.pc = "storing", !.todo = ids, !.ids = shown, !.echo = id # 0]
<1>2. /\ w.pc = "storing" /\ w.todo = ids /\ w.ids = shown /\ w.echo = (id # 0)
      /\ w.alone = fetching[t].alone
  BY <1>1 DEF Fetches
<1>3. fetching' = [fetching EXCEPT ![t] = w]
  BY <1>1 DEF Boards!Collected
<1> HIDE DEF w
<1>4. fetching'[t] = w
  BY <1>1, <1>3
<1>5. shown = {ids[i] : i \in DOMAIN ids}
  BY DEF Boards!ToSet
<1> QED BY <1>2, <1>4, <1>5

\* What was collected waits, nothing of it stored yet, and of two receipts the first
\* is newly minted.
LEMMA CollectedAnswers ==
    ASSUME AnswersInv, NEW t \in Callers, Boards!Work(t), BoardsInv',
           NEW ids \in Seq(Nat), NEW id, Boards!Collected(t, ids, id),
           UNCHANGED <<cache, minute, page>>, minted' >= minted,
           \A i \in DOMAIN ids : ids[i] <= minted',
           Len(ids) <= 2, Len(ids) = 2 => ids[1] > minted,
           id # 0 => minute < FreshUntil,
           echo'.id <= minted' /\ echo'.until <= FreshUntil
    PROVE  AnswersInv'
<1>1. \A u \in Callers \ {t} : fetching'[u] = fetching[u]
  BY WorkMoves DEF AnswersInv
<1>2. /\ fetching'[t].pc = "storing" /\ fetching'[t].todo = ids
      /\ fetching'[t].ids = {ids[i] : i \in DOMAIN ids}
      /\ fetching'[t].echo = (id # 0) /\ fetching'[t].alone = fetching[t].alone
  BY CollectedFetch DEF AnswersInv
<1>3. /\ minted \in Nat /\ minted' \in Nat /\ cache.proofs \in Seq(Nat)
      /\ \A i \in DOMAIN cache.proofs : cache.proofs[i] \in Nat
      /\ fetching \in [Callers -> Fetches]
  <2>1. minted \in Nat /\ minted' \in Nat /\ cache.proofs \in Seq(Nat) /\ fetching \in [Callers -> Fetches]
    BY DEF AnswersInv, BoardsInv, BoardsTyped, Entries
  <2>2. DOMAIN cache.proofs = 1..Len(cache.proofs)
    BY <2>1, LenProperties
  <2> QED BY <2>1, <2>2, ElementOfSeq
<1>4. Dated'
  <2>1. ASSUME NEW u \in Callers \ {t} PROVE DatedFetch(u)'
    <3>1. DatedFetch(u) /\ fetching[u].todo \in Seq(Nat)
      BY <1>3 DEF AnswersInv, Dated, Fetches
    <3>2. \A i \in DOMAIN fetching[u].todo : fetching[u].todo[i] \in Nat
      <4>1. DOMAIN fetching[u].todo = 1..Len(fetching[u].todo)
        BY <3>1, LenProperties
      <4> QED BY <3>1, <4>1, ElementOfSeq
    <3>3. \A i \in DOMAIN fetching[u].todo : fetching[u].todo[i] <= minted'
      BY <1>3, <3>1, <3>2 DEF DatedFetch
    <3> QED BY <1>1, <3>1, <3>3 DEF DatedFetch, Busy
  <2>2. DatedFetch(t)'
    BY <1>2 DEF DatedFetch
  <2>3. DatedProofs'
    BY <1>3 DEF AnswersInv, Dated, DatedProofs
  <2>4. DatedBoards'
    BY DEF AnswersInv, Dated, DatedBoards
  <2> QED BY <2>1, <2>2, <2>3, <2>4, DatedStep DEF AnswersInv
<1>5. AloneEvicts(t)' /\ AloneTrims(t)'
  BY <1>2 DEF AloneEvicts, AloneTrims, Trimming
<1>6. AloneStores(t)'
  <2>1. Shown(t)' = {}
    BY <1>2 DEF Shown
  <2>2. ASSUME Len(ids) = 2, NEW i \in DOMAIN cache.proofs PROVE cache.proofs[i] # ids[1]
    <3>1. cache.proofs[i] <= minted /\ cache.proofs[i] \in Nat /\ ids[1] > minted
      BY <1>3, <2>2 DEF AnswersInv, Dated, DatedProofs
    <3>2. ids[1] \in Nat
      <4>1. 1 \in 1 .. Len(ids)
        BY <2>2
      <4> QED BY <4>1, ElementOfSeq
    <3> QED BY <1>3, <3>1, <3>2
  <2> QED BY <1>2, <2>1, <2>2 DEF AloneStores
<1> QED BY <1>2, <1>4, <1>5, <1>6, AloneStep

LEMMA CollectAnswers ==
    ASSUME Boards!BoardsAssumption, AnswersInv, NEW t \in Callers,
           Boards!CollectFrontier(t) \/ Boards!CollectDeals(t), BoardsInv'
    PROVE  AnswersInv'
<1>1. Boards!Work(t) /\ UNCHANGED <<cache, minute, page>>
  BY DEF Boards!Work, Boards!CollectFrontier, Boards!CollectDeals
<1>2. /\ minted \in Nat /\ minute \in Nat /\ echo \in [until : Nat, id : Nat]
      /\ EchoTTL \in Nat /\ FreshUntil \in Nat
      /\ echo.id <= minted /\ echo.until <= FreshUntil
  BY DEF AnswersInv, BoardsInv, BoardsTyped, Dated, Boards!BoardsAssumption
<1>3. CASE Boards!CollectDeals(t)
  <2>1. PICK n \in 0 .. 2 : minted' = minted + n /\ Boards!Collected(t, [i \in 1 .. n |-> minted + i], 0)
    BY <1>3 DEF Boards!CollectDeals, Boards!PerBoard
  <2> DEFINE ids == [i \in 1 .. n |-> minted + i]
  <2>2. ids \in Seq(Nat) /\ Len(ids) = n /\ DOMAIN ids = 1 .. n /\ \A i \in 1 .. n : ids[i] = minted + i
    BY <1>2, <2>1, IsASeq
  <2> HIDE DEF ids
  <2>3. /\ \A i \in DOMAIN ids : ids[i] <= minted'
        /\ Len(ids) <= 2 /\ (Len(ids) = 2 => ids[1] > minted) /\ minted' >= minted
    BY <1>2, <2>1, <2>2
  <2>4. echo'.id <= minted' /\ echo'.until <= FreshUntil
    <3>1. echo' = echo
      BY <1>3 DEF Boards!CollectDeals
    <3> QED BY <1>2, <2>1, <3>1
  <2>5. Boards!Collected(t, ids, 0)
    BY <2>1 DEF ids
  <2> QED BY <1>1, <2>2, <2>3, <2>4, <2>5, CollectedAnswers
<1>4. CASE Boards!CollectFrontier(t)
  <2>1. PICK laneUp \in BOOLEAN, echoUp \in BOOLEAN :
           LET lane   == Boards!LaneFetched(laneUp)
               echoId == Boards!EchoFetched(echoUp, minted + Len(lane) + 1)
           IN  /\ minted' = minted + Len(lane) + (IF Boards!EchoLoads(echoUp) THEN 1 ELSE 0)
               /\ echo' = IF Boards!EchoLoads(echoUp) THEN Boards!EchoCached(echoId) ELSE echo
               /\ Boards!Collected(t, lane \o (IF echoId = 0 THEN <<>> ELSE <<echoId>>), echoId)
    BY <1>4 DEF Boards!CollectFrontier
  <2> DEFINE lane   == Boards!LaneFetched(laneUp)
             echoId == Boards!EchoFetched(echoUp, minted + Len(lane) + 1)
             tail   == IF echoId = 0 THEN <<>> ELSE <<echoId>>
             ids    == lane \o tail
  <2>2. /\ lane \in Seq(Nat) /\ Len(lane) \in {0, 1} /\ (Len(lane) = 1 => lane[1] = minted + 1)
        /\ DOMAIN lane = 1 .. Len(lane)
    <3>1. CASE laneUp
      <4>1. lane = <<minted + 1>> /\ minted + 1 \in Nat
        BY <1>2, <3>1 DEF Boards!LaneFetched
      <4> HIDE DEF lane
      <4> QED BY <4>1
    <3>2. CASE ~laneUp
      <4>1. lane = <<>>
        BY <3>2 DEF Boards!LaneFetched
      <4> HIDE DEF lane
      <4> QED BY <4>1
    <3> QED BY <3>1, <3>2
  <2>3. /\ minted' = minted + Len(lane) + (IF Boards!EchoLoads(echoUp) THEN 1 ELSE 0)
        /\ echo' = IF Boards!EchoLoads(echoUp) THEN Boards!EchoCached(echoId) ELSE echo
        /\ Boards!Collected(t, ids, echoId)
    BY <2>1
  <2> HIDE DEF lane
  <2>4. minted' \in Nat /\ minted' >= minted + Len(lane)
    BY <1>2, <2>2, <2>3
  <2>5. echoId \in Nat /\ echoId <= minted' /\ (echoId # 0 => minute < FreshUntil)
    <3>1. CASE echo.until > minute
      <4>1. echoId = echo.id
        BY <3>1 DEF Boards!EchoFetched
      <4>2. echo.id \in Nat /\ echo.until \in Nat
        BY <1>2
      <4> QED BY <1>2, <2>2, <2>4, <3>1, <4>1, <4>2
    <3>2. CASE ~(echo.until > minute) /\ Boards!EchoLoads(echoUp)
      <4>1. echoId = minted + Len(lane) + 1 /\ minted' = minted + Len(lane) + 1
        BY <2>3, <3>2 DEF Boards!EchoFetched
      <4>2. minute < FreshUntil
        BY <3>2 DEF Boards!EchoLoads
      <4> QED BY <1>2, <2>2, <4>1, <4>2
    <3>3. CASE ~(echo.until > minute) /\ ~Boards!EchoLoads(echoUp)
      <4>1. echoId = 0
        BY <3>3 DEF Boards!EchoFetched
      <4> QED BY <2>4, <4>1
    <3> QED BY <3>1, <3>2, <3>3
  <2>6. echo'.id <= minted' /\ echo'.until <= FreshUntil
    <3> HIDE DEF echoId
    <3>1. CASE echo' = echo
      BY <1>2, <2>2, <2>4, <3>1
    <3>2. CASE echo' = Boards!EchoCached(echoId) /\ echo' # echo
      <4>1. \E until \in {minute + EchoTTL, FreshUntil} :
              echo' = [until |-> until, id |-> echoId] /\ until <= FreshUntil
        BY <1>2, <3>2 DEF Boards!EchoCached
      <4> QED BY <2>5, <4>1
    <3> QED BY <2>3, <3>1, <3>2
  <2> HIDE DEF echoId
  <2>7. tail \in Seq(Nat) /\ Len(tail) \in {0, 1} /\ (Len(tail) = 1 => tail[1] = echoId) /\ DOMAIN tail = 1 .. Len(tail)
    <3>1. CASE echoId = 0
      <4>1. tail = <<>>
        BY <3>1
      <4> HIDE DEF tail
      <4> QED BY <4>1
    <3>2. CASE echoId # 0
      <4>1. tail = <<echoId>>
        BY <3>2
      <4> HIDE DEF tail
      <4> QED BY <2>5, <4>1
    <3> QED BY <3>1, <3>2
  <2> HIDE DEF tail
  <2>8. /\ ids \in Seq(Nat) /\ Len(ids) = Len(lane) + Len(tail) /\ DOMAIN ids = 1 .. Len(lane) + Len(tail)
        /\ \A k \in 1 .. Len(lane) + Len(tail) : ids[k] = IF k <= Len(lane) THEN lane[k] ELSE tail[k - Len(lane)]
    BY <2>2, <2>7, ConcatProperties
  <2> HIDE DEF ids
  <2>81. PICK a \in {0, 1}, b \in {0, 1} : a = Len(lane) /\ b = Len(tail)
    BY <2>2, <2>7
  <2>9. ASSUME NEW i \in DOMAIN ids PROVE ids[i] <= minted'
    <3>1. i \in 1 .. a + b /\ ids[i] = IF i <= a THEN lane[i] ELSE tail[i - a]
      BY <2>8, <2>81
    <3>2. CASE i <= a
      <4>1. a = 1 /\ i = 1
        BY <3>1, <3>2
      <4>2. ids[i] = minted + 1
        BY <2>2, <2>81, <3>1, <4>1
      <4> QED BY <1>2, <2>4, <2>81, <4>1, <4>2
    <3>3. CASE ~(i <= a)
      <4>1. i - a = 1 /\ b = 1
        BY <3>1, <3>3
      <4>2. ids[i] = echoId
        BY <2>7, <2>81, <3>1, <3>3, <4>1
      <4> QED BY <2>5, <4>2
    <3> QED BY <3>2, <3>3
  <2>10. Len(ids) <= 2 /\ (Len(ids) = 2 => ids[1] > minted)
    <3>1. Len(ids) = a + b
      BY <2>8, <2>81
    <3>2. ASSUME Len(ids) = 2 PROVE ids[1] > minted
      <4>1. a = 1 /\ 1 \in 1 .. a + b
        BY <3>1, <3>2
      <4>2. ids[1] = minted + 1
        BY <2>2, <2>8, <2>81, <4>1
      <4> QED BY <1>2, <4>2
    <3> QED BY <3>1, <3>2
  <2>11. minted' >= minted
    BY <1>2, <2>2, <2>4
  <2> QED BY <1>1, <2>3, <2>5, <2>6, <2>8, <2>9, <2>10, <2>11, CollectedAnswers
<1> QED BY <1>3, <1>4

\* A step of a request that is storing and stays so, with its receipts as they were.
LEMMA StaysBusy ==
    ASSUME AnswersInv, NEW t \in Callers, Boards!Work(t), BoardsInv', Busy(t),
           \A c \in Tables : \A i \in DOMAIN cache'[c] : \E j \in DOMAIN cache[c] : cache'[c][i] = cache[c][j],
           UNCHANGED <<minted, echo, minute, page>>,
           fetching'[t].todo = fetching[t].todo, fetching'[t].echo = fetching[t].echo,
           fetching'[t].alone = fetching[t].alone,
           fetching[t].alone => AloneEvicts(t)' /\ AloneTrims(t)' /\ AloneStores(t)'
    PROVE  AnswersInv'
<1>1. \A u \in Callers \ {t} : fetching'[u] = fetching[u]
  BY WorkMoves DEF AnswersInv
<1>2. Dated'
  BY <1>1, DatedQuiet DEF AnswersInv
<1> QED BY <1>2, AloneStep

\* While t is alone only it can trim, and before it does the proofs are within bounds.
LEMMA AloneIsWithin ==
    ASSUME Boards!BoardsAssumption, AnswersInv, NEW t \in Callers, fetching[t].alone, fetching[t].pc = "storing"
    PROVE  Len(cache.proofs) \in Nat /\ ProofLimit \in Nat /\ Len(cache.proofs) <= ProofLimit
<1>1. \A u \in Callers : ~GoesOn(u, "proofs")
  BY DEF AnswersInv, AloneStands, GoesOn
<1>2. Len(cache.proofs) \in Nat /\ ProofLimit \in Nat
  BY LenProperties DEF AnswersInv, BoardsInv, BoardsTyped, Boards!BoardsAssumption
<1>3. ~(Len(cache.proofs) > ProofLimit)
  BY <1>1 DEF AnswersInv, BoardsInv, Guarded, Boards!Limit
<1> QED BY <1>2, <1>3

LEMMA TrimMoreAnswers ==
    ASSUME Boards!BoardsAssumption, AnswersInv, NEW t \in Callers, Boards!TrimMore(t), BoardsInv'
    PROVE  AnswersInv'
<1>1. PICK c \in Tables : c = fetching[t].table
  BY DEF AnswersInv, BoardsInv, BoardsTyped, Fetches
<1>2. /\ fetching[t].pc = "trimming" /\ Len(cache[c]) > Boards!Limit[c]
      /\ fetching[t] \in Fetches /\ fetching \in [Callers -> Fetches]
      /\ UNCHANGED <<cache, echo, minted, minute, page>>
      /\ fetching' = [fetching EXCEPT ![t] = [@ EXCEPT !.pc = "iterating", !.size = Len(cache[c])]]
  BY <1>1 DEF Boards!TrimMore, Boards!At, AnswersInv, BoardsInv, BoardsTyped
<1>3. PICK n : n = Len(cache[c])
  OBVIOUS
<1>4. /\ fetching'[t].pc = "iterating" /\ fetching'[t].size = n /\ fetching'[t].table = c
      /\ fetching'[t].todo = fetching[t].todo /\ fetching'[t].ids = fetching[t].ids
      /\ fetching'[t].echo = fetching[t].echo /\ fetching'[t].alone = fetching[t].alone
  BY <1>1, <1>2, <1>3 DEF Fetches
<1>5. ASSUME fetching[t].alone PROVE AloneEvicts(t)' /\ AloneTrims(t)' /\ AloneStores(t)'
  <2>1. AloneStores(t) /\ AloneTrims(t)
    BY <1>2, <1>5 DEF AnswersInv, AloneStands, Busy
  <2>2. AloneEvicts(t)'
    BY <1>2, <1>3, <1>4 DEF AloneEvicts, Boards!Limit
  <2>3. AloneTrims(t)'
    BY <1>1, <1>2, <1>4, <2>1 DEF AloneTrims, Trimming, Shown
  <2>4. AloneStores(t)'
    BY <1>2, <1>4, <2>1 DEF AloneStores, Shown
  <2> QED BY <2>2, <2>3, <2>4
<1>6. Boards!Work(t) /\ Busy(t)
  BY <1>2 DEF Boards!Work, Busy
<1> QED BY <1>2, <1>4, <1>5, <1>6, StaysBusy

LEMMA PeekAnswers ==
    ASSUME Boards!BoardsAssumption, AnswersInv, NEW t \in Callers, Boards!PeekOldest(t), BoardsInv'
    PROVE  AnswersInv'
<1>1. PICK c \in Tables : c = fetching[t].table
  BY DEF AnswersInv, BoardsInv, BoardsTyped, Fetches
<1>2. /\ fetching[t].pc = "iterating" /\ Len(cache[c]) = fetching[t].size
      /\ fetching[t] \in Fetches /\ fetching \in [Callers -> Fetches]
      /\ UNCHANGED <<cache, echo, minted, minute, page>>
      /\ fetching' = [fetching EXCEPT ![t] = [@ EXCEPT !.pc = "evicting",
                          !.victim = {Boards!KeyOf(c, Boards!Victim(t))}]]
  BY <1>1 DEF Boards!PeekOldest, Boards!At, AnswersInv, BoardsInv, BoardsTyped
<1>3. PICK k : k = {Boards!KeyOf(c, Boards!Victim(t))}
  OBVIOUS
<1>4. /\ fetching'[t].pc = "evicting" /\ fetching'[t].victim = k /\ fetching'[t].table = c
      /\ fetching'[t].todo = fetching[t].todo /\ fetching'[t].ids = fetching[t].ids
      /\ fetching'[t].echo = fetching[t].echo /\ fetching'[t].alone = fetching[t].alone
  BY <1>1, <1>2, <1>3 DEF Fetches
<1>5. k = {Boards!KeyOf(c, cache[c][1])}
  <2>1. PICK s \in Seq(Entries(c)) : s = cache[c] /\ Len(s) > 0
    BY <1>2 DEF AnswersInv, BoardsInv, BoardsTyped, Tables
  <2>2. Head(s) = s[1]
    BY <2>1
  <2> QED BY <1>1, <1>3, <2>1, <2>2 DEF Boards!Victim
<1>6. ASSUME fetching[t].alone PROVE AloneEvicts(t)' /\ AloneTrims(t)' /\ AloneStores(t)'
  <2>1. AloneStores(t) /\ AloneTrims(t) /\ AloneEvicts(t)
    BY <1>2, <1>6 DEF AnswersInv, AloneStands, Busy
  <2>2. AloneEvicts(t)'
    <3>1. Len(cache[c]) > Boards!Limit[c]
      BY <1>1, <1>2, <2>1 DEF AloneEvicts
    <3>2. cache'[c][1] = cache[c][1] /\ Len(cache'[c]) > Boards!Limit[c]
      BY <1>2, <3>1
    <3> QED BY <1>4, <1>5, <3>2 DEF AloneEvicts, Boards!Limit
  <2>3. AloneTrims(t)'
    BY <1>1, <1>2, <1>4, <2>1 DEF AloneTrims, Trimming, Shown
  <2>4. AloneStores(t)'
    BY <1>2, <1>4, <2>1 DEF AloneStores, Shown
  <2> QED BY <2>2, <2>3, <2>4
<1>7. Boards!Work(t) /\ Busy(t)
  BY <1>2 DEF Boards!Work, Busy
<1> QED BY <1>2, <1>4, <1>6, <1>7, StaysBusy

LEMMA StoredAnswers ==
    ASSUME Boards!BoardsAssumption, AnswersInv, NEW t \in Callers, Boards!TrimDone(t),
           fetching[t].table = "proofs", BoardsInv'
    PROVE  AnswersInv'
<1>1. /\ fetching[t].pc = "trimming" /\ fetching[t] \in Fetches /\ fetching \in [Callers -> Fetches]
      /\ UNCHANGED <<cache, echo, minted, minute, page>>
      /\ fetching' = [fetching EXCEPT ![t] = [@ EXCEPT !.pc = "storing"]]
  BY DEF Boards!TrimDone, Boards!Goto, Boards!At, AnswersInv, BoardsInv, BoardsTyped
<1>2. /\ fetching'[t].pc = "storing"
      /\ fetching'[t].todo = fetching[t].todo /\ fetching'[t].ids = fetching[t].ids
      /\ fetching'[t].echo = fetching[t].echo /\ fetching'[t].alone = fetching[t].alone
  BY <1>1 DEF Fetches
<1>3. ASSUME fetching[t].alone PROVE AloneEvicts(t)' /\ AloneTrims(t)' /\ AloneStores(t)'
  <2>1. AloneStores(t)
    BY <1>1, <1>3 DEF AnswersInv, AloneStands, Busy
  <2>2. AloneStores(t)'
    BY <1>1, <1>2, <2>1 DEF AloneStores, Shown
  <2> QED BY <1>2, <2>2 DEF AloneEvicts, AloneTrims, Trimming
<1>4. Boards!Work(t) /\ Busy(t)
  BY <1>1 DEF Boards!Work, Busy
<1> QED BY <1>1, <1>2, <1>3, <1>4, StaysBusy

\* What is evicted while t is alone is none of the receipts t shows.
LEMMA EvictAnswers ==
    ASSUME Boards!BoardsAssumption, AnswersInv, NEW t \in Callers, Boards!Evict(t), BoardsInv'
    PROVE  AnswersInv'
<1>1. PICK c \in Tables : c = fetching[t].table
  BY DEF AnswersInv, BoardsInv, BoardsTyped, Fetches
<1>2. PICK d, s : d = cache[c] /\ s = Boards!Without(c, fetching[t].victim)
  OBVIOUS
<1>3. /\ fetching[t].pc = "evicting" /\ fetching[t] \in Fetches /\ fetching \in [Callers -> Fetches]
      /\ UNCHANGED <<echo, minted, minute, page>>
      /\ cache' = [cache EXCEPT ![c] = s]
      /\ fetching' = [fetching EXCEPT ![t] = [@ EXCEPT !.pc = "trimming"]]
  BY <1>1, <1>2 DEF Boards!Evict, Boards!Goto, Boards!At, AnswersInv, BoardsInv, BoardsTyped
<1>4. /\ fetching'[t].pc = "trimming" /\ fetching'[t].table = c
      /\ fetching'[t].todo = fetching[t].todo /\ fetching'[t].ids = fetching[t].ids
      /\ fetching'[t].echo = fetching[t].echo /\ fetching'[t].alone = fetching[t].alone
  BY <1>1, <1>3 DEF Fetches
<1>5. /\ d \in Seq(Entries(c)) /\ cache[c] \in Seq(Entries(c)) /\ DistinctIn(c, cache[c])
      /\ DOMAIN d = 1 .. Len(d) /\ Len(d) \in Nat
      /\ cache'[c] = s /\ \A e \in Tables \ {c} : cache'[e] = cache[e]
      /\ ProofLimit \in Nat /\ ProofLimit >= 2 /\ BoardLimit \in Nat
  <2>1. cache \in [proofs : Seq(Entries("proofs")), boards : Seq(Entries("boards"))]
    BY DEF AnswersInv, BoardsInv, BoardsTyped
  <2>2. cache[c] \in Seq(Entries(c)) /\ cache'[c] = s /\ \A e \in Tables \ {c} : cache'[e] = cache[e]
    BY <1>3, <2>1 DEF Tables
  <2>3. DistinctIn(c, cache[c])
    BY PublicTypeParts DEF AnswersInv, BoardsInv, Tables
  <2> QED BY <1>2, <2>2, <2>3, LenProperties DEF Boards!BoardsAssumption, Boards!PerBoard
<1>6. \A e \in Tables : \A i \in DOMAIN cache'[e] : \E j \in DOMAIN cache[e] : cache'[e][i] = cache[e][j]
  BY <1>2, <1>5, WithoutHas
<1>7. ASSUME fetching[t].alone PROVE AloneEvicts(t)' /\ AloneTrims(t)' /\ AloneStores(t)'
  <2>1. AloneStores(t) /\ AloneTrims(t) /\ AloneEvicts(t)
    BY <1>3, <1>7 DEF AnswersInv, AloneStands, Busy
  <2>2. /\ Len(cache[c]) > Boards!Limit[c] /\ Boards!Limit[c] \in Nat
        /\ s = Boards!Without(c, {Boards!KeyOf(c, cache[c][1])})
    <3>1. /\ Len(cache[c]) > Boards!Limit[c]
          /\ fetching[t].victim = {Boards!KeyOf(c, cache[c][1])}
      BY <1>1, <1>3, <2>1 DEF AloneEvicts
    <3>2. Boards!Limit[c] \in Nat
      BY <1>5 DEF Boards!Limit, Tables
    <3> QED BY <1>2, <3>1, <3>2
  <2>3. Len(cache[c]) > 0
    BY <1>2, <1>5, <2>2
  <2>4. s \in Seq(Entries(c)) /\ Len(s) = Len(d) - 1 /\ \A k \in 1..(Len(d) - 1) : s[k] = d[k + 1]
    <3>1. s \in Seq(Entries(c)) /\ Len(s) = Len(cache[c]) - 1
          /\ \A k \in 1..(Len(cache[c]) - 1) : s[k] = cache[c][k + 1]
      BY <1>5, <2>2, <2>3, OldestPopped
    <3> QED BY <1>2, <3>1
  <2>5. DOMAIN s = 1 .. Len(s)
    BY <2>4, LenProperties
  <2>6. Shown(t)' = Shown(t)
    BY <1>4 DEF Shown
  <2>7. AloneEvicts(t)'
    BY <1>4 DEF AloneEvicts
  <2>8. CASE c = "boards"
    <3>1. cache'.proofs = cache.proofs
      BY <1>5, <2>8 DEF Tables
    <3>2. AloneTrims(t)'
      BY <1>1, <1>3, <1>4, <2>1, <2>8 DEF AloneTrims, Trimming
    <3>3. AloneStores(t)'
      BY <1>3, <1>4, <2>1, <2>6, <3>1 DEF AloneStores
    <3> QED BY <2>7, <3>2, <3>3
  <2>9. CASE c = "proofs"
    <3>1. cache'.proofs = s /\ cache.proofs = d
      BY <1>2, <1>5, <2>9
    <3>2. Len(d) <= ProofLimit + 1 /\ Len(d) > ProofLimit /\ d[1] \notin Shown(t)
      BY <1>1, <1>3, <2>1, <2>2, <2>9, <3>1 DEF AloneTrims, Trimming, Boards!Limit
    <3>3. Len(s) = ProofLimit /\ ~(Len(s) > ProofLimit) /\ Len(s) <= ProofLimit + 1
      <4>0. PICK n \in Nat : n = Len(d) /\ n <= ProofLimit + 1 /\ n > ProofLimit
        BY <1>5, <3>2
      <4>1. Len(d) = ProofLimit + 1
        <5>1. ProofLimit \in Nat
          BY <1>5
        <5> QED BY ONLY n \in Nat, <4>0, <5>1
      <4>2. Len(s) = ProofLimit
        BY <1>5, <2>4, <4>1
      <4> QED BY <1>5, <4>2
    <3>4. AloneTrims(t)'
      BY <1>4, <2>9, <3>1, <3>3 DEF AloneTrims, Trimming
    <3>5. ASSUME NEW r \in Shown(t) PROVE \E i \in DOMAIN s : s[i] = r
      <4>1. PICK i \in 1 .. Len(d) : d[i] = r
        BY <1>5, <2>1, <3>1 DEF AloneStores
      <4>2. i # 1
        BY <3>2, <4>1
      <4>3. i - 1 \in 1 .. (Len(d) - 1) /\ i - 1 \in 1 .. Len(s) /\ (i - 1) + 1 = i
        BY <1>5, <2>4, <4>1, <4>2
      <4>4. s[i - 1] = d[(i - 1) + 1]
        BY <2>4, <4>3
      <4> QED BY <2>5, <4>1, <4>3, <4>4
    <3>6. s[Len(s)] = d[Len(d)]
      <4>1. Len(s) \in 1 .. (Len(d) - 1) /\ Len(s) + 1 = Len(d)
        BY <1>5, <2>4, <3>2
      <4>2. s[Len(s)] = d[Len(s) + 1]
        BY <2>4, <4>1
      <4> QED BY <4>1, <4>2
    <3>7. AloneStores(t)'
      <4>1. Len(fetching[t].todo) <= 2 /\ ~(Len(fetching[t].todo) = 2)
        BY <1>3, <2>1 DEF AloneStores
      <4> QED BY <1>4, <2>1, <2>6, <3>1, <3>5, <3>6, <4>1 DEF AloneStores
    <3> QED BY <2>7, <3>4, <3>7
  <2> QED BY <2>8, <2>9 DEF Tables
<1>8. Boards!Work(t) /\ Busy(t)
  BY <1>3 DEF Boards!Work, Busy
<1> QED BY <1>3, <1>4, <1>6, <1>7, <1>8, StaysBusy

\* A board goes into its dictionary when all its receipts are in theirs.
LEMMA InsertBoardAnswers ==
    ASSUME Boards!BoardsAssumption, AnswersInv, NEW t \in Callers, Boards!InsertBoard(t), BoardsInv'
    PROVE  AnswersInv'
<1> DEFINE e == [key |-> fetching[t].key, until |-> minute + BoardTTL, ids |-> fetching[t].ids,
                 echo |-> fetching[t].echo]
<1>1. PICK s : s = Boards!Put("boards", e)
  OBVIOUS
<1>2. /\ fetching[t].pc = "storing" /\ fetching[t].todo = <<>>
      /\ fetching[t] \in Fetches /\ fetching \in [Callers -> Fetches]
      /\ fetching[t].key \in Boards!Keys
      /\ UNCHANGED <<echo, minted, minute, page>>
      /\ cache' = [cache EXCEPT !.boards = s]
      /\ fetching' = [fetching EXCEPT ![t] = [@ EXCEPT !.pc = "trimming", !.table = "boards"]]
  BY <1>1 DEF Boards!InsertBoard, Boards!At, AnswersInv, BoardsInv, BoardsTyped
<1>3. /\ fetching'[t].pc = "trimming" /\ fetching'[t].table = "boards"
      /\ fetching'[t].todo = fetching[t].todo /\ fetching'[t].ids = fetching[t].ids
      /\ fetching'[t].echo = fetching[t].echo /\ fetching'[t].alone = fetching[t].alone
  BY <1>2 DEF Fetches
<1>4. /\ cache.boards \in Seq(Entries("boards"))
      /\ cache'.boards = s /\ cache'.proofs = cache.proofs
      /\ minute \in Nat /\ BoardTTL \in Nat /\ FreshUntil \in Nat
  BY <1>2 DEF AnswersInv, BoardsInv, BoardsTyped, Boards!BoardsAssumption
<1>5. e \in Entries("boards")
  BY <1>2, <1>4 DEF Entries, Fetches
<1>6. DatedBoards'
  <2>1. ASSUME NEW i \in DOMAIN s, s[i].echo PROVE s[i].until < FreshUntil + BoardTTL
    <3>1. s[i] = e \/ \E j \in DOMAIN cache.boards : s[i] = cache.boards[j]
      BY <1>1, <1>4, <1>5, PutHas DEF Tables
    <3>2. CASE s[i] = e
      <4>1. fetching[t].echo /\ s[i].until = minute + BoardTTL
        BY <2>1, <3>2
      <4>2. minute < FreshUntil
        BY <1>2, <4>1 DEF AnswersInv, Dated, DatedFetch, Busy
      <4> QED BY <1>4, <4>1, <4>2
    <3>3. CASE \E j \in DOMAIN cache.boards : s[i] = cache.boards[j]
      BY <2>1, <3>3 DEF AnswersInv, Dated, DatedBoards
    <3> QED BY <3>1, <3>2, <3>3
  <2> QED BY <1>4, <2>1 DEF DatedBoards
<1> HIDE DEF e
<1>7. Boards!Work(t) /\ Busy(t)
  BY <1>2 DEF Boards!Work, Busy, Boards!InsertBoard
<1>8. \A u \in Callers \ {t} : fetching'[u] = fetching[u]
  BY <1>7, WorkMoves DEF AnswersInv
<1>9. Dated'
  <2>1. \A u \in Callers : DatedFetch(u)
    BY DEF AnswersInv, Dated
  <2>2. \A u \in Callers \ {t} : DatedFetch(u)'
    BY <1>2, <1>8, <2>1 DEF DatedFetch, Busy
  <2>3. DatedFetch(t)'
    BY <1>2, <1>3, <1>7, <2>1 DEF DatedFetch
  <2>4. DatedProofs' /\ echo'.id <= minted' /\ echo'.until <= FreshUntil
    BY <1>2, <1>4 DEF AnswersInv, Dated, DatedProofs
  <2> QED BY <1>2, <1>6, <2>2, <2>3, <2>4, DatedStep DEF AnswersInv
<1>10. ASSUME fetching[t].alone PROVE AloneEvicts(t)' /\ AloneTrims(t)' /\ AloneStores(t)'
  <2>1. AloneStores(t)
    BY <1>7, <1>10 DEF AnswersInv, AloneStands
  <2>2. AloneEvicts(t)' /\ AloneTrims(t)'
    BY <1>2, <1>3 DEF AloneEvicts, AloneTrims, Trimming
  <2>3. AloneStores(t)'
    <3>1. Len(fetching'[t].todo) = 0 /\ Shown(t)' = Shown(t)
      BY <1>2, <1>3 DEF Shown
    <3> QED BY <1>4, <2>1, <3>1 DEF AloneStores
  <2> QED BY <2>2, <2>3
<1> QED BY <1>3, <1>7, <1>9, <1>10, AloneStep

\* A receipt goes to the end of the dictionary, or is there already as the last of its
\* board; the oldest, which may be evicted next, is none of the board's either way.
LEMMA InsertReceiptAnswers ==
    ASSUME Boards!BoardsAssumption, AnswersInv, NEW t \in Callers, Boards!InsertReceipt(t), BoardsInv'
    PROVE  AnswersInv'
<1>1. PICK q, d, e, s : q = fetching[t].todo /\ d = cache.proofs /\ e = Head(q) /\ s = Boards!Put("proofs", e)
  OBVIOUS
<1>2. /\ fetching[t].pc = "storing" /\ q # <<>>
      /\ fetching[t] \in Fetches /\ fetching \in [Callers -> Fetches]
      /\ UNCHANGED <<echo, minted, minute, page>>
      /\ cache' = [cache EXCEPT !.proofs = s]
      /\ fetching' = [fetching EXCEPT ![t] = [@ EXCEPT !.todo = Tail(q), !.pc = "trimming", !.table = "proofs"]]
  BY <1>1 DEF Boards!InsertReceipt, Boards!At, AnswersInv, BoardsInv, BoardsTyped
<1>3. PICK rest : rest = Tail(q)
  OBVIOUS
<1>4. /\ fetching'[t].pc = "trimming" /\ fetching'[t].table = "proofs"
      /\ fetching'[t].todo = rest /\ fetching'[t].ids = fetching[t].ids
      /\ fetching'[t].echo = fetching[t].echo /\ fetching'[t].alone = fetching[t].alone
  BY <1>2, <1>3 DEF Fetches
<1>5. /\ q \in Seq(Nat) /\ Len(q) \in Nat /\ Len(q) > 0 /\ DOMAIN q = 1 .. Len(q)
      /\ e = q[1] /\ e \in Nat /\ rest \in Seq(Nat) /\ Len(rest) = Len(q) - 1 /\ DOMAIN rest = 1 .. Len(rest)
      /\ \A i \in 1 .. Len(rest) : rest[i] = q[i + 1]
  <2>1. q \in Seq(Nat)
    BY <1>1, <1>2 DEF Fetches
  <2>2. rest \in Seq(Nat) /\ Len(rest) = Len(q) - 1 /\ (\A i \in 1 .. Len(rest) : rest[i] = q[i + 1]) /\ e = q[1]
    BY <1>1, <1>2, <1>3, <2>1, HeadTailProperties
  <2>3. Len(q) \in Nat /\ Len(q) > 0 /\ DOMAIN q = 1 .. Len(q) /\ DOMAIN rest = 1 .. Len(rest)
    BY <1>2, <2>1, <2>2, LenProperties
  <2> QED BY <2>1, <2>2, <2>3, ElementOfSeq
<1>6. /\ d \in Seq(Nat) /\ Len(d) \in Nat /\ DOMAIN d = 1 .. Len(d)
      /\ cache'.proofs = s /\ cache'.boards = cache.boards
      /\ minted \in Nat /\ ProofLimit \in Nat /\ ProofLimit >= 2
  BY <1>1, <1>2, LenProperties
     DEF AnswersInv, BoardsInv, BoardsTyped, Entries, Boards!BoardsAssumption, Boards!PerBoard
<1>7. \/ s = d /\ \E i \in DOMAIN d : d[i] = e
      \/ s = Append(d, e) /\ \A i \in DOMAIN d : d[i] # e
  BY <1>1, <1>5, <1>6, PutProof
<1>8. Boards!Work(t) /\ Busy(t)
  BY <1>2 DEF Boards!Work, Busy, Boards!InsertReceipt
<1>9. \A u \in Callers \ {t} : fetching'[u] = fetching[u]
  BY <1>8, WorkMoves DEF AnswersInv
<1>10. Dated'
  <2>1. (\A u \in Callers : DatedFetch(u)) /\ DatedProofs
    BY DEF AnswersInv, Dated
  <2>2. \A u \in Callers \ {t} : DatedFetch(u)'
    BY <1>2, <1>9, <2>1 DEF DatedFetch, Busy
  <2>3. \A i \in 1 .. Len(rest) : i + 1 \in 1 .. Len(q)
    BY <1>5
  <2>4. DatedFetch(t)'
    BY <1>1, <1>2, <1>4, <1>5, <1>8, <2>1, <2>3 DEF DatedFetch
  <2>5. e <= minted
    BY <1>1, <1>5, <2>1 DEF DatedFetch
  <2>6. DatedProofs'
    <3>1. \A i \in DOMAIN s : s[i] = e \/ \E j \in DOMAIN cache.proofs : s[i] = cache.proofs[j]
      <4>1. PICK c \in Tables : c = "proofs"
        BY DEF Tables
      <4>2. cache[c] \in Seq(Nat) /\ s = Boards!Put(c, e) /\ e \in Nat
        BY <1>1, <1>5, <1>6, <4>1
      <4>3. \A i \in DOMAIN s : s[i] = e \/ \E j \in DOMAIN cache[c] : s[i] = cache[c][j]
        BY <4>2, PutHas
      <4> QED BY <4>1, <4>3
    <3> QED BY <1>2, <1>6, <2>1, <2>5, <3>1 DEF DatedProofs
  <2>7. DatedBoards' /\ echo'.id <= minted' /\ echo'.until <= FreshUntil
    BY <1>2, <1>6 DEF AnswersInv, Dated, DatedBoards
  <2> QED BY <1>2, <2>2, <2>4, <2>6, <2>7, DatedStep DEF AnswersInv
<1>11. ASSUME fetching[t].alone PROVE AloneEvicts(t)' /\ AloneTrims(t)' /\ AloneStores(t)'
  <2>1. AloneStores(t) /\ Len(d) <= ProofLimit
    BY <1>1, <1>2, <1>8, <1>11, AloneIsWithin DEF AnswersInv, AloneStands
  <2>2. AloneEvicts(t)'
    BY <1>4 DEF AloneEvicts
  <2>3. PICK old, new : old = Shown(t) /\ new = Shown(t)'
    OBVIOUS
  <2>4. \A r \in new : r \in old \/ r = e
    <3>1. ASSUME NEW r \in new, r \notin old PROVE r = e
      <4>1. r \in fetching[t].ids /\ ~(\E i \in DOMAIN rest : rest[i] = r) /\ \E i \in DOMAIN q : q[i] = r
        BY <1>1, <1>4, <2>3, <3>1 DEF Shown
      <4>2. PICK i \in 1 .. Len(q) : q[i] = r
        BY <1>5, <4>1
      <4>3. ASSUME i # 1 PROVE FALSE
        <5>1. i - 1 \in 1 .. Len(rest) /\ (i - 1) + 1 = i
          BY <1>5, <4>3
        <5>2. rest[i - 1] = q[(i - 1) + 1]
          BY <1>5, <5>1
        <5> QED BY <1>5, <4>1, <4>2, <5>1, <5>2
      <4> QED BY <1>5, <4>2, <4>3
    <3> QED BY <3>1
  <2>5. /\ \A r \in old : \E i \in 1 .. Len(d) : d[i] = r
        /\ Len(q) <= 2
        /\ Len(q) = 2 => old = {} /\ \A i \in 1 .. Len(d) : d[i] # e
        /\ Len(q) = 1 => \A r \in old : r = d[Len(d)]
    BY <1>1, <1>5, <1>6, <2>1, <2>3 DEF AloneStores
  <2>6. Len(rest) \in {0, 1} /\ (Len(rest) = 1 => Len(q) = 2) /\ (Len(q) = 1 \/ Len(q) = 2)
    <3>1. Len(q) \in Nat /\ Len(q) > 0 /\ Len(q) <= 2 /\ Len(rest) = Len(q) - 1
      BY <1>5, <2>5
    <3> QED BY ONLY <3>1
  <2>7. CASE s = d /\ \E i \in DOMAIN d : d[i] = e
    <3>1. Len(q) # 2 /\ Len(rest) = 0
      BY <1>6, <2>5, <2>6, <2>7
    <3>2. \A r \in new : \E i \in DOMAIN s : s[i] = r
      BY <1>6, <2>4, <2>5, <2>7
    <3>3. AloneStores(t)'
      BY <1>4, <1>6, <2>3, <3>1, <3>2 DEF AloneStores
    <3>4. ~(Len(s) > ProofLimit) /\ Len(s) <= ProofLimit + 1
      BY <1>6, <2>1, <2>7
    <3>5. AloneTrims(t)'
      BY <1>4, <1>6, <3>4 DEF AloneTrims, Trimming
    <3> QED BY <2>2, <3>3, <3>5
  <2>8. CASE s = Append(d, e) /\ \A i \in DOMAIN d : d[i] # e
    <3>1. /\ Len(s) = Len(d) + 1 /\ DOMAIN s = 1 .. Len(d) + 1 /\ s[Len(d) + 1] = e
          /\ \A i \in 1 .. Len(d) : s[i] = d[i]
      BY <1>5, <1>6, <2>8, AppendProperties
    <3>2. \A r \in new : \E i \in DOMAIN s : s[i] = r
      <4>1. Len(d) + 1 \in DOMAIN s /\ \A i \in 1 .. Len(d) : i \in DOMAIN s
        BY <1>6, <3>1
      <4> QED BY <2>4, <2>5, <3>1, <4>1
    <3>3. Len(rest) = 1 => \A r \in new : r = s[Len(s)]
      BY <2>4, <2>5, <2>6, <3>1
    <3>4. AloneStores(t)'
      <4>1. Len(rest) <= 2 /\ ~(Len(rest) = 2)
        <5>1. PICK m \in {0, 1} : m = Len(rest)
          BY <2>6
        <5>2. m <= 2 /\ m # 2
          OBVIOUS
        <5> QED BY <5>1, <5>2
      <4> QED BY <1>4, <1>6, <2>3, <3>2, <3>3, <4>1 DEF AloneStores
    <3>5. Len(s) <= ProofLimit + 1
      BY <1>6, <2>1, <3>1
    <3>6. ASSUME Len(s) > ProofLimit PROVE s[1] \notin new
      <4>1. Len(d) >= 2 /\ 1 \in 1 .. Len(d) /\ Len(d) \in 1 .. Len(d) /\ Len(d) # 1
        <5>1. PICK n \in Nat : n = Len(d) /\ n + 1 > ProofLimit
          BY <1>6, <3>1, <3>6
        <5>2. n >= 2 /\ 1 \in 1 .. n /\ n \in 1 .. n /\ n # 1
          BY <1>6, <5>1
        <5> QED BY <5>1, <5>2
      <4>2. s[1] = d[1] /\ d[1] # e
        BY <1>6, <2>8, <3>1, <4>1
      <4>3. d[1] # d[Len(d)]
        <5>1. DistinctIn("proofs", d)
          BY <1>1, PublicTypeParts DEF AnswersInv, BoardsInv
        <5> QED BY <1>6, <4>1, <5>1 DEF DistinctIn, Boards!KeyOf
      <4>4. d[1] \notin old
        BY <2>5, <2>6, <4>3
      <4> QED BY <2>4, <4>2, <4>4
    <3>7. AloneTrims(t)'
      BY <1>4, <1>6, <2>3, <3>5, <3>6 DEF AloneTrims, Trimming
    <3> QED BY <2>2, <3>4, <3>7
  <2> QED BY <1>7, <2>7, <2>8
<1> QED BY <1>4, <1>8, <1>10, <1>11, AloneStep

\* A request asks: the rest of what is said of it is of the beginning.
LEMMA AskAnswers ==
    ASSUME AnswersInv, NEW t \in Callers, NEW k \in Boards!Keys, Boards!Ask(t, k), BoardsInv'
    PROVE  AnswersInv'
<1> DEFINE quiet == \A u \in Callers \ {t} : Boards!At(u, "idle")
<1>1. /\ fetching[t].pc = "idle" /\ UNCHANGED <<cache, echo, minted, minute>>
      /\ page' = [page EXCEPT ![t] = Boards!NoAnswer]
  BY DEF Boards!Ask, Boards!At
<1>2. fetching' = [u \in Callers |-> IF u # t THEN [fetching[u] EXCEPT !.alone = FALSE]
                         ELSE [Boards!Idle EXCEPT !.pc = "looking", !.key = k, !.alone = quiet]]
  BY Zenon DEF Boards!Ask
<1>3. \A u \in Callers : fetching[u] \in Fetches
  BY DEF AnswersInv, BoardsInv, BoardsTyped
<1> HIDE DEF quiet
<1>4. fetching'[t] = [Boards!Idle EXCEPT !.pc = "looking", !.key = k, !.alone = quiet]
  BY <1>2
<1>5. /\ fetching'[t].pc = "looking" /\ fetching'[t].todo = <<>> /\ fetching'[t].echo = FALSE
      /\ fetching'[t].alone = quiet
  BY <1>4 DEF Boards!Idle
<1>6. ASSUME NEW u \in Callers \ {t}
      PROVE  /\ fetching'[u].pc = fetching[u].pc /\ fetching'[u].todo = fetching[u].todo
             /\ fetching'[u].echo = fetching[u].echo /\ fetching'[u].alone = FALSE
  <2>1. fetching'[u] = [fetching[u] EXCEPT !.alone = FALSE]
    BY <1>2
  <2> QED BY <1>3, <2>1 DEF Fetches
<1>7. Dated'
  BY <1>1, <1>5, <1>6, DatedQuiet DEF AnswersInv, Tables
<1>8. ASSUME NEW u \in Callers, fetching'[u].alone PROVE AloneStands(u)'
  <2>1. u = t
    BY <1>6, <1>8
  <2>2. \A v \in Callers \ {t} : fetching'[v].pc = "idle"
    BY <1>5, <1>6, <1>8, <2>1 DEF quiet, Boards!At
  <2>3. AloneEvicts(t)' /\ AloneTrims(t)' /\ ~Busy(t)'
    BY <1>5 DEF AloneEvicts, AloneTrims, Trimming, Busy
  <2> QED BY <2>1, <2>2, <2>3 DEF AloneStands
<1> QED BY <1>7, <1>8 DEF AnswersInv

LEMMA TickAnswers ==
    ASSUME AnswersInv, Boards!Tick, BoardsInv' PROVE AnswersInv'
<1>1. /\ UNCHANGED <<cache, echo, fetching, page, minted>>
      /\ \A t \in Callers : ~Busy(t)
  BY DEF Boards!Tick, Busy
<1>2. Dated'
  BY <1>1 DEF AnswersInv, Dated, DatedProofs, DatedBoards, DatedFetch, Busy
<1>3. ASSUME NEW t \in Callers, fetching'[t].alone PROVE AloneStands(t)'
  <2>1. AloneStands(t)
    BY <1>1, <1>3 DEF AnswersInv
  <2> QED BY <1>1, <2>1 DEF AloneStands, AloneEvicts, AloneTrims, AloneStores, Trimming, Busy, Shown
<1> QED BY <1>2, <1>3 DEF AnswersInv

LEMMA LookingAnswers ==
    ASSUME AnswersInv, NEW t \in Callers, Boards!Miss(t) \/ Boards!DropExpired(t) \/ Boards!Admit(t), BoardsInv'
    PROVE  AnswersInv'
<1>1. Boards!Work(t) /\ UNCHANGED <<minted, echo, minute, page>>
  BY DEF Boards!Work, Boards!Miss, Boards!DropExpired, Boards!Admit
<1>2. PICK pc1 \in {"dropping", "admitting", "collecting"} : Boards!Goto(t, pc1)
  BY DEF Boards!Miss, Boards!DropExpired, Boards!Admit
<1>3. \A c \in Tables : \A i \in DOMAIN cache'[c] : \E j \in DOMAIN cache[c] : cache'[c][i] = cache[c][j]
  <2>1. CASE cache' = cache
    BY <2>1
  <2>2. CASE Boards!DropExpired(t)
    <3>0. PICK c \in Tables : c = "boards"
      BY DEF Tables
    <3>1. PICK s : c = "boards" /\ s = Boards!Without(c, {fetching[t].key})
      BY <3>0
    <3>2. /\ cache[c] \in Seq(Entries(c)) /\ cache'[c] = s
          /\ \A d \in Tables \ {c} : cache'[d] = cache[d]
      <4>1. cache' = [cache EXCEPT ![c] = s]
        BY <2>2, <3>1 DEF Boards!DropExpired
      <4> QED BY <3>1, <4>1 DEF AnswersInv, BoardsInv, BoardsTyped, Tables
    <3>3. \A i \in DOMAIN s : \E j \in DOMAIN cache[c] : s[i] = cache[c][j]
      BY <3>1, <3>2, WithoutHas
    <3> QED BY <3>2, <3>3
  <2> QED BY <2>1, <2>2 DEF Boards!Miss, Boards!Admit
<1> QED BY <1>1, <1>2, <1>3, GoesAnswers

\* What the request that ends was told, if it was alone; and what it may have been told
\* of ECHO.
Verified(t) ==
    Boards!Ends(t) /\ fetching[t].alone
      => /\ page'[t].result # "error"
         /\ page'[t].result = "fresh" => page'[t].ids \subseteq Boards!ToSet(cache'.proofs)
Recent(t) ==
    Boards!Ends(t) /\ page'[t].result = "cached" /\ page'[t].echo => minute < FreshUntil + BoardTTL

\* A step that does not end the request says nothing of it.
LEMMA GoesOnSilently ==
    ASSUME NEW t, fetching'[t].pc # "idle" PROVE Verified(t) /\ Recent(t)
  BY DEF Verified, Recent, Boards!Ends

LEMMA HitAnswers ==
    ASSUME Boards!BoardsAssumption, AnswersInv, NEW t \in Callers, Boards!Hit(t), BoardsInv'
    PROVE  AnswersInv' /\ Verified(t) /\ Recent(t)
<1>1. PICK e \in Boards!Cached(fetching[t].key) : e.until > minute /\ Boards!Answer(t, "cached", e.ids, e.echo)
  BY DEF Boards!Hit
<1>2. PICK i \in DOMAIN cache.boards : e = cache.boards[i]
  BY DEF Boards!Cached, Boards!ToSet
<1>3. AnswersInv' /\ page'[t] = [result |-> "cached", ids |-> e.ids, echo |-> e.echo]
  <2>1. Boards!Work(t) /\ UNCHANGED <<cache, minted, echo, minute>>
    BY DEF Boards!Work, Boards!Hit
  <2> QED BY <1>1, <2>1, AnsweredAnswers
<1>4. Verified(t)
  BY <1>3 DEF Verified
<1>5. ASSUME e.echo PROVE minute < FreshUntil + BoardTTL
  <2>1. e.until < FreshUntil + BoardTTL
    BY <1>2, <1>5 DEF AnswersInv, Dated, DatedBoards
  <2>2. e.until \in Nat /\ minute \in Nat /\ FreshUntil + BoardTTL \in Nat
    <3>1. cache.boards \in Seq(Entries("boards")) /\ minute \in Nat
      BY DEF AnswersInv, BoardsInv, BoardsTyped
    <3>2. e \in Entries("boards")
      <4>1. i \in 1 .. Len(cache.boards)
        BY <3>1, LenProperties
      <4> QED BY <1>2, <3>1, <4>1, ElementOfSeq
    <3> QED BY <3>1, <3>2 DEF Entries, Boards!BoardsAssumption
  <2> QED BY <1>1, <2>1, <2>2
<1>6. Recent(t)
  BY <1>3, <1>5 DEF Recent
<1> QED BY <1>3, <1>4, <1>6

\* Whom the dictionaries fail was not alone.
LEMMA FailsAnswers ==
    ASSUME Boards!BoardsAssumption, AnswersInv, NEW t \in Callers, BoardsInv',
           Boards!RefuseBusy(t) \/ Boards!CollectFails(t) \/ Boards!PeekFails(t) \/ Boards!EvictFails(t)
    PROVE  AnswersInv' /\ Verified(t) /\ Recent(t)
<1>1. PICK r \in {"busy", "sources", "error"} :
         /\ Boards!Answer(t, r, {}, FALSE)
         /\ r = "error" => Boards!PeekFails(t) \/ Boards!EvictFails(t)
  BY DEF Boards!RefuseBusy, Boards!CollectFails, Boards!PeekFails, Boards!EvictFails
<1>2. AnswersInv' /\ page'[t] = [result |-> r, ids |-> {}, echo |-> FALSE]
  <2>1. Boards!Work(t) /\ UNCHANGED <<cache, minted, echo, minute>>
    BY DEF Boards!Work, Boards!RefuseBusy, Boards!CollectFails, Boards!PeekFails, Boards!EvictFails
  <2>2. PICK i, b : i = {} /\ b = FALSE
    OBVIOUS
  <2>3. Boards!Answer(t, r, i, b)
    BY <1>1, <2>2
  <2>4. AnswersInv' /\ page'[t] = [result |-> r, ids |-> i, echo |-> b]
    BY <2>1, <2>3, AnsweredAnswers
  <2> QED BY <2>2, <2>4
<1>3. ASSUME fetching[t].alone PROVE ~Boards!PeekFails(t) /\ ~Boards!EvictFails(t)
  <2>1. AloneEvicts(t)
    BY <1>3 DEF AnswersInv, AloneStands
  <2>2. ~Boards!PeekFails(t)
    BY <2>1 DEF AloneEvicts, Boards!PeekFails, Boards!At
  <2>3. ASSUME Boards!EvictFails(t) PROVE FALSE
    <3>1. PICK c \in Tables : c = fetching[t].table
      BY DEF AnswersInv, BoardsInv, BoardsTyped, Fetches
    <3>2. Len(cache[c]) > Boards!Limit[c] /\ fetching[t].victim = {Boards!KeyOf(c, cache[c][1])}
      BY <2>1, <2>3, <3>1 DEF AloneEvicts, Boards!EvictFails, Boards!At
    <3>3. ~Boards!Holds(t)
      BY <2>3 DEF Boards!EvictFails
    <3>4. 1 \in DOMAIN cache[c]
      <4>1. cache[c] \in Seq(Entries(c)) /\ Boards!Limit[c] \in Nat
        BY DEF AnswersInv, BoardsInv, BoardsTyped, Tables, Boards!Limit, Boards!BoardsAssumption
      <4>2. Len(cache[c]) \in Nat /\ DOMAIN cache[c] = 1 .. Len(cache[c])
        BY <4>1, LenProperties
      <4> QED BY <3>2, <4>1, <4>2
    <3> QED BY <3>1, <3>2, <3>3, <3>4 DEF Boards!Holds, Boards!ToSet
  <2> QED BY <2>2, <2>3
<1>4. Verified(t)
  BY <1>1, <1>2, <1>3 DEF Verified
<1>5. Recent(t)
  BY <1>2 DEF Recent
<1> QED BY <1>2, <1>4, <1>5

\* A fresh board is answered when its dictionary is trimmed.
LEMMA FreshAnswers ==
    ASSUME AnswersInv, NEW t \in Callers, Boards!TrimDone(t), fetching[t].table = "boards", BoardsInv'
    PROVE  AnswersInv' /\ Verified(t) /\ Recent(t)
<1>1. /\ Boards!Answer(t, "fresh", fetching[t].ids, fetching[t].echo) /\ fetching[t].pc = "trimming"
      /\ UNCHANGED <<cache, minted, echo, minute>> /\ Boards!Work(t)
  BY DEF Boards!TrimDone, Boards!At, Boards!Work
<1>2. AnswersInv' /\ page'[t] = [result |-> "fresh", ids |-> fetching[t].ids, echo |-> fetching[t].echo]
  BY <1>1, AnsweredAnswers
<1>3. ASSUME fetching[t].alone PROVE fetching[t].ids \subseteq Boards!ToSet(cache'.proofs)
  <2>1. AloneTrims(t) /\ AloneStores(t)
    BY <1>1, <1>3 DEF AnswersInv, AloneStands, Busy
  <2>2. fetching[t].todo = <<>>
    BY <1>1, <2>1 DEF AloneTrims, Trimming
  <2>3. Shown(t) = fetching[t].ids
    BY <2>2 DEF Shown
  <2> QED BY <1>1, <2>1, <2>3 DEF AloneStores, Boards!ToSet
<1>4. Verified(t)
  BY <1>2, <1>3 DEF Verified
<1>5. Recent(t)
  BY <1>2 DEF Recent
<1> QED BY <1>2, <1>4, <1>5

LEMMA AnswersWork ==
    ASSUME Boards!BoardsAssumption, AnswersInv, NEW t \in Callers, Boards!Work(t), BoardsInv'
    PROVE  AnswersInv' /\ \A u \in Callers : Verified(u) /\ Recent(u)
<1>1. ASSUME AnswersInv', Verified(t), Recent(t)
      PROVE  AnswersInv' /\ \A u \in Callers : Verified(u) /\ Recent(u)
  <2>1. ASSUME NEW u \in Callers \ {t} PROVE Verified(u) /\ Recent(u)
    <3>1. fetching'[u] = fetching[u]
      BY WorkMoves DEF AnswersInv
    <3> QED BY <3>1 DEF Verified, Recent, Boards!Ends
  <2> QED BY <1>1, <2>1
<1>2. CASE Boards!Hit(t)
  BY <1>1, <1>2, HitAnswers
<1>3. CASE Boards!RefuseBusy(t) \/ Boards!CollectFails(t) \/ Boards!PeekFails(t) \/ Boards!EvictFails(t)
  BY <1>1, <1>3, FailsAnswers
<1>4. CASE Boards!TrimDone(t) /\ fetching[t].table = "boards"
  BY <1>1, <1>4, FreshAnswers
<1>5. ASSUME AnswersInv', \E w \in Fetches : w.pc # "idle" /\ fetching'[t] = w
      PROVE  AnswersInv' /\ \A u \in Callers : Verified(u) /\ Recent(u)
  <2>1. Verified(t) /\ Recent(t)
    BY <1>5, GoesOnSilently
  <2> QED BY <1>1, <1>5, <2>1
<1>6. fetching[t] \in Fetches /\ fetching \in [Callers -> Fetches] /\ fetching' \in [Callers -> Fetches]
  BY DEF AnswersInv, BoardsInv, BoardsTyped
<1>7. CASE Boards!Miss(t) \/ Boards!DropExpired(t) \/ Boards!Admit(t)
  <2>1. PICK pc1 \in {"dropping", "admitting", "collecting"} : Boards!Goto(t, pc1)
    BY <1>7 DEF Boards!Miss, Boards!DropExpired, Boards!Admit
  <2>2. fetching'[t].pc # "idle"
    BY <1>6, <2>1 DEF Boards!Goto, Fetches
  <2> QED BY <1>5, <1>6, <1>7, <2>2, LookingAnswers
<1>8. CASE Boards!CollectFrontier(t) \/ Boards!CollectDeals(t)
  <2>1. \E ids, id : Boards!Collected(t, ids, id)
    BY <1>8 DEF Boards!CollectFrontier, Boards!CollectDeals
  <2>2. fetching'[t].pc # "idle"
    BY <1>6, <2>1 DEF Boards!Collected, Fetches
  <2> QED BY <1>5, <1>6, <1>8, <2>2, CollectAnswers
<1>9. CASE Boards!TrimDone(t) /\ fetching[t].table # "boards"
  <2>1. fetching[t].table = "proofs"
    BY <1>6, <1>9 DEF Fetches, Tables
  <2>2. fetching'[t].pc # "idle"
    BY <1>6, <1>9 DEF Boards!TrimDone, Boards!Goto, Fetches
  <2> QED BY <1>5, <1>6, <1>9, <2>1, <2>2, StoredAnswers
<1>10. CASE Boards!InsertReceipt(t) \/ Boards!InsertBoard(t) \/ Boards!TrimMore(t) \/ Boards!PeekOldest(t)
            \/ Boards!Evict(t)
  <2>1. fetching'[t].pc # "idle"
    BY <1>6, <1>10
       DEF Boards!InsertReceipt, Boards!InsertBoard, Boards!TrimMore, Boards!PeekOldest, Boards!Evict,
           Boards!Goto, Fetches
  <2>2. AnswersInv'
    BY <1>10, InsertReceiptAnswers, InsertBoardAnswers, TrimMoreAnswers, PeekAnswers, EvictAnswers
  <2> QED BY <1>5, <1>6, <2>1, <2>2
<1> QED BY <1>2, <1>3, <1>4, <1>7, <1>8, <1>9, <1>10 DEF Boards!Work

\* The answers of the anonymous boards (server.py, frontier_sources.py): a request
\* nobody overlapped is never failed by the caches, and the fresh board it gets shows
\* only receipts /api/verify then finds; and no board shows ECHO records more than one
\* board TTL after their snapshot stopped being fresh.  For any number of request
\* threads, queries, bounds and lifetimes: while a request is alone the dictionary of
\* receipts grows at its end by receipts of its own, so with room for the receipts of
\* one board the entry evicted is never one of them.
THEOREM BoardsTellTheTruth ==
    ASSUME Boards!BoardsAssumption
    PROVE  Boards!Spec => BoardsAnswerTruly
<1>1. Boards!Init => AnswersInv
  <2> SUFFICES ASSUME Boards!Init PROVE AnswersInv
    OBVIOUS
  <2>1. /\ cache = [proofs |-> <<>>, boards |-> <<>>] /\ echo = [until |-> 0, id |-> 0]
        /\ fetching = [u \in Callers |-> Boards!Idle] /\ page = [u \in Callers |-> Boards!NoAnswer]
        /\ minted = 0 /\ FreshUntil \in Nat
    BY DEF Boards!Init, Boards!NoEcho, Boards!BoardsAssumption
  <2>2. \A u \in Callers : fetching[u].pc = "idle" /\ fetching[u].todo = <<>> /\ ~fetching[u].alone
    BY <2>1 DEF Boards!Idle
  <2>3. Dated
    BY <2>1, <2>2 DEF Dated, DatedProofs, DatedBoards, DatedFetch, Busy
  <2> QED BY <2>2, <2>3, BoardsInit DEF AnswersInv
<1>2. AnswersInv /\ [Boards!Next]_(Boards!vars)
        => AnswersInv' /\ \A t \in Callers : Verified(t) /\ Recent(t)
  <2> SUFFICES ASSUME AnswersInv, [Boards!Next]_(Boards!vars)
               PROVE  AnswersInv' /\ \A t \in Callers : Verified(t) /\ Recent(t)
    OBVIOUS
  <2>1. BoardsInv'
    BY BoardsStep DEF AnswersInv
  <2>2. ASSUME NEW t \in Callers, Boards!Work(t)
        PROVE  AnswersInv' /\ \A u \in Callers : Verified(u) /\ Recent(u)
    BY <2>1, <2>2, AnswersWork
  <2>3. ASSUME NEW t \in Callers, NEW k \in Boards!Keys, Boards!Ask(t, k)
        PROVE  AnswersInv' /\ \A u \in Callers : Verified(u) /\ Recent(u)
    <3>1. AnswersInv'
      BY <2>1, <2>3, AskAnswers
    <3>2. ASSUME NEW u \in Callers PROVE ~Boards!Ends(u)
      <4>1. fetching[t].pc = "idle" /\ fetching[u] \in Fetches
        BY <2>3 DEF Boards!Ask, Boards!At, AnswersInv, BoardsInv, BoardsTyped
      <4>2. CASE u = t
        BY <4>1, <4>2 DEF Boards!Ends
      <4>3. CASE u # t
        <5>1. fetching'[u] = [fetching[u] EXCEPT !.alone = FALSE]
          BY <2>3, <4>3 DEF Boards!Ask
        <5> QED BY <4>1, <5>1 DEF Fetches, Boards!Ends
      <4> QED BY <4>2, <4>3
    <3> QED BY <3>1, <3>2 DEF Verified, Recent
  <2>4. CASE Boards!Tick
    <3>1. AnswersInv'
      BY <2>1, <2>4, TickAnswers
    <3>2. fetching' = fetching
      BY <2>4 DEF Boards!Tick
    <3> QED BY <3>1, <3>2 DEF Verified, Recent, Boards!Ends
  <2>5. CASE UNCHANGED Boards!vars
    <3>1. UNCHANGED <<cache, echo, fetching, page, minted, minute>>
      BY <2>5 DEF Boards!vars
    <3>2. AnswersInv'
      BY <2>1, <3>1 DEF AnswersInv, Dated, DatedProofs, DatedBoards, DatedFetch, AloneStands, AloneEvicts,
                        AloneTrims, AloneStores, Trimming, Busy, Shown
    <3> QED BY <3>1, <3>2 DEF Verified, Recent, Boards!Ends
  <2> QED BY <2>2, <2>3, <2>4, <2>5 DEF Boards!Next
<1>3. (\A t \in Callers : Verified(t) /\ Recent(t))
        => /\ \A t \in Callers :
                Boards!Ends(t) /\ fetching[t].alone
                  => /\ page'[t].result # "error"
                     /\ page'[t].result = "fresh" => page'[t].ids \subseteq Boards!ToSet(cache'.proofs)
           /\ \A t \in Callers :
                Boards!Ends(t) /\ page'[t].result = "cached" /\ page'[t].echo
                  => minute < FreshUntil + BoardTTL
  BY DEF Verified, Recent
<1> QED BY <1>1, <1>2, <1>3, PTL
        DEF Boards!Spec, BoardsAnswerTruly, Boards!AloneRequestsVerify, Boards!CachedEchoIsRecent

-----------------------------------------------------------------------------
\* The work loops and the receipt lake.  A loop that has steps to take has moved
\* further than its threshold so far; and the lake is, for each request, the count of
\* its steps.
Lines    == [index : Nat, score : Nat, delta : Nat]
Receipts == [request : Callers, kind : {"event", "loop"}, index : Nat]
Loops    == [pc : {"idle", "step", "receipt", "answered", "failed"}, budget : Int,
             threshold : Int, curve : Seq(Nat), score : Nat, steps : Seq(Lines),
             exit : {"none", "converged", "budgetExhausted"}]

Quiet(l) == {k \in 2 .. Len(l.steps) : l.steps[k].delta <= l.threshold}

LoopStands(l) ==
    /\ l.pc = "idle" => l.steps = <<>>
    /\ l.pc = "step" => Quiet(l) = {} /\ Len(l.steps) < l.budget /\ l.budget <= Len(l.curve)
    /\ l.pc \in {"receipt", "answered"} =>
         /\ l.exit = "converged" => Quiet(l) = {Len(l.steps)}
         /\ l.exit = "budgetExhausted" =>
              Quiet(l) = {} /\ Len(l.steps) = IF l.budget > 0 THEN l.budget ELSE 0

LoopsInv ==
    /\ loop \in [Callers -> Loops] /\ lake \in Seq(Receipts)
    /\ \A t \in Callers : LoopStands(loop[t])
    /\ Work!LakeIsWhatTheLoopsDid

\* A receipt that is appended changes nothing that was on record.
LEMMA AppendedLands ==
    ASSUME lake \in Seq(Receipts), NEW e \in Receipts, lake' = Append(lake, e)
    PROVE  /\ lake' \in Seq(Receipts)
           /\ DOMAIN lake = 1 .. Len(lake) /\ DOMAIN lake' = 1 .. Len(lake) + 1
           /\ \A p \in 1 .. Len(lake) : lake'[p] = lake[p]
           /\ lake'[Len(lake) + 1] = e
           /\ Len(lake) \in Nat
  BY AppendProperties

LEMMA MineGrows ==
    ASSUME lake \in Seq(Receipts), NEW e \in Receipts, lake' = Append(lake, e), NEW t
    PROVE  /\ e.request # t => Work!Mine(t)' = Work!Mine(t)
           /\ e.request = t => Work!Mine(t)' = Work!Mine(t) \cup {Len(lake) + 1}
           /\ \A p \in Work!Mine(t) : p \in 1 .. Len(lake) /\ lake'[p] = lake[p]
<1>1. /\ DOMAIN lake = 1 .. Len(lake) /\ DOMAIN lake' = 1 .. Len(lake) + 1
      /\ \A p \in 1 .. Len(lake) : lake'[p] = lake[p]
      /\ lake'[Len(lake) + 1] = e
      /\ Len(lake) \in Nat
  BY AppendedLands
<1>2. 1 .. Len(lake) + 1 = (1 .. Len(lake)) \cup {Len(lake) + 1}
  BY <1>1
<1> QED BY <1>1, <1>2 DEF Work!Mine

LastIndex(l) == IF l.pc = "answered" THEN Len(l.steps) ELSE Len(l.steps) - 1

\* What is on record of one request.
OnRecord(t) ==
    /\ {lake[p].index : p \in Work!Mine(t)} = 0 .. LastIndex(loop[t])
    /\ \A p, q \in Work!Mine(t) : p < q => lake[p].index < lake[q].index
    /\ \A p \in Work!Mine(t) :
          lake[p].kind = IF lake[p].index < Len(loop[t].steps) THEN "event" ELSE "loop"

LEMMA LakeByRequest ==
    Work!LakeIsWhatTheLoopsDid <=>
      /\ \A p \in DOMAIN lake : lake[p].request \in Callers
      /\ \A t \in Callers : OnRecord(t)
  BY DEF Work!LakeIsWhatTheLoopsDid, OnRecord, LastIndex

\* A request whose own trace and receipts stay has the same on record.
LEMMA OthersOnRecord ==
    ASSUME NEW t \in Callers, OnRecord(t),
           \A p \in Work!Mine(t) : lake'[p] = lake[p], Work!Mine(t)' = Work!Mine(t),
           loop'[t].steps = loop[t].steps, LastIndex(loop'[t]) = LastIndex(loop[t])
    PROVE  OnRecord(t)'
  BY DEF OnRecord

\* The next receipt of a request goes to the end of its record.
LEMMA NextOnRecord ==
    ASSUME LoopsInv, NEW t \in Callers, NEW e \in Receipts, lake' = Append(lake, e),
           e.request = t, e.index = Len(loop[t].steps), loop[t].pc \in {"step", "receipt"},
           NEW n \in Nat, n = Len(loop'[t].steps), n \in {e.index, e.index + 1},
           LastIndex(loop'[t]) = e.index, e.kind = IF e.index < n THEN "event" ELSE "loop"
    PROVE  OnRecord(t)'
<1>1. PICK k \in Nat : k = Len(lake)
  BY AppendedLands DEF LoopsInv
<1>2. PICK M : M = Work!Mine(t)
  OBVIOUS
<1>3. /\ Work!Mine(t)' = M \cup {k + 1}
      /\ \A p \in M : p \in 1 .. k /\ lake'[p] = lake[p]
  BY <1>1, <1>2, MineGrows DEF LoopsInv
<1>4. lake'[k + 1] = e
  BY <1>1, AppendedLands DEF LoopsInv
<1>5. /\ {lake[p].index : p \in M} = 0 .. e.index - 1
      /\ \A p, q \in M : p < q => lake[p].index < lake[q].index
      /\ \A p \in M : lake[p].kind = IF lake[p].index < e.index THEN "event" ELSE "loop"
  BY <1>2, LakeByRequest DEF LoopsInv, OnRecord, LastIndex
<1>6. e.index \in Nat
  BY DEF Receipts
<1>7. \A p \in M : lake[p].index \in 0 .. e.index - 1
  BY <1>5
<1>8. {lake'[p].index : p \in M \cup {k + 1}} = 0 .. e.index
  <2>1. 0 .. e.index = (0 .. e.index - 1) \cup {e.index}
    BY <1>6
  <2>2. {lake'[p].index : p \in M \cup {k + 1}} = {lake'[p].index : p \in M} \cup {e.index}
    BY <1>4
  <2>3. {lake'[p].index : p \in M} = {lake[p].index : p \in M}
    BY <1>3
  <2> QED BY <1>5, <2>1, <2>2, <2>3
<1>9. \A p, q \in M \cup {k + 1} : p < q => lake'[p].index < lake'[q].index
  <2> SUFFICES ASSUME NEW p \in M \cup {k + 1}, NEW q \in M \cup {k + 1}, p < q
               PROVE  lake'[p].index < lake'[q].index
    OBVIOUS
  <2>1. p \in M
    BY <1>1, <1>3
  <2>2. CASE q \in M
    BY <1>3, <1>5, <2>1, <2>2
  <2>3. CASE q = k + 1
    <3>1. PICK i, j : i = e.index /\ j = lake[p].index
      OBVIOUS
    <3>2. i \in Nat /\ j \in 0 .. i - 1
      BY <1>6, <1>7, <2>1, <3>1
    <3>3. lake'[p].index = j /\ lake'[q].index = i
      BY <1>3, <1>4, <2>1, <2>3, <3>1
    <3> QED BY <3>2, <3>3
  <2> QED BY <2>2, <2>3
<1>10. \A p \in M \cup {k + 1} : lake'[p].kind = IF lake'[p].index < n THEN "event" ELSE "loop"
  <2> SUFFICES ASSUME NEW p \in M \cup {k + 1}
               PROVE  lake'[p].kind = IF lake'[p].index < n THEN "event" ELSE "loop"
    OBVIOUS
  <2>1. CASE p \in M
    <3>1. PICK i, j : i = e.index /\ j = lake[p].index
      OBVIOUS
    <3>2. i \in Nat /\ j \in 0 .. i - 1 /\ n \in {i, i + 1}
      BY <1>6, <1>7, <2>1, <3>1
    <3>3. j < i /\ j < n
      BY <3>2
    <3>4. lake[p].kind = "event"
      BY <1>5, <2>1, <3>1, <3>3
    <3> QED BY <1>3, <2>1, <3>1, <3>3, <3>4
  <2>2. CASE p = k + 1
    BY <1>4, <2>2
  <2> QED BY <2>1, <2>2
<1> QED BY <1>3, <1>8, <1>9, <1>10 DEF OnRecord

-----------------------------------------------------------------------------
\* A loop that begins; one that fails or answers; and one that takes a step.
LEMMA BeginWorkKeeps ==
    ASSUME Work!WorkAssumption, LoopsInv, NEW r \in Callers, Work!BeginWork(r)
    PROVE  LoopsInv'
<1>1. PICK b \in Budgets, t \in Thresholds, c \in Curves :
        loop' = [loop EXCEPT ![r] = [Work!Idle EXCEPT
                    !.pc = IF b > 0 THEN "step" ELSE "receipt", !.budget = b, !.threshold = t,
                    !.curve = c, !.score = c[1],
                    !.exit = IF b > 0 THEN "none" ELSE "budgetExhausted"]]
  BY DEF Work!BeginWork
<1>2. PICK l : l = [Work!Idle EXCEPT
                    !.pc = IF b > 0 THEN "step" ELSE "receipt", !.budget = b, !.threshold = t,
                    !.curve = c, !.score = c[1],
                    !.exit = IF b > 0 THEN "none" ELSE "budgetExhausted"]
  OBVIOUS
<1>3. b \in Int /\ t \in Int /\ c \in Seq(Nat) /\ Len(c) >= b /\ Len(c) > 0 /\ Len(c) \in Nat
  BY LenProperties DEF Work!WorkAssumption
<1>4. c[1] \in Nat
  BY <1>3, ElementOfSeq
<1>5. <<>> \in Seq(Lines) /\ Len(<<>>) = 0
  BY EmptySeq
<1>6. /\ l.steps = <<>> /\ l.budget = b /\ l.curve = c
      /\ l.pc = IF b > 0 THEN "step" ELSE "receipt"
      /\ l.exit = IF b > 0 THEN "none" ELSE "budgetExhausted"
  BY <1>2 DEF Work!Idle
<1>7. l \in Loops
  BY <1>2, <1>3, <1>4, <1>5 DEF Loops, Work!Idle
<1>8. Quiet(l) = {}
  BY <1>5, <1>6 DEF Quiet
<1>9. LoopStands(l)
  BY <1>3, <1>5, <1>6, <1>8 DEF LoopStands
<1>10. loop' = [loop EXCEPT ![r] = l] /\ lake' = lake
  BY <1>1, <1>2 DEF Work!BeginWork
<1>11. loop' \in [Callers -> Loops] /\ \A u \in Callers : LoopStands(loop'[u])
  BY <1>7, <1>9, <1>10 DEF LoopsInv
<1>12. loop[r].pc = "idle" /\ loop[r].steps = <<>>
  BY DEF Work!BeginWork, LoopsInv, LoopStands
<1>13. ASSUME NEW u \in Callers PROVE OnRecord(u)'
  <2>1. OnRecord(u) /\ Work!Mine(u)' = Work!Mine(u)
    BY <1>10, LakeByRequest DEF LoopsInv, Work!Mine
  <2>2. loop'[u].steps = loop[u].steps /\ LastIndex(loop'[u]) = LastIndex(loop[u])
    BY <1>6, <1>10, <1>12 DEF LoopsInv, LastIndex
  <2> QED BY <1>10, <2>1, <2>2, OthersOnRecord
<1>14. Work!LakeIsWhatTheLoopsDid'
  BY <1>10, <1>13, LakeByRequest DEF LoopsInv, OnRecord, LastIndex, Work!LakeIsWhatTheLoopsDid
<1> QED BY <1>10, <1>11, <1>14 DEF LoopsInv

LEMMA FailKeeps ==
    ASSUME LoopsInv, NEW r \in Callers, Work!Fail(r)
    PROVE  LoopsInv'
<1>1. PICK l : l = [loop[r] EXCEPT !.pc = "failed"]
  OBVIOUS
<1>2. loop' = [loop EXCEPT ![r] = l] /\ lake' = lake /\ loop[r].pc = "step" /\ loop[r] \in Loops
  BY <1>1 DEF Work!Fail, LoopsInv
<1>3. l \in Loops /\ l.pc = "failed" /\ l.steps = loop[r].steps
  BY <1>1, <1>2 DEF Loops
<1>4. loop' \in [Callers -> Loops] /\ \A u \in Callers : LoopStands(loop'[u])
  BY <1>2, <1>3 DEF LoopsInv, LoopStands
<1>5. ASSUME NEW u \in Callers PROVE OnRecord(u)'
  <2>1. OnRecord(u) /\ Work!Mine(u)' = Work!Mine(u)
    BY <1>2, LakeByRequest DEF LoopsInv, Work!Mine
  <2>2. loop'[u].steps = loop[u].steps /\ LastIndex(loop'[u]) = LastIndex(loop[u])
    BY <1>2, <1>3 DEF LoopsInv, LastIndex
  <2> QED BY <1>2, <2>1, <2>2, OthersOnRecord
<1>6. Work!LakeIsWhatTheLoopsDid'
  BY <1>2, <1>5, LakeByRequest DEF LoopsInv, OnRecord, LastIndex, Work!LakeIsWhatTheLoopsDid
<1> QED BY <1>2, <1>4, <1>6 DEF LoopsInv

\* What Step and Finish have in common: a receipt of r goes on record.
LEMMA RecordingKeeps ==
    ASSUME LoopsInv, NEW r \in Callers, NEW e \in Receipts, lake' = Append(lake, e),
           e.request = r, e.index = Len(loop[r].steps), loop[r].pc \in {"step", "receipt"},
           NEW l \in Loops, loop' = [loop EXCEPT ![r] = l], LoopStands(l),
           Len(l.steps) \in {e.index, e.index + 1}, LastIndex(l) = e.index,
           e.kind = IF e.index < Len(l.steps) THEN "event" ELSE "loop"
    PROVE  LoopsInv'
<1>1. loop' \in [Callers -> Loops] /\ \A u \in Callers : LoopStands(loop'[u])
  BY DEF LoopsInv
<1>2. /\ lake' \in Seq(Receipts)
      /\ \A p \in DOMAIN lake' : lake'[p].request \in Callers
  <2>1. lake' \in Seq(Receipts)
    BY AppendedLands DEF LoopsInv
  <2>2. ASSUME NEW p \in DOMAIN lake' PROVE lake'[p].request \in Callers
    <3>1. PICK s : s = lake'
      OBVIOUS
    <3>2. s \in Seq(Receipts) /\ p \in 1 .. Len(s)
      BY <2>1, <2>2, <3>1, LenProperties
    <3>3. s[p] \in Receipts
      BY <3>2, ElementOfSeq
    <3> QED BY <3>1, <3>3 DEF Receipts
  <2> QED BY <2>1, <2>2
<1>3. OnRecord(r)'
  <2>1. PICK n : n = Len(l.steps)
    OBVIOUS
  <2>2. n \in Nat
    BY <2>1, LenProperties DEF Loops
  <2>3. loop'[r] = l
    BY DEF LoopsInv
  <2> QED BY <2>1, <2>2, <2>3, NextOnRecord
<1>4. ASSUME NEW u \in Callers, u # r PROVE OnRecord(u)'
  <2>1. /\ Work!Mine(u)' = Work!Mine(u)
        /\ \A p \in Work!Mine(u) : lake'[p] = lake[p]
    BY <1>4, MineGrows DEF LoopsInv
  <2>2. loop'[u] = loop[u]
    BY <1>4 DEF LoopsInv
  <2>3. OnRecord(u)
    BY LakeByRequest DEF LoopsInv
  <2> QED BY <2>1, <2>2, <2>3, OthersOnRecord
<1>5. \A u \in Callers : OnRecord(u)'
  BY <1>3, <1>4
<1>6. Work!LakeIsWhatTheLoopsDid'
  BY <1>2, <1>5, LakeByRequest DEF OnRecord, LastIndex, Work!LakeIsWhatTheLoopsDid
<1> QED BY <1>1, <1>2, <1>6 DEF LoopsInv

LEMMA FinishKeeps ==
    ASSUME LoopsInv, NEW r \in Callers, Work!Finish(r)
    PROVE  LoopsInv'
<1>1. PICK l : l = [loop[r] EXCEPT !.pc = "answered"]
  OBVIOUS
<1>2. PICK e : e = [request |-> r, kind |-> "loop", index |-> Len(loop[r].steps)]
  OBVIOUS
<1>3. /\ loop' = [loop EXCEPT ![r] = l] /\ lake' = Append(lake, e)
      /\ loop[r].pc = "receipt" /\ loop[r] \in Loops /\ LoopStands(loop[r])
  BY <1>1, <1>2 DEF Work!Finish, Work!Appended, LoopsInv
<1>4. /\ l \in Loops /\ l.pc = "answered" /\ l.steps = loop[r].steps /\ l.exit = loop[r].exit
      /\ l.budget = loop[r].budget /\ l.threshold = loop[r].threshold
  BY <1>1, <1>3 DEF Loops
<1>5. LoopStands(l)
  BY <1>3, <1>4 DEF LoopStands, Quiet
<1>6. Len(loop[r].steps) \in Nat
  BY <1>3, LenProperties DEF Loops
<1>7. e \in Receipts /\ e.request = r /\ e.index = Len(loop[r].steps) /\ e.kind = "loop"
  BY <1>2, <1>6 DEF Receipts
<1>8. LastIndex(l) = e.index /\ Len(l.steps) = e.index /\ ~(e.index < Len(l.steps))
  BY <1>4, <1>6, <1>7 DEF LastIndex
<1> QED BY <1>3, <1>4, <1>5, <1>7, <1>8, RecordingKeeps

LEMMA StepKeeps ==
    ASSUME LoopsInv, NEW r \in Callers, Work!Step(r)
    PROVE  LoopsInv'
<1>1. PICK l, n : l = loop[r] /\ n = Len(l.steps)
  OBVIOUS
<1>2. l \in Loops /\ LoopStands(l) /\ l.pc = "step"
  BY <1>1 DEF LoopsInv, Work!Step
<1>3. n \in Nat /\ l.steps \in Seq(Lines)
  BY <1>1, <1>2, LenProperties DEF Loops
<1>4. Quiet(l) = {} /\ n < l.budget /\ l.budget <= Len(l.curve) /\ l.budget \in Int
      /\ l.threshold \in Int /\ l.score \in Nat /\ l.curve \in Seq(Nat)
  BY <1>1, <1>2 DEF LoopStands, Loops
<1>5. PICK score : score = l.curve[n + 1]
  OBVIOUS
<1>6. score \in Nat
  <2>1. n + 1 \in 1 .. Len(l.curve)
    BY <1>3, <1>4, LenProperties
  <2> QED BY <1>4, <1>5, <2>1, ElementOfSeq
<1>7. PICK delta : delta = IF n = 0 THEN 0 ELSE Work!Magnitude(l.score, score)
  OBVIOUS
<1>8. delta \in Nat
  BY <1>4, <1>6, <1>7 DEF Work!Magnitude
<1>9. PICK line : line = [index |-> n, score |-> score, delta |-> delta]
  OBVIOUS
<1>10. PICK steps : steps = Append(l.steps, line)
  OBVIOUS
<1>11. PICK x : x = Work!Exit(l, delta)
  OBVIOUS
<1>12. PICK m : m = [l EXCEPT !.score = score, !.steps = steps, !.exit = x,
                             !.pc = IF x = "none" THEN "step" ELSE "receipt"]
  OBVIOUS
<1>13. PICK e : e = [request |-> r, kind |-> "event", index |-> n]
  OBVIOUS
<1>14. loop' = [loop EXCEPT ![r] = m] /\ lake' = Append(lake, e)
  BY <1>1, <1>5, <1>7, <1>9, <1>10, <1>11, <1>12, <1>13 DEF Work!Step, Work!Appended
<1>15. line \in Lines /\ line.delta = delta
  BY <1>3, <1>6, <1>8, <1>9 DEF Lines
<1>16. /\ steps \in Seq(Lines) /\ Len(steps) = n + 1 /\ steps[n + 1] = line
       /\ \A k \in 1 .. n : steps[k] = l.steps[k]
  BY <1>1, <1>3, <1>10, <1>15, AppendProperties
<1>17. /\ x \in {"none", "converged", "budgetExhausted"}
       /\ x = "converged" <=> n > 0 /\ delta <= l.threshold
       /\ x = "none" => n + 1 # l.budget
       /\ x = "budgetExhausted" => n + 1 = l.budget
  BY <1>1, <1>11 DEF Work!Exit, Work!Converged
<1>18. m \in Loops
  BY <1>2, <1>6, <1>12, <1>16, <1>17 DEF Loops
<1>19. /\ m.steps = steps /\ m.exit = x /\ m.budget = l.budget /\ m.threshold = l.threshold
       /\ m.curve = l.curve /\ m.pc = IF x = "none" THEN "step" ELSE "receipt"
  BY <1>2, <1>12 DEF Loops
<1>20. Quiet(m) = IF x = "converged" THEN {n + 1} ELSE {}
  <2>1. \A k \in 2 .. n : ~(steps[k].delta <= l.threshold)
    <3>1. {k \in 2 .. n : l.steps[k].delta <= l.threshold} = {}
      BY <1>1, <1>4 DEF Quiet
    <3>2. \A k \in 2 .. n : k \in 1 .. n
      BY <1>3
    <3> QED BY <1>16, <3>1, <3>2
  <2>2. steps[n + 1].delta = delta
    BY <1>15, <1>16
  <2>3. \A k : k \in 2 .. n + 1 <=> n > 0 /\ (k \in 2 .. n \/ k = n + 1)
    BY <1>3
  <2>4. Quiet(m) = {k \in 2 .. n + 1 : steps[k].delta <= l.threshold}
    BY <1>16, <1>19 DEF Quiet
  <2>5. CASE x = "converged"
    BY <1>3, <1>17, <2>1, <2>2, <2>3, <2>4, <2>5
  <2>6. CASE x # "converged"
    BY <1>3, <1>17, <2>1, <2>2, <2>3, <2>4, <2>6
  <2> QED BY <2>5, <2>6
<1>21. LoopStands(m)
  BY <1>3, <1>4, <1>16, <1>17, <1>19, <1>20 DEF LoopStands
<1>22. e \in Receipts /\ e.request = r /\ e.index = n /\ e.kind = "event"
  BY <1>3, <1>13 DEF Receipts
<1>23. LastIndex(m) = n /\ Len(m.steps) = n + 1 /\ n < Len(m.steps)
  BY <1>3, <1>16, <1>19 DEF LastIndex
<1> QED BY <1>1, <1>2, <1>14, <1>18, <1>21, <1>22, <1>23, RecordingKeeps

-----------------------------------------------------------------------------
\* The least of some numbers, and the greatest below a bound.
LEMMA LeastNumber ==
    ASSUME NEW S \in SUBSET Nat, S # {}
    PROVE  \E x \in S : \A y \in S : x <= y
<1>1. PICK x \in S : \A y \in Nat : <<y, x>> \in OpToRel(<, Nat) => y \notin S
  BY NatLessThanWellFounded, WFMin
<1>2. ASSUME NEW y \in S PROVE x <= y
  <2>1. x \in Nat /\ y \in Nat
    OBVIOUS
  <2>2. <<y, x>> \notin OpToRel(<, Nat)
    BY <1>1
  <2> QED BY <2>1, <2>2 DEF OpToRel
<1> QED BY <1>2

LEMMA GreatestNumber ==
    ASSUME NEW N \in Nat, NEW S \in SUBSET (0 .. N), S # {}
    PROVE  \E x \in S : \A y \in S : y <= x
<1>1. PICK T : T = {N - x : x \in S}
  OBVIOUS
<1>2. T \in SUBSET Nat /\ T # {}
  <2>1. \A x \in S : N - x \in Nat
    OBVIOUS
  <2> QED BY <1>1, <2>1
<1>3. PICK z \in T : \A y \in T : z <= y
  BY <1>2, LeastNumber
<1>4. PICK x \in S : z = N - x
  BY <1>1
<1>5. ASSUME NEW y \in S PROVE y <= x
  <2>1. z <= N - y
    BY <1>1, <1>3
  <2>2. x \in 0 .. N /\ y \in 0 .. N
    OBVIOUS
  <2> QED BY <1>4, <2>1, <2>2
<1> QED BY <1>5

LEMMA PartsAreFewer ==
    ASSUME NEW S, IsFiniteSet(S), NEW T, T \subseteq S
    PROVE  /\ IsFiniteSet(T) /\ Cardinality(T) \in Nat /\ Cardinality(S) \in Nat
           /\ Cardinality(T) <= Cardinality(S)
           /\ T # S => Cardinality(T) < Cardinality(S)
<1>1. IsFiniteSet(T) /\ Cardinality(T) <= Cardinality(S)
  BY FS_Subset
<1>2. Cardinality(T) \in Nat /\ Cardinality(S) \in Nat
  BY <1>1, FS_CardinalityType
<1>3. T # S => Cardinality(T) # Cardinality(S)
  BY FS_Subset
<1> QED BY <1>1, <1>2, <1>3

\* What a query shows, for every limit: the newest so many.
LEMMA QueryShowsTheTail ==
    ASSUME LoopsInv, NEW kind, NEW limit \in Nat
    PROVE  /\ IsFiniteSet(Work!Matching(kind)) /\ Work!Matching(kind) \subseteq Nat
           /\ Work!Query(kind, limit) \subseteq Work!Matching(kind)
           /\ \A p \in Work!Query(kind, limit), q \in Work!Matching(kind) :
                 p < q => q \in Work!Query(kind, limit)
           /\ Cardinality(Work!Query(kind, limit)) =
                IF limit < Cardinality(Work!Matching(kind)) THEN limit
                ELSE Cardinality(Work!Matching(kind))
<1>1. PICK M : M = Work!Matching(kind)
  OBVIOUS
<1>2. IsFiniteSet(M) /\ M \subseteq Nat /\ \E N \in Nat : M \subseteq 0 .. N
  <2>1. DOMAIN lake = 1 .. Len(lake) /\ Len(lake) \in Nat
    BY LenProperties DEF LoopsInv
  <2>2. IsFiniteSet(1 .. Len(lake)) /\ 1 .. Len(lake) \subseteq Nat
    BY <2>1, FS_Interval
  <2>3. 1 .. Len(lake) \subseteq 0 .. Len(lake)
    BY <2>1
  <2>4. M \subseteq 1 .. Len(lake)
    BY <1>1, <2>1 DEF Work!Matching
  <2> QED BY <2>1, <2>2, <2>3, <2>4, PartsAreFewer
<1> DEFINE Newer(p) == {q \in M : p < q}
<1>3. PICK Q : Q = {p \in M : Cardinality(Newer(p)) < limit}
  OBVIOUS
<1>4. Q = Work!Query(kind, limit)
  BY <1>1, <1>3 DEF Work!Query, Work!Newer, Work!Cardinality, Cardinality
<1>n. \A p, q \in M : q \in Newer(p) <=> p < q
  OBVIOUS
<1>s. \A p \in M : Newer(p) \subseteq M
  OBVIOUS
<1> HIDE DEF Newer
<1>5. ASSUME NEW p \in M PROVE IsFiniteSet(Newer(p)) /\ Cardinality(Newer(p)) \in Nat
  BY <1>2, <1>s, PartsAreFewer
<1>6. \A p \in Q, q \in M : p < q => q \in Q
  <2> SUFFICES ASSUME NEW p \in Q, NEW q \in M, p < q PROVE q \in Q
    OBVIOUS
  <2>1. p \in M /\ p \in Nat /\ q \in Nat
    BY <1>2, <1>3
  <2>2. ASSUME NEW x \in Newer(q) PROVE x \in Newer(p)
    <3>1. x \in M /\ x \in Nat
      BY <1>2, <1>s, <2>2
    <3>2. q < x
      BY <1>n, <2>2, <3>1
    <3>3. p < x
      BY <2>1, <3>1, <3>2
    <3> QED BY <1>n, <2>1, <3>1, <3>3
  <2>3. PICK i, j : i = Cardinality(Newer(q)) /\ j = Cardinality(Newer(p))
    OBVIOUS
  <2>4. i \in Nat /\ j \in Nat
    BY <1>5, <2>1, <2>3
  <2>5. i <= j
    BY <1>5, <2>1, <2>2, <2>3, PartsAreFewer
  <2>6. j < limit
    BY <1>3, <2>3
  <2>7. i < limit
    BY <2>4, <2>5, <2>6
  <2> QED BY <1>3, <2>3, <2>7
<1>7. IsFiniteSet(Q) /\ Cardinality(Q) \in Nat /\ Cardinality(M) \in Nat
      /\ Cardinality(Q) <= Cardinality(M) /\ Q \subseteq M
  BY <1>2, <1>3, PartsAreFewer
<1>8. Cardinality(Q) <= limit
  <2>1. CASE Q = {}
    BY <2>1, FS_EmptySet
  <2>2. CASE Q # {}
    <3>1. PICK p \in Q : \A q \in Q : p <= q
      BY <1>2, <1>7, <2>2, LeastNumber
    <3>2. ASSUME NEW x \in Q \ {p} PROVE x \in Newer(p)
      <4>1. x \in M /\ x \in Nat /\ p \in M /\ p \in Nat /\ p <= x /\ p # x
        BY <1>2, <1>7, <3>1
      <4> QED BY <1>n, <4>1
    <3>3. Cardinality(Q \ {p}) <= Cardinality(Newer(p))
      BY <1>5, <1>7, <3>2, PartsAreFewer
    <3>4. Cardinality(Q \ {p}) = Cardinality(Q) - 1
      BY <1>7, FS_RemoveElement
    <3>5. Cardinality(Newer(p)) < limit
      BY <1>3
    <3>6. PICK i, j : i = Cardinality(Newer(p)) /\ j = Cardinality(Q)
      OBVIOUS
    <3>7. i \in Nat /\ j \in Nat
      BY <1>5, <1>7, <3>1, <3>6
    <3>8. j - 1 <= i /\ i < limit
      BY <3>3, <3>4, <3>5, <3>6
    <3> QED BY <3>6, <3>7, <3>8
  <2> QED BY <2>1, <2>2
<1>9. CASE Q = M
  BY <1>1, <1>2, <1>4, <1>6, <1>7, <1>8, <1>9
<1>10. CASE Q # M
  <2>1. PICK p \in M \ Q : \A q \in M \ Q : q <= p
    <3>1. PICK N \in Nat : M \subseteq 0 .. N
      BY <1>2
    <3>2. M \ Q \in SUBSET (0 .. N) /\ M \ Q # {}
      BY <1>7, <1>10, <3>1
    <3> QED BY <3>2, GreatestNumber
  <2>2. ASSUME NEW x \in Newer(p) PROVE x \in Q
    <3>1. x \in M /\ x \in Nat /\ p \in Nat
      BY <1>2, <1>s, <2>1, <2>2
    <3>2. p < x
      BY <1>n, <2>1, <2>2, <3>1
    <3> QED BY <2>1, <3>1, <3>2
  <2>3. PICK i, j : i = Cardinality(Newer(p)) /\ j = Cardinality(Q)
    OBVIOUS
  <2>4. Cardinality(Q) = limit
    <3>1. i <= j
      BY <1>7, <2>2, <2>3, PartsAreFewer
    <3>2. ~(i < limit)
      BY <1>3, <2>1, <2>3
    <3>3. i \in Nat /\ j \in Nat
      BY <1>5, <1>7, <2>1, <2>3
    <3>4. j <= limit
      BY <1>8, <2>3
    <3> QED BY <2>3, <3>1, <3>2, <3>3, <3>4
  <2>5. Cardinality(Q) < Cardinality(M)
    BY <1>2, <1>7, <1>10, PartsAreFewer
  <2> QED BY <1>1, <1>2, <1>4, <1>6, <1>7, <2>4, <2>5
<1> QED BY <1>9, <1>10

LEMMA LoopsStep ==
    ASSUME Work!WorkAssumption, LoopsInv, [Work!Next]_Work!vars
    PROVE  LoopsInv'
<1>1. CASE UNCHANGED Work!vars
  BY <1>1 DEF Work!vars, LoopsInv, Work!LakeIsWhatTheLoopsDid, Work!Mine
<1> QED BY <1>1, BeginWorkKeeps, StepKeeps, FinishKeeps, FailKeeps DEF Work!Next

LEMMA LoopsInit ==
    ASSUME Work!Init
    PROVE  LoopsInv
<1>1. loop = [t \in Callers |-> Work!Idle] /\ lake = <<>>
  BY DEF Work!Init
<1>2. Work!Idle \in Loops /\ Work!Idle.pc = "idle" /\ Work!Idle.steps = <<>>
  <2>1. <<>> \in Seq(Lines) /\ <<>> \in Seq(Nat)
    BY EmptySeq
  <2> QED BY <2>1 DEF Work!Idle, Loops
<1>3. loop \in [Callers -> Loops] /\ \A t \in Callers : LoopStands(loop[t])
  BY <1>1, <1>2 DEF LoopStands
<1>4. lake \in Seq(Receipts) /\ DOMAIN lake = {} /\ Len(<<>>) = 0
  <2>1. <<>> \in Seq(Receipts) /\ Len(<<>>) = 0
    BY EmptySeq
  <2>2. DOMAIN <<>> = {}
    OBVIOUS
  <2> QED BY <1>1, <2>1, <2>2
<1>5. \A t \in Callers : OnRecord(t)
  <2> SUFFICES ASSUME NEW t \in Callers PROVE OnRecord(t)
    OBVIOUS
  <2>1. Work!Mine(t) = {}
    BY <1>4 DEF Work!Mine
  <2>2. LastIndex(loop[t]) = -1
    BY <1>1, <1>2, <1>4 DEF LastIndex
  <2>3. 0 .. -1 = {}
    OBVIOUS
  <2> QED BY <2>1, <2>2, <2>3 DEF OnRecord
<1>6. Work!LakeIsWhatTheLoopsDid
  BY <1>4, <1>5, LakeByRequest
<1> QED BY <1>3, <1>4, <1>6 DEF LoopsInv

LEMMA LoopsHold ==
    ASSUME LoopsInv
    PROVE  Work!LoopsAreOnRecord
<1>1. Work!ExitReasonsAreTrue
  BY DEF LoopsInv, LoopStands, Quiet, Work!ExitReasonsAreTrue
<1>2. Work!TailsAreSuffixes
  <2> SUFFICES ASSUME NEW k \in {"event", "loop"}, NEW n \in -1 .. 2
               PROVE  /\ Work!Query(k, n) \subseteq Work!Query(k, -1)
                      /\ \A p \in Work!Query(k, n), q \in Work!Query(k, -1) :
                            p < q => q \in Work!Query(k, n)
                      /\ n >= 0 => Cardinality(Work!Query(k, n)) =
                           IF n < Cardinality(Work!Query(k, -1)) THEN n
                           ELSE Cardinality(Work!Query(k, -1))
    BY DEF Work!TailsAreSuffixes, Work!Cardinality, Cardinality
  <2>1. Work!Query(k, -1) = Work!Matching(k)
    BY DEF Work!Query
  <2>2. CASE n = -1
    BY <2>1, <2>2
  <2>3. CASE n \in Nat
    BY <2>1, <2>3, QueryShowsTheTail
  <2>4. n = -1 \/ n \in Nat
    OBVIOUS
  <2> QED BY <2>2, <2>3, <2>4
<1> QED BY <1>1, <1>2 DEF LoopsInv, Work!LoopsAreOnRecord

\* Whatever budgets and thresholds are asked for, however loops interleave and
\* wherever one fails: the lake holds in order, for each request, the events of its
\* steps and then its loop receipt; a loop says it converged, or ran out of budget,
\* only when it did; and a limited query shows the newest of what an unlimited one
\* shows (run_loop, receipt_lake.append, receipt_lake.query).
THEOREM LoopsStayOnRecord ==
    ASSUME Work!WorkAssumption
    PROVE  Work!Spec => []LoopsAreOnRecord
<1>1. Work!Init => LoopsInv
  BY LoopsInit
<1>2. LoopsInv /\ [Work!Next]_Work!vars => LoopsInv'
  BY LoopsStep
<1>3. LoopsInv => Work!LoopsAreOnRecord
  BY LoopsHold
<1> QED BY <1>1, <1>2, <1>3, PTL DEF Work!Spec, LoopsAreOnRecord
=============================================================================
