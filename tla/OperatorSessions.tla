--------------------------- MODULE OperatorSessions ---------------------------
(***************************************************************************)
(* Operator sessions (src/app/server.py): tokens in the memory of one      *)
(* process, read several times within a request while other threads log    *)
(* in and out, time passes and the process restarts.  A deal-desk request  *)
(* asks for its actor (_operator_actor) and then writes; a request to the  *)
(* operator workflow binds the session to a context, waits for the lock of *)
(* its scope, binds it again under the lock and writes in that transaction.*)
(***************************************************************************)
EXTENDS Naturals

CONSTANTS
    Threads,   \* request threads
    Tokens,    \* tokens the process may hand out, each once
    Users,     \* named operators
    TTL,       \* DAVID_SESSION_TTL_SECONDS
    MaxTime    \* bound on the clock

Nobody    == "operator"   \* the actor of a write without a name
NoSession == [user |-> Nobody, until |-> 0]
NoToken   == "none"

SessionAssumption ==
    /\ TTL \in Nat \ {0} /\ MaxTime \in Nat
    /\ Nobody \notin Users /\ NoToken \notin Tokens

VARIABLES
    sessions,  \* _TOKENS: [user, until] by token
    owner,     \* whom each token was handed to
    gone,      \* the tokens whose logout was answered
    req,       \* what each request is doing
    desk,      \* actors of the deal-desk writes, with the token they came with
    decisions, \* the same for workflow writes
    now

vars == <<sessions, owner, gone, req, desk, decisions, now>>

Idle == [pc |-> "idle", token |-> NoToken, actor |-> Nobody, late |-> FALSE]

Init ==
    /\ sessions = [k \in Tokens |-> NoSession]
    /\ owner = [k \in Tokens |-> Nobody] /\ gone = {}
    /\ req = [t \in Threads |-> Idle]
    /\ desk = {} /\ decisions = {} /\ now = 0

\* Mutated form: a session lasts until somebody ends it.
LiveWhileKnown(k) == sessions[k] # NoSession

Live(k) == now < sessions[k].until

\* Credentials that match: a fresh random token.
Login(u) ==
    /\ \E k \in Tokens :
         /\ owner[k] = Nobody
         /\ sessions' = [sessions EXCEPT ![k] = [user |-> u, until |-> now + TTL]]
         /\ owner' = [owner EXCEPT ![k] = u]
    /\ UNCHANGED <<gone, req, desk, decisions, now>>

To(t, pc) == req' = [req EXCEPT ![t].pc = pc]
End(t)    == req' = [req EXCEPT ![t] = Idle]

Begin(t, kind) ==
    /\ req[t].pc = "idle"
    /\ \E k \in Tokens :
         /\ owner[k] # Nobody
         /\ req' = [req EXCEPT ![t] = [Idle EXCEPT !.pc = kind, !.token = k, !.late = k \in gone]]
    /\ UNCHANGED <<sessions, owner, gone, desk, decisions, now>>

\* _auth: a token that is unknown is refused, an expired one also forgotten.
Auth(t, next) ==
    /\ IF Live(req[t].token)
       THEN To(t, next) /\ UNCHANGED sessions
       ELSE End(t) /\ sessions' = [sessions EXCEPT ![req[t].token] = NoSession]
    /\ UNCHANGED <<owner, gone, desk, decisions, now>>

LogoutAuth(t) == req[t].pc = "logout" /\ Auth(t, "popping")
LogoutPop(t) ==
    /\ req[t].pc = "popping"
    /\ sessions' = [sessions EXCEPT ![req[t].token] = NoSession]
    /\ gone' = gone \cup {req[t].token}
    /\ End(t)
    /\ UNCHANGED <<owner, desk, decisions, now>>

DeskAuth(t) == req[t].pc = "desk" /\ Auth(t, "naming")

\* Mutated form: the actor is whoever the request names.
ActorFromRequest(t) == CHOOSE u \in Users : owner[req[t].token] # u

\* _operator_actor reads the session a second time.
Actor(t) == sessions[req[t].token].user

DeskName(t) ==
    /\ req[t].pc = "naming"
    /\ req' = [req EXCEPT ![t].pc = "writing", ![t].actor = Actor(t)]
    /\ UNCHANGED <<sessions, owner, gone, desk, decisions, now>>

DeskWrite(t) ==
    /\ req[t].pc = "writing"
    /\ desk' = desk \cup {[token |-> req[t].token, actor |-> req[t].actor, late |-> req[t].late]}
    /\ End(t)
    /\ UNCHANGED <<sessions, owner, gone, decisions, now>>

FlowAuth(t) == req[t].pc = "flow" /\ Auth(t, "binding")

\* The second read of _workflow_context: no session, no context.  The
\* request then waits for the lock of its scope.
FlowBind(t) ==
    /\ req[t].pc = "binding"
    /\ IF Live(req[t].token) THEN To(t, "waiting") ELSE End(t)
    /\ UNCHANGED <<sessions, owner, gone, desk, decisions, now>>

\* The lock is granted; reauthorize starts over.
FlowLocked(t) ==
    /\ req[t].pc = "waiting"
    /\ req' = [req EXCEPT ![t].pc = "again", ![t].late = now >= sessions[req[t].token].until]
    /\ UNCHANGED <<sessions, owner, gone, desk, decisions, now>>

FlowAuthAgain(t) == req[t].pc = "again" /\ Auth(t, "rebinding")

\* Bound again, the decision is appended and committed in one transaction.
FlowWrite(t) ==
    /\ req[t].pc = "rebinding"
    /\ decisions' = IF Live(req[t].token)
                    THEN decisions \cup {[token |-> req[t].token, actor |-> Actor(t),
                                          late |-> req[t].late]}
                    ELSE decisions
    /\ End(t)
    /\ UNCHANGED <<sessions, owner, gone, desk, now>>

Restart ==
    /\ sessions' = [k \in Tokens |-> NoSession]
    /\ req' = [t \in Threads |-> Idle]
    /\ UNCHANGED <<owner, gone, desk, decisions, now>>

Tick == now < MaxTime /\ now' = now + 1 /\ UNCHANGED <<sessions, owner, gone, req, desk, decisions>>

Next ==
    \/ \E u \in Users : Login(u)
    \/ \E t \in Threads :
         \/ \E kind \in {"logout", "desk", "flow"} : Begin(t, kind)
         \/ LogoutAuth(t) \/ LogoutPop(t)
         \/ DeskAuth(t) \/ DeskName(t) \/ DeskWrite(t)
         \/ FlowAuth(t) \/ FlowBind(t) \/ FlowLocked(t) \/ FlowAuthAgain(t) \/ FlowWrite(t)
    \/ Restart \/ Tick

Spec == Init /\ [][Next]_vars

-----------------------------------------------------------------------------
(***************************************************************************)
(* Properties.                                                             *)
(***************************************************************************)
\* No write is put under another operator's name, whatever sessions come and
\* go while the request runs (_operator_actor, load_operator_context).
NobodyElsesName ==
    /\ \A w \in desk : w.actor \in {owner[w.token], Nobody}
    /\ \A w \in decisions : w.actor = owner[w.token]

\* A request that begins after a logout was answered writes nothing on the
\* desk; in the workflow not even one that began before it, or before the
\* session expired, and got the lock of its scope after it.
LogoutsAreHonoured ==
    \A w \in desk \cup decisions : ~w.late

\* A session is good for what its operator does while it lasts.
SessionsAreHonoured == NobodyElsesName /\ LogoutsAreHonoured

=============================================================================
