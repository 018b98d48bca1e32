--------------------------- MODULE SessionStorage ---------------------------
(***************************************************************************)
(* The Redis keys of one citizen's sessions and the operations of          *)
(* RedisSessionStorage over them.                                          *)
(*                                                                         *)
(* An operation is a chain of Redis commands, some of them sent in         *)
(* parallel; every command may fail, and other operations and the session  *)
(* manager (an external service, the only one that creates sessions) run   *)
(* between two commands.  The SAFE client reads the primary node of a key; *)
(* the FAST client reads it from the primary or from a replica, which lags *)
(* behind independently for every key, since the keys live in different    *)
(* slots of the cluster.                                                   *)
(***************************************************************************)
EXTENDS Integers, FiniteSets

CONSTANTS
    Tokens,      \* session tokens of the citizen
    Malformed,   \* tokens whose SESSIONINFO value does not decode
    Calls,       \* calls of storage operations
    Workloads    \* what may happen together, see Workload

Ops == {"userHasActiveSessions", "userHasActiveSessionsOrLV",
        "clearExpiredSetValues", "setBlockedUser", "unsetBlockedUser"}
LoginTypes == {"undecodable", "LEGACY", "LV"}

(* The operation of each call ("none": it is not made), the tokens that    *)
(* are issued, what the lollipop data of a login decodes to, and whether   *)
(* replicas may lag behind.                                                *)
Workload == [op: [Calls -> Ops \union {"none"}], issued: SUBSET Tokens,
             types: SUBSET LoginTypes, lag: BOOLEAN]

ASSUME TokensAssumption == Malformed \subseteq Tokens
ASSUME CallsAssumption == IsFiniteSet(Calls)
ASSUME WorkloadsAssumption == Workloads \subseteq Workload

VARIABLES
    work,       \* the workload of the behaviour
    lollipop,   \* KEYS-<fiscal code>: what it decodes to
    login,      \* progress of the login of each token
    primary,    \* of SESSION and SESSIONINFO keys, the tokens whose key exists;
                \* of the set USERSESSIONS-<fiscal code>, its members
    replica,    \* what the replicas hold of them
    blocked,    \* is the citizen in BLOCKEDUSERS
    pc,         \* next step of each call
    asked,      \* tokens whose keys a call has asked for
    got,        \* answers it has received
    result,     \* what it returned
    settled,    \* auxiliary: sessions live on every node since the call began
    dead        \* auxiliary: sessions on no node since the call began

keys == <<lollipop, primary>>
external == <<work, login, replica>>
callVars == <<pc, asked, got, result>>
auxVars == <<settled, dead>>
vars == <<work, keys, external, blocked, callVars, auxVars>>

Answers == {"pending", "present", "absent", "error"}
Results == {"none", "true", "false", "error", "removals"}
Steps == {"idle", "lollipop", "members", "infos", "sessions", "exists", "removals",
          "block", "done"}
NoAnswer == [t \in Tokens |-> "pending"]
Kinds == {"SESSION", "SESSIONINFO", "USERSESSIONS"}

(* A session in use on every node, and one that is on none. *)
Settled(t) == \A k \in Kinds: t \in primary[k] \intersect replica[k]
Dead(t) == t \notin primary["SESSION"] \union replica["SESSION"]

-----------------------------------------------------------------------------

Init ==
    /\ work \in Workloads
    /\ lollipop = "absent"
    /\ login = [t \in Tokens |-> "out"]
    /\ primary = [k \in Kinds |-> {}]
    /\ replica = primary
    /\ blocked = FALSE
    /\ pc = [c \in Calls |-> "idle"]
    /\ asked = [c \in Calls |-> {}]
    /\ got = [c \in Calls |-> NoAnswer]
    /\ result = [c \in Calls |-> "none"]
    /\ settled = [c \in Calls |-> {}]
    /\ dead = [c \in Calls |-> {}]

-----------------------------------------------------------------------------
(* Redis.  Without lag the replicas follow in the same step. *)

Store(k, T) ==
    /\ primary' = [primary EXCEPT ![k] = T]
    /\ replica' = IF work.lag THEN replica ELSE primary'

Replicate(k, T) ==
    /\ work.lag
    /\ replica' = [replica EXCEPT ![k] = T]
    /\ UNCHANGED <<work, keys, login, blocked, callVars, auxVars>>

ReplicateKey(k, t) ==
    Replicate(k, IF t \in primary[k] THEN replica[k] \union {t} ELSE replica[k] \ {t})

ReplicateIndex == Replicate("USERSESSIONS", primary["USERSESSIONS"])

Existence(b) == IF b THEN "present" ELSE "absent"
FastRead(t, k) == {Existence(t \in primary[k]), Existence(t \in replica[k])}
FastMembers == {primary["USERSESSIONS"], replica["USERSESSIONS"]}

(* The session manager, external: a login writes the lollipop data, the    *)
(* session, its info and last the index; the keys of a session that ends,  *)
(* by a logout or by their expiry, disappear one by one, and the index is  *)
(* left to clearExpiredSetValues.                                          *)
WriteLollipop(t, v) ==
    /\ login[t] = "out" /\ t \in work.issued
    /\ login' = [login EXCEPT ![t] = "lollipop"]
    /\ lollipop' = v
    /\ UNCHANGED <<work, primary, replica, blocked, callVars, auxVars>>

WriteSession(t) ==
    /\ login[t] = "lollipop"
    /\ login' = [login EXCEPT ![t] = "session"]
    /\ Store("SESSION", primary["SESSION"] \union {t})
    /\ dead' = [c \in Calls |-> dead[c] \ {t}]
    /\ UNCHANGED <<work, lollipop, blocked, callVars, settled>>

WriteInfo(t) ==
    /\ login[t] = "session"
    /\ login' = [login EXCEPT ![t] = "info"]
    /\ Store("SESSIONINFO", primary["SESSIONINFO"] \union {t})
    /\ UNCHANGED <<work, lollipop, blocked, callVars, auxVars>>

WriteIndex(t) ==
    /\ login[t] = "info"
    /\ login' = [login EXCEPT ![t] = "in"]
    /\ Store("USERSESSIONS", primary["USERSESSIONS"] \union {t})
    /\ UNCHANGED <<work, lollipop, blocked, callVars, auxVars>>

Unsettle(t) == settled' = [c \in Calls |-> settled[c] \ {t}]

SessionGone(t) ==
    /\ login[t] = "in" /\ t \in primary["SESSION"]
    /\ Store("SESSION", primary["SESSION"] \ {t})
    /\ Unsettle(t)
    /\ UNCHANGED <<work, lollipop, login, blocked, callVars, dead>>

InfoGone(t) ==
    /\ login[t] = "in" /\ t \in primary["SESSIONINFO"]
    /\ Store("SESSIONINFO", primary["SESSIONINFO"] \ {t})
    /\ Unsettle(t)
    /\ UNCHANGED <<work, lollipop, login, blocked, callVars, dead>>

LollipopGone ==
    /\ lollipop # "absent"
    /\ lollipop' = "absent"
    /\ UNCHANGED <<primary, external, blocked, callVars, auxVars>>

-----------------------------------------------------------------------------
(* Calls. *)

Goto(c, from, to) == pc[c] = from /\ pc' = [pc EXCEPT ![c] = to]
Return(c, from, r) == Goto(c, from, "done") /\ result' = [result EXCEPT ![c] = r]
Ask(c, T) ==
    /\ asked' = [asked EXCEPT ![c] = T]
    /\ got' = [got EXCEPT ![c] = NoAnswer]
Answer(c, t, a) ==
    /\ t \in asked[c] /\ got[c][t] = "pending"
    /\ got' = [got EXCEPT ![c][t] = a]
GotFrom(c, a) == {t \in asked[c]: got[c][t] = a}
AllAnswered(c) == GotFrom(c, "pending") = {}

Call(c) ==
    /\ work.op[c] # "none"
    /\ CASE work.op[c] = "userHasActiveSessionsOrLV" -> Goto(c, "idle", "lollipop")
         [] work.op[c] \in {"setBlockedUser", "unsetBlockedUser"} -> Goto(c, "idle", "block")
         [] OTHER -> Goto(c, "idle", "members")
    /\ settled' = [settled EXCEPT ![c] = {t \in Tokens: Settled(t)}]
    /\ dead' = [dead EXCEPT ![c] = {t \in Tokens: Dead(t)}]
    /\ UNCHANGED <<keys, external, blocked, asked, got, result>>

(* getLollipopDataForUser, on the SAFE client. *)
getLollipopDataForUser(c) ==
    /\ \/ Return(c, "lollipop", "error")
       \/ lollipop = "undecodable" /\ Return(c, "lollipop", "error")
       \/ lollipop = "absent" /\ Return(c, "lollipop", "false")
       \/ lollipop = "LV" /\ Return(c, "lollipop", "true")
       \/ lollipop = "LEGACY" /\ Goto(c, "lollipop", "members") /\ UNCHANGED result
    /\ UNCHANGED <<keys, external, blocked, asked, got, auxVars>>

readSessionInfoKeys(c) ==
    /\ work.op[c] # "clearExpiredSetValues"
    /\ \/ Return(c, "members", "error") /\ UNCHANGED <<asked, got>>
       \/ {} \in FastMembers /\ Return(c, "members", "false") /\ UNCHANGED <<asked, got>>
       \/ \E T \in FastMembers \ {{}}:
            Goto(c, "members", "infos") /\ Ask(c, T) /\ UNCHANGED result
    /\ UNCHANGED <<keys, external, blocked, auxVars>>

(* One of the parallel reads of mGet. *)
mGetReply(c, t, step, k) ==
    /\ pc[c] = step
    /\ \/ Answer(c, t, "error")
       \/ \E a \in FastRead(t, k): Answer(c, t, a)
    /\ UNCHANGED <<keys, external, blocked, pc, asked, result, auxVars>>

mGetInfo(c, t) == mGetReply(c, t, "infos", "SESSIONINFO")
mGetSession(c, t) == mGetReply(c, t, "sessions", "SESSION")

(* Operators named Bug... are plausible mistakes, not part of the model:   *)
(* each shows that a property can tell the model from the mistake.         *)
BugFailedReadIsNull(c) ==
    /\ pc[c] = "infos" /\ AllAnswered(c)
    /\ LET sessions == GotFrom(c, "present") \ Malformed IN
       \/ sessions = {} /\ Return(c, "infos", "false") /\ UNCHANGED <<asked, got>>
       \/ /\ sessions # {}
          /\ Goto(c, "infos", "sessions") /\ Ask(c, sessions) /\ UNCHANGED result
    /\ UNCHANGED <<keys, external, blocked, auxVars>>

BugRejectionIsAwaited(c) ==
    /\ pc[c] = "infos" /\ AllAnswered(c) /\ GotFrom(c, "error") = {}
    /\ LET sessions == GotFrom(c, "present") \ Malformed IN
       \/ sessions = {} /\ Return(c, "infos", "false") /\ UNCHANGED <<asked, got>>
       \/ /\ sessions # {}
          /\ Goto(c, "infos", "sessions") /\ Ask(c, sessions) /\ UNCHANGED result
    /\ UNCHANGED <<keys, external, blocked, auxVars>>

(* The infos that exist and decode name the sessions to look for. *)
parseUserSessionList(c) ==
    /\ pc[c] = "infos" /\ AllAnswered(c)
    /\ LET sessions == GotFrom(c, "present") \ Malformed IN
       \/ /\ GotFrom(c, "error") # {}
          /\ Return(c, "infos", "error") /\ UNCHANGED <<asked, got>>
       \/ /\ GotFrom(c, "error") = {} /\ sessions = {}
          /\ Return(c, "infos", "false") /\ UNCHANGED <<asked, got>>
       \/ /\ GotFrom(c, "error") = {} /\ sessions # {}
          /\ Goto(c, "infos", "sessions") /\ Ask(c, sessions) /\ UNCHANGED result
    /\ UNCHANGED <<keys, external, blocked, auxVars>>

BugNullCountsAsSession(c) ==
    /\ pc[c] = "sessions" /\ AllAnswered(c)
    /\ Return(c, "sessions", IF GotFrom(c, "error") # {} THEN "error" ELSE "true")
    /\ UNCHANGED <<keys, external, blocked, asked, got, auxVars>>

userHasActiveSessions(c) ==
    /\ pc[c] = "sessions" /\ AllAnswered(c)
    /\ Return(c, "sessions",
              IF GotFrom(c, "error") # {} THEN "error"
              ELSE IF GotFrom(c, "present") # {} THEN "true" ELSE "false")
    /\ UNCHANGED <<keys, external, blocked, asked, got, auxVars>>

-----------------------------------------------------------------------------
(* clearExpiredSetValues.  Members that cannot be read count as none; a    *)
(* check that fails counts as a key that does not exist.                   *)

readSetMembers(c) ==
    /\ work.op[c] = "clearExpiredSetValues"
    /\ Goto(c, "members", "exists")
    /\ \E T \in FastMembers \union {{}}: Ask(c, T)
    /\ UNCHANGED <<keys, external, blocked, result, auxVars>>

BugRawReply(c, t) ==
    /\ pc[c] = "exists"
    /\ \E a \in FastRead(t, "SESSIONINFO"): Answer(c, t, IF a = "present" THEN "1" ELSE "0")
    /\ UNCHANGED <<keys, external, blocked, pc, asked, result, auxVars>>

existsReply(c, t) ==
    /\ pc[c] = "exists"
    /\ \/ Answer(c, t, "error")
       \/ \E a \in FastRead(t, "SESSIONINFO"): Answer(c, t, a)
    /\ UNCHANGED <<keys, external, blocked, pc, asked, result, auxVars>>

BugFilterInverted(c) == GotFrom(c, "present")

toRemove(c) == GotFrom(c, "absent") \union GotFrom(c, "error")

filterExpired(c) ==
    /\ AllAnswered(c)
    /\ Goto(c, "exists", "removals")
    /\ asked' = [asked EXCEPT ![c] = toRemove(c)]
    /\ UNCHANGED <<keys, external, blocked, got, result, auxVars>>

(* asked now holds the removals under way; one that fails may have been    *)
(* executed or not.                                                        *)
RemoveMember(c, t) ==
    /\ pc[c] = "removals" /\ t \in asked[c]
    /\ asked' = [asked EXCEPT ![c] = @ \ {t}]
    /\ \/ Store("USERSESSIONS", primary["USERSESSIONS"] \ {t}) /\ Unsettle(t)
       \/ UNCHANGED <<primary, replica, settled>>
    /\ UNCHANGED <<work, lollipop, login, blocked, pc, got, result, dead>>

clearExpiredSetValues(c) ==
    /\ asked[c] = {}
    /\ Return(c, "removals", "removals")
    /\ UNCHANGED <<keys, external, blocked, asked, got, auxVars>>

-----------------------------------------------------------------------------
(* The list of blocked users.  A command that fails may have been executed *)
(* (its reply was lost) or not.                                            *)

setBlockedUser(c) ==
    /\ work.op[c] = "setBlockedUser"
    /\ \/ Return(c, "block", "true") /\ blocked' = TRUE
       \/ Return(c, "block", "error") /\ blocked' \in {blocked, TRUE}
    /\ UNCHANGED <<keys, external, asked, got, auxVars>>

BugAnyReplyIsTrue(c) ==
    /\ work.op[c] = "unsetBlockedUser"
    /\ Return(c, "block", "true") /\ blocked' = FALSE
    /\ UNCHANGED <<keys, external, asked, got, auxVars>>

(* Any reply but 1 is an error. *)
unsetBlockedUser(c) ==
    /\ work.op[c] = "unsetBlockedUser"
    /\ \/ /\ Return(c, "block", IF blocked THEN "true" ELSE "error")
          /\ blocked' = FALSE
       \/ Return(c, "block", "error") /\ blocked' \in {blocked, FALSE}
    /\ UNCHANGED <<keys, external, asked, got, auxVars>>

-----------------------------------------------------------------------------

Reply(c) ==
    \/ getLollipopDataForUser(c)
    \/ readSessionInfoKeys(c)
    \/ \E t \in Tokens: mGetInfo(c, t) \/ mGetSession(c, t)
    \/ parseUserSessionList(c)
    \/ userHasActiveSessions(c)
    \/ readSetMembers(c)
    \/ \E t \in Tokens: existsReply(c, t) \/ RemoveMember(c, t)
    \/ filterExpired(c)
    \/ clearExpiredSetValues(c)
    \/ setBlockedUser(c)
    \/ unsetBlockedUser(c)

Replication ==
    \/ \E k \in Kinds \ {"USERSESSIONS"}, t \in Tokens: ReplicateKey(k, t)
    \/ ReplicateIndex

SessionManager ==
    \/ LollipopGone
    \/ \E t \in Tokens:
         \/ \E v \in work.types: WriteLollipop(t, v)
         \/ WriteSession(t) \/ WriteInfo(t) \/ WriteIndex(t)
         \/ SessionGone(t) \/ InfoGone(t)

Next ==
    \/ Replication
    \/ SessionManager
    \/ \E c \in Calls: Call(c) \/ Reply(c)

(* Redis answers or rejects every command it was sent.  Nobody has to      *)
(* log in, call or end a session.                                          *)
GoesOn(c) == WF_vars(Reply(c))
Fairness == \A c \in Calls: GoesOn(c)

Safe == Init /\ [][Next]_vars
Spec == Safe /\ Fairness

-----------------------------------------------------------------------------

TypeOK ==
    /\ work \in Workloads
    /\ lollipop \in LoginTypes \union {"absent"}
    /\ login \in [Tokens -> {"out", "lollipop", "session", "info", "in"}]
    /\ primary \in [Kinds -> SUBSET Tokens]
    /\ replica \in [Kinds -> SUBSET Tokens]
    /\ blocked \in BOOLEAN
    /\ pc \in [Calls -> Steps]
    /\ asked \in [Calls -> SUBSET Tokens]
    /\ got \in [Calls -> [Tokens -> Answers]]
    /\ result \in [Calls -> Results]
    /\ settled \in [Calls -> SUBSET Tokens]
    /\ dead \in [Calls -> SUBSET Tokens]

(* A session that lives on every node for the whole of a call is found,    *)
(* whichever nodes answered and in whatever order.                         *)
LiveSessionIsSeen ==
    \A c \in Calls:
        (work.op[c] = "userHasActiveSessions" /\ result[c] = "false")
            => settled[c] \subseteq Malformed

(* No session is seen where none was: the infos and the index entries that *)
(* outlive a session do not count.                                         *)
DeadSessionsAreNotSeen ==
    \A c \in Calls:
        (work.op[c] = "userHasActiveSessions" /\ result[c] = "true") => dead[c] # Tokens

(* A cleanup takes a session that is in use on every node out of the index *)
(* only if the check of its key failed.                                    *)
LiveSessionSurvivesCleanup ==
    \A c \in Calls:
        pc[c] = "removals" =>
            \A t \in asked[c] \intersect settled[c]: got[c][t] = "error"

(* clearExpiredSetValues, redisSessionStorage.ts:89, removes expired       *)
(* SESSIONINFO values.  One failed exists removes a live session.          *)
OnlyExpiredRemoved ==
    [][\A t \in primary["USERSESSIONS"] \ primary'["USERSESSIONS"]:
          t \notin primary["SESSIONINFO"]]_vars

(* Nobody unblocks a user who is not blocked: every unset that returned    *)
(* true undid a set of its own, even when replies are lost.                *)
UnblockOnce ==
    Cardinality({c \in Calls: work.op[c] = "unsetBlockedUser" /\ result[c] = "true"})
        <= Cardinality({c \in Calls: work.op[c] = "setBlockedUser" /\ pc[c] = "done"})

(* However its parallel commands end, every call returns. *)
CallsReturn == \A c \in Calls: pc[c] # "idle" ~> pc[c] = "done"
=============================================================================
