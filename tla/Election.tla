------------------------------ MODULE Election ------------------------------
(***************************************************************************)
(* The election of cluster/redis_election.rs: nodes contend for one key of *)
(* a Redis server, which SET NX EX gives to one of them until it expires.  *)
(* Every call is made of single commands; between a command's execution    *)
(* and the next one anything may happen: other nodes, time, a crash.       *)
(* Nothing in the crate calls this API, so what a node calls and when is   *)
(* open; a node makes one call at a time, under an id of its own.          *)
(*                                                                         *)
(* A call whose connection fails, or whose future the caller drops, leaves *)
(* a command behind that has been executed by then or never is.            *)
(***************************************************************************)
EXTENDS Integers

CONSTANTS
    Nodes,      \* the processes, each with the value it campaigns with
    NoNode,     \* the key does not exist, nothing is registered
    Pending,    \* a command that has not been executed
    Ttl         \* RedisElection.ttl, in ticks of the clock

ASSUME TtlAssumption == Ttl \in Nat \ {0}
ASSUME NodesAssumption == NoNode \notin Nodes /\ Pending \notin Nodes \cup {NoNode}

VARIABLES
    key,          \* the election key in Redis: its value and what it has left
    registered,   \* the value of the one key nodes register under
    leaderValue,  \* RedisElection.leader_value is Some, per node
    isLeader,     \* RedisElection.is_leader, per node
    renewing,     \* the task that start_renew_task spawned runs, per node
    call,         \* the call a node is in: operation, command, its answer
    since,        \* what is left of Ttl since the node sent SET or EXPIRE
    lease,        \* what is left of the lease the node was told it has
    misfired      \* an EXPIRE or a DEL met a key that was not its sender's

vars == <<key, registered, leaderValue, isLeader, renewing, call, since, lease, misfired>>

object == <<registered, leaderValue, isLeader, renewing>>
clocks == <<since, lease, misfired>>

Free == [holder |-> NoNode, ttl |-> 0]

(* A changed Granted: SET without EX. *)
GrantedForever(n) == [holder |-> n, ttl |-> 0]

(* A key that is set with EX expires; ttl 0 is a key that never does. *)
Granted(n) == [holder |-> n, ttl |-> Ttl]

NoCall == [op |-> "none", cmd |-> "none", got |-> NoNode]

Calls ==
    [op  : {"none", "campaign", "renew", "resign", "hung"},
     cmd : {"none", "SET", "GET", "EXPIRE", "DEL"},
     got : Nodes \cup {NoNode, Pending}]

Sends(n, op, cmd) == call' = [call EXCEPT ![n] = [op |-> op, cmd |-> cmd, got |-> Pending]]

(* The call is over, and what was counted for its command is lease by then. *)
Returns(n) ==
    /\ call' = [call EXCEPT ![n] = NoCall]
    /\ since' = [since EXCEPT ![n] = 0]

(* The answer of a command has arrived and the call goes on with it. *)
Answered(n, op, cmd) ==
    call[n].op = op /\ call[n].cmd = cmd /\ call[n].got # Pending

Init ==
    /\ key = Free
    /\ registered = NoNode
    /\ leaderValue = [n \in Nodes |-> FALSE]
    /\ isLeader = [n \in Nodes |-> FALSE]
    /\ renewing = [n \in Nodes |-> FALSE]
    /\ call = [n \in Nodes |-> NoCall]
    /\ since = [n \in Nodes |-> 0]
    /\ lease = [n \in Nodes |-> 0]
    /\ misfired = FALSE

-----------------------------------------------------------------------------
(* Redis executes a command that was sent. *)

Replies(n, value) == call' = [call EXCEPT ![n].got = value]

Sent(n, cmd) == call[n].cmd = cmd /\ call[n].got = Pending

(* A changed SetNx: SET without NX. *)
SetAlways(n) ==
    /\ Sent(n, "SET")
    /\ key' = Granted(n)
    /\ Replies(n, n)
    /\ UNCHANGED <<object, clocks>>

(* try_acquire: SET key value NX EX ttl. *)
SetNx(n) ==
    /\ Sent(n, "SET")
    /\ IF key.holder = NoNode
       THEN key' = Granted(n) /\ Replies(n, n)
       ELSE key' = key /\ Replies(n, NoNode)
    /\ UNCHANGED <<object, clocks>>

Get(n) ==
    /\ Sent(n, "GET")
    /\ Replies(n, key.holder)
    /\ UNCHANGED <<key, object, clocks>>

(* EXPIRE key ttl: whosever key it is by now; what it answers is not looked at. *)
Expire(n) ==
    /\ Sent(n, "EXPIRE")
    /\ key' = IF key.holder = NoNode THEN key ELSE Granted(key.holder)
    /\ misfired' = (misfired \/ key.holder # n)
    /\ Replies(n, NoNode)
    /\ UNCHANGED <<object, since, lease>>

Del(n) ==
    /\ Sent(n, "DEL")
    /\ key' = Free
    /\ misfired' = (misfired \/ key.holder # n)
    /\ Replies(n, NoNode)
    /\ UNCHANGED <<object, since, lease>>

Left(t) == IF t > 0 THEN t - 1 ELSE 0

(* A second of the Ttl passes, for the key and for what the nodes count. *)
Tick ==
    /\ key' = IF key.ttl = 1 THEN Free ELSE [key EXCEPT !.ttl = Left(@)]
    /\ since' = [n \in Nodes |-> Left(since[n])]
    /\ lease' = [n \in Nodes |-> Left(lease[n])]
    /\ UNCHANGED <<object, call, misfired>>

-----------------------------------------------------------------------------
(* campaign *)

Campaign(n) ==
    /\ call[n] = NoCall
    /\ Sends(n, "campaign", "SET")
    /\ since' = [since EXCEPT ![n] = Ttl]
    /\ UNCHANGED <<key, object, lease, misfired>>

CampaignWon(n) ==
    /\ Answered(n, "campaign", "SET")
    /\ call[n].got = n
    /\ leaderValue' = [leaderValue EXCEPT ![n] = TRUE]
    /\ isLeader' = [isLeader EXCEPT ![n] = TRUE]
    /\ renewing' = [renewing EXCEPT ![n] = TRUE]
    /\ lease' = [lease EXCEPT ![n] = since[n]]
    /\ Returns(n)
    /\ UNCHANGED <<key, registered, misfired>>

CampaignLost(n) ==
    /\ Answered(n, "campaign", "SET")
    /\ call[n].got # n
    /\ Returns(n)
    /\ UNCHANGED <<key, object, lease, misfired>>

(* The task renews for an object of its own, new and never a leader: it ends *)
(* at its first tick.                                                        *)
RenewTask(n) ==
    /\ renewing[n]
    /\ renewing' = [renewing EXCEPT ![n] = FALSE]
    /\ UNCHANGED <<key, registered, leaderValue, isLeader, call, clocks>>

-----------------------------------------------------------------------------
(* renew: a GET, and an EXPIRE if the key was the node's then *)

Renew(n) ==
    /\ call[n] = NoCall
    /\ leaderValue[n]
    /\ Sends(n, "renew", "GET")
    /\ UNCHANGED <<key, object, clocks>>

RenewOwn(n) ==
    /\ Answered(n, "renew", "GET")
    /\ call[n].got = n
    /\ Sends(n, "renew", "EXPIRE")
    /\ since' = [since EXCEPT ![n] = Ttl]
    /\ UNCHANGED <<key, object, lease, misfired>>

RenewLost(n) ==
    /\ Answered(n, "renew", "GET")
    /\ call[n].got # n
    /\ isLeader' = [isLeader EXCEPT ![n] = FALSE]
    /\ lease' = [lease EXCEPT ![n] = 0]
    /\ Returns(n)
    /\ UNCHANGED <<key, registered, leaderValue, renewing, misfired>>

Renewed(n) ==
    /\ Answered(n, "renew", "EXPIRE")
    /\ lease' = [lease EXCEPT ![n] = since[n]]
    /\ Returns(n)
    /\ UNCHANGED <<key, object, misfired>>

-----------------------------------------------------------------------------
(* resign: a GET, and a DEL if the key was the node's then *)

(* Who resigns counts on its lease no longer. *)
Resign(n) ==
    /\ call[n] = NoCall
    /\ leaderValue[n]
    /\ Sends(n, "resign", "GET")
    /\ lease' = [lease EXCEPT ![n] = 0]
    /\ UNCHANGED <<key, object, since, misfired>>

ResignOwn(n) ==
    /\ Answered(n, "resign", "GET")
    /\ call[n].got = n
    /\ Sends(n, "resign", "DEL")
    /\ UNCHANGED <<key, object, clocks>>

ResignFails(n) ==
    /\ Answered(n, "resign", "GET")
    /\ call[n].got # n
    /\ Returns(n)
    /\ UNCHANGED <<key, object, lease, misfired>>

(* A changed Resigned: leader_value is cleared first. *)
ResignedInOtherOrder(n) ==
    /\ Answered(n, "resign", "DEL")
    /\ call' = [call EXCEPT ![n] = [op |-> "hung", cmd |-> "none", got |-> NoNode]]
    /\ UNCHANGED <<key, object, clocks>>

(* is_leader is cleared; leader_value.write() then waits for the read guard  *)
(* that resign itself holds since its first line, so the call never returns. *)
Resigned(n) ==
    /\ Answered(n, "resign", "DEL")
    /\ isLeader' = [isLeader EXCEPT ![n] = FALSE]
    /\ call' = [call EXCEPT ![n] = [op |-> "hung", cmd |-> "none", got |-> NoNode]]
    /\ UNCHANGED <<key, registered, leaderValue, renewing, clocks>>

-----------------------------------------------------------------------------
(* The connection fails in a call, or its caller drops it. *)
Dropped(n) ==
    /\ call[n].op # "none"
    /\ Returns(n)
    /\ UNCHANGED <<key, object, lease, misfired>>

(* The process dies; it starts again with a new RedisElection. *)
Crash(n) ==
    /\ Returns(n)
    /\ leaderValue' = [leaderValue EXCEPT ![n] = FALSE]
    /\ isLeader' = [isLeader EXCEPT ![n] = FALSE]
    /\ renewing' = [renewing EXCEPT ![n] = FALSE]
    /\ lease' = [lease EXCEPT ![n] = 0]
    /\ UNCHANGED <<key, registered, misfired>>

(* SETNX without an expiry; Ok whether or not the key was there. *)
Register(n) ==
    /\ registered' = IF registered = NoNode THEN n ELSE registered
    /\ UNCHANGED <<key, leaderValue, isLeader, renewing, call, clocks>>

-----------------------------------------------------------------------------
Server(n) == SetNx(n) \/ Get(n) \/ Expire(n) \/ Del(n)

Answer(n) ==
    \/ CampaignWon(n) \/ CampaignLost(n)
    \/ RenewOwn(n) \/ RenewLost(n) \/ Renewed(n)
    \/ ResignOwn(n) \/ ResignFails(n) \/ Resigned(n)

Caller(n) == Campaign(n) \/ Renew(n) \/ Resign(n) \/ Register(n)

Next ==
    \/ Tick
    \/ \E n \in Nodes :
        Server(n) \/ Answer(n) \/ Caller(n) \/ RenewTask(n) \/ Dropped(n) \/ Crash(n)

Spec == Init /\ [][Next]_vars

(* Time passes, and Redis gets to every command that is waiting. *)
FairSpec == Spec /\ WF_vars(Tick) /\ \A n \in Nodes : WF_vars(Server(n))

-----------------------------------------------------------------------------
(* A key that is held always expires, unless it is prolonged. *)
TypeOK ==
    /\ key \in [holder : Nodes, ttl : 1 .. Ttl] \cup {Free}
    /\ registered \in Nodes \cup {NoNode}
    /\ leaderValue \in [Nodes -> BOOLEAN]
    /\ isLeader \in [Nodes -> BOOLEAN]
    /\ renewing \in [Nodes -> BOOLEAN]
    /\ call \in [Nodes -> Calls]
    /\ since \in [Nodes -> 0 .. Ttl]
    /\ lease \in [Nodes -> 0 .. Ttl]
    /\ misfired \in BOOLEAN

(* A node that counts Ttl from when it sent its SET or EXPIRE, and was told  *)
(* that it is the leader, has the key for at least that long; so no two nodes *)
(* are within their leases at once, however commands, answers, expiries and  *)
(* crashes interleave. This needs that no EXPIRE or DEL, sent on what an     *)
(* earlier GET found, came to a key that was no longer its sender's.         *)
LeaseIsKept ==
    ~ misfired => \A n \in Nodes : lease[n] > 0 => key.holder = n /\ key.ttl >= lease[n]

(* A resign that hangs on its own lock has done all of its work for others:  *)
(* the key is no longer its node's, and the node no longer says it leads.    *)
HungHasResigned ==
    \A n \in Nodes : call[n].op = "hung" => ~ isLeader[n] /\ key.holder # n

(* "TTL prevents a deadlock": a node has the key for good only if it keeps   *)
(* on sending EXPIRE; from one that died or hangs it is taken.               *)
HeldByRenewing ==
    \A n \in Nodes : <>[](key.holder = n) => []<>Sent(n, "EXPIRE")

-----------------------------------------------------------------------------
(* What the documents say and the code does not keep. *)

(* "Only one leader": is_leader is a flag that an expiry does not clear, so a *)
(* node goes on to say that it leads when another one does.                  *)
OneLeader == \A n, m \in Nodes : isLeader[n] /\ isLeader[m] => n = m

(* "Renewed periodically to stay the leader": a node that leads has a task   *)
(* that renews; the one that campaign starts ends at its first tick.         *)
LeaderRenews == \A n \in Nodes : isLeader[n] => renewing[n]

(* "A GET checks that the value is the node's": no EXPIRE and no DEL meets a *)
(* key that has become another's since the GET.                              *)
OwnKeyOnly == ~ misfired

(* A resign that Redis has answered returns to its caller. *)
ResignReturns == \A n \in Nodes : call[n].op # "hung"

=============================================================================
