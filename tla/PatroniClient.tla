------------------------------ MODULE PatroniClient ------------------------------
(***************************************************************************)
(* A request of Patroni to etcd: the list of servers the client keeps and  *)
(* how it is learned, the attempts on one server after the other, their    *)
(* timeouts, the retries, and how long all that takes.  A primary keeps its *)
(* lock only if it renews it before the ttl is over, and demotes itself     *)
(* only when a renewal has failed.                                          *)
(***************************************************************************)
EXTENDS Integers, Sequences, FiniteSets

CONSTANTS Server, Hosts,     \* Hosts: the servers of the configuration
          Clusters,          \* the clusters to begin with: sets of servers
          Second, Read,      \* a second and retry_timeout (the read timeout as well) in units of time
          Delays, Jitter,    \* the delays between retries, in order, and what is added at random
          MaxFaults          \* for each size of the cluster, bounds changes of a server's
                             \* condition and of the membership

VARIABLES
    cond, members,           \* the servers: each one's condition, the cluster's members
    machines, base, reload, old,   \* _machines_cache, _base_uri, _update_machines_cache, the cache's age
    pc, known, list, total,  \* the call: the servers it knows, those still to try and the time for each
    after, failed,           \* what follows a refresh; some_request_failed
    retry, delay, clock,     \* whether the call is retried; the delay's number; the time it has taken
    refreshing, leaderless,  \* the time that went into refreshing the list; a server had no leader
    reach,                   \* servers that would have answered since the call began
    faults
vars == <<cond, members, machines, base, reload, old, pc, known, list, total, after, failed, retry, delay, clock,
          refreshing, leaderless, reach, faults>>
servers == <<cond, members>>
client == <<machines, base, reload, old>>
timing == <<retry, delay>>

Orders(S) == {s \in [1 .. Cardinality(S) -> S] : {s[k] : k \in DOMAIN s} = S}
Elements(s) == {s[k] : k \in DOMAIN s}
Least(a, b) == IF a < b THEN a ELSE b

Condition == {"up", "refuses", "silent", "minority"}

Init ==
    /\ cond \in {[s \in Server |-> c] : c \in Condition} /\ members \in Clusters
    /\ machines \in Orders(members) /\ base \in members /\ reload = FALSE /\ old = FALSE
    /\ pc = "idle" /\ known = <<>> /\ list = <<>> /\ total = 0 /\ after = "" /\ failed = FALSE
    /\ retry = FALSE /\ delay = 1 /\ clock = 0 /\ refreshing = 0 /\ leaderless = FALSE /\ reach = {} /\ faults = 0

-----------------------------------------------------------------------------
(* Servers, and time for each of them.                                      *)

\* A server refuses connections, does not answer, or answers that it has no leader.
Changes ==
    /\ faults < MaxFaults[Cardinality(members)] /\ faults' = faults + 1
    /\ \/ \E s \in members, c \in Condition :
             cond' = [cond EXCEPT ![s] = c] /\ reach' = (IF c = "up" THEN reach ELSE reach \ {s}) /\ UNCHANGED members
       \/ \E s \in Server \ members, t \in members :      \* a member is replaced
             /\ members' = (members \ {t}) \cup {s} /\ reach' = reach \ {t}
             /\ cond' = [cond EXCEPT ![s] = "up", ![t] = "refuses"]
    /\ UNCHANGED <<client, pc, known, list, total, after, failed, timing, clock, refreshing, leaderless>>

Answers(s) == s \in members /\ cond[s] \in {"up", "minority"}
Cost(s) == IF cond[s] = "silent" THEN total ELSE 0

\* How many servers there is time for, and the time for each of them, retries included: a
\* request to a single server is retried twice, to one of two once.
_calculate_timeouts(n, t) ==
    LET Enough == {m \in 1 .. n : t \div m >= Second}
    IN IF Enough = {} THEN [nodes |-> 0, time |-> t]
       ELSE LET m == CHOOSE m \in Enough : \A k \in Enough : k <= m
                tries == {1} \cup {r \in 1 .. (IF m = n THEN 4 - Least(n, 3) ELSE 1) : t \div m >= r * Second}
                r == CHOOSE r \in tries : \A k \in tries : k <= r
            IN [nodes |-> m, time |-> r * ((t \div m) \div r)]

\* The server in use first.
InOrder(b, m) == (IF b \in Elements(m) THEN <<b>> ELSE <<>>) \o SelectSeq(m, LAMBDA s : s /= b)
machines_cache == InOrder(base, machines)
Try(l, t) == list' = l /\ total' = t
End == list' = <<>> /\ total' = 0 /\ after' = ""

-----------------------------------------------------------------------------
(* A call.                                                                  *)

\* reach: where the answer to this call would be found.
Call == /\ pc = "idle" /\ pc' = "start" /\ retry' \in BOOLEAN
        /\ reach' = {s \in members : cond[s] = "up"
                                     /\ (s \in Elements(machines) \/ (reload /\ s \in Hosts))}
        /\ UNCHANGED <<servers, client, known, list, total, after, failed, delay, clock, refreshing, leaderless, faults>>
Expires == pc = "idle" /\ ~old /\ old' = TRUE
           /\ UNCHANGED <<servers, machines, base, reload, pc, known, list, total, after, failed, timing, clock,
                          refreshing, leaderless, reach, faults>>

\* Ask the servers of the list for the members: after a failure also those of the
\* configuration.
Refresh(then, S) == /\ \E l \in Orders(S) : Try(l, _calculate_timeouts(Len(l), Read).time)
                    /\ pc' = "refresh" /\ after' = then
\* Variant: only those of the list.
AsksOnlyKnown(then) == reload' = TRUE /\ Refresh(then, Elements(machines))
_load_machines_cache(then) == reload' = TRUE /\ Refresh(then, Hosts \cup Elements(machines))

\* Every server is tried, whatever number there is time for.
Pass == /\ Try(machines_cache, _calculate_timeouts(Len(machines), Read).time)
        /\ known' = machines_cache /\ pc' = "pass" /\ failed' = FALSE
api_execute ==
    /\ pc = "start"
    /\ \/ reload /\ _load_machines_cache("start") /\ UNCHANGED <<known, failed>>
       \/ ~reload /\ old /\ Refresh("expired", Elements(machines)) /\ UNCHANGED <<reload, known, failed>>
       \/ ~reload /\ ~old /\ Pass /\ UNCHANGED <<reload, after>>
    /\ UNCHANGED <<servers, machines, base, old, timing, clock, refreshing, leaderless, reach, faults>>

\* What follows a refresh.
Then == CASE after \in {"start", "expired"} -> "begin" [] after \in {"answered", "retry"} -> after [] OTHER -> "again"
NewBase(m) == IF base \in Elements(m) THEN base ELSE m[1]
\* The first server that answers: its members are the new list.
_get_machines_list ==
    /\ pc = "refresh" /\ list /= <<>>
    /\ clock' = clock + Cost(list[1]) /\ refreshing' = refreshing + Cost(list[1])
    /\ \/ ~Answers(list[1]) /\ list' = Tail(list) /\ UNCHANGED <<client, known, pc, total, after>>
       \/ /\ Answers(list[1]) /\ machines' \in Orders(members)
          /\ base' = NewBase(machines')
          /\ reload' = (reload /\ after \in {"expired", "answered", "retry"}) /\ old' = FALSE
          /\ known' = IF members = Elements(machines) THEN known ELSE InOrder(base', machines')
          /\ pc' = Then /\ End
    /\ UNCHANGED <<servers, failed, timing, leaderless, reach, faults>>
\* Nobody answers: only a call that begins with it fails.
_refresh_machines_cache ==
    /\ pc = "refresh" /\ list = <<>> /\ pc' = (IF after = "start" THEN "failed" ELSE Then) /\ End
    /\ UNCHANGED <<servers, client, known, failed, timing, clock, refreshing, leaderless, reach, faults>>
Begin == /\ pc = "begin" /\ Pass
         /\ UNCHANGED <<servers, client, after, timing, clock, refreshing, leaderless, reach, faults>>

\* One server after the other; without retries only the first, and the next call
\* begins with the next one.
NextServer == IF Len(list) > 1 THEN list[2] ELSE base
_do_http_request ==
    /\ pc = "pass" /\ list /= <<>> /\ ~Answers(list[1])
    /\ clock' = clock + Cost(list[1])
    /\ IF retry THEN list' = Tail(list) /\ failed' = TRUE /\ UNCHANGED <<base, pc>>
       ELSE base' = NextServer /\ pc' = "failed" /\ UNCHANGED <<list, failed>>
    /\ UNCHANGED <<servers, machines, reload, old, known, total, after, timing, refreshing, leaderless, reach, faults>>
\* An answer, if only that there is no leader; from another server than the first the
\* list is learned as well.
Answered ==
    /\ pc = "pass" /\ list /= <<>> /\ Answers(list[1])
    /\ leaderless' = (leaderless \/ cond[list[1]] = "minority")
    /\ LET then == IF cond[list[1]] = "up" THEN "answered" ELSE "retry"
       IN IF failed THEN base' = list[1] /\ Refresh(then, Elements(machines))
          ELSE pc' = then /\ UNCHANGED <<base, list, total, after>>
    /\ UNCHANGED <<servers, machines, reload, old, known, failed, timing, clock, refreshing, reach, faults>>

Sleep(j) == Delays[delay] + j
Later == delay' = IF delay < Len(Delays) THEN delay + 1 ELSE delay
Exceeded(j) == clock + Sleep(j) >= Read
\* The retries: a server that has lost its leader is asked again, and only it.
Retry ==
    /\ pc = "retry"
    /\ \E j \in Jitter :
          IF ~retry \/ Exceeded(j) THEN pc' = "failed" /\ UNCHANGED <<clock, delay>>
          ELSE pc' = "start" /\ clock' = clock + Sleep(j) /\ Later
    /\ End /\ known' = <<>> /\ failed' = FALSE
    /\ UNCHANGED <<servers, client, retry, refreshing, leaderless, reach, faults>>

\* No server of the list has answered: learn the list anew, then try as many as
\* there is time for.
NoMore ==
    /\ pc = "pass" /\ list = <<>> /\ _load_machines_cache("again")
    /\ UNCHANGED <<servers, machines, base, old, known, failed, timing, clock, refreshing, leaderless, reach, faults>>
Again ==
    /\ pc = "again"
    /\ \E j \in Jitter :
          LET t == _calculate_timeouts(Len(known), Read - clock - Sleep(j))
          IN IF t.nodes = 0 THEN pc' = "failed" /\ reload' = TRUE /\ UNCHANGED <<clock, delay, list, total>>
             ELSE /\ clock' = clock + Sleep(j) /\ Later /\ pc' = "pass" /\ UNCHANGED reload
                  /\ Try(SubSeq(known, 1, t.nodes), t.time)
    /\ UNCHANGED <<servers, machines, base, old, known, after, failed, retry, refreshing, leaderless, reach, faults>>

Return == /\ pc \in {"answered", "failed"} /\ pc' = "idle" /\ clock' = 0 /\ refreshing' = 0 /\ leaderless' = FALSE
          /\ reach' = {} /\ known' = <<>> /\ End /\ delay' = 1
          /\ failed' = FALSE /\ retry' = FALSE
          /\ UNCHANGED <<servers, client, faults>>

Next == Changes \/ Call \/ Expires \/ api_execute \/ _get_machines_list \/ _refresh_machines_cache \/ Begin
        \/ _do_http_request \/ Answered \/ Retry \/ NoMore \/ Again \/ Return
Spec == Init /\ [][Next]_vars

-----------------------------------------------------------------------------
(* What a call may be relied on for. *)

\* Types, and: the server in use is one of the list between calls.
ClientTypeOK ==
    /\ members \subseteq Server /\ Elements(machines) \subseteq Server /\ Len(machines) = Cardinality(Elements(machines))
    /\ pc \in {"idle", "start", "refresh", "begin", "pass", "again", "retry", "answered", "failed"}
    /\ (pc = "idle" => base \in Elements(machines))
    /\ total \in 0 .. Read /\ delay \in 1 .. Len(Delays) /\ clock \in Nat

\* A call that is retried fails only if none of the servers the client knew would have
\* answered all the time; unless it was the answer of a server without a leader, which
\* is asked again instead of another one (Retry, etcd.py:466-468).
ReachesAServer ==
    pc = "failed" /\ retry => reach = {} \/ leaderless

\* What it takes to try up to k servers when none of them answers.  Each gets a second at
\* least, whatever number there is of them (etcd.py:130-142, 230): for more servers than
\* retry_timeout has seconds it is longer than retry_timeout.
Longest(k) == LET Trying(n) == n * _calculate_timeouts(n, Read).time
              IN CHOOSE t \in {Read} \cup {Trying(n) : n \in 1 .. k} : t >= Read /\ \A n \in 1 .. k : t >= Trying(n)

\* The attempts of a call take no longer than retry_timeout, as loop_wait +
\* 2 * retry_timeout <= ttl takes for granted, if that has a second for every server,
\* but: learning the list of servers is not counted (etcd.py:270-273, 289), and each
\* retry by Retry may take that time again (etcd.py:278).
InTime == clock - refreshing <= Read \/ leaderless \/ clock - refreshing <= Longest(Cardinality(members))

\* How long a call takes in any case: its last retry starts before retry_timeout is over,
\* and may learn the list of servers, try them all and learn the list once more.
Bounded == clock <= Read \/ clock < Read + 3 * Longest(Cardinality(members) + Cardinality(Hosts))

\* A call succeeds where it can, and in time.
ClientSafe == ClientTypeOK /\ ReachesAServer /\ InTime /\ Bounded
=============================================================================
