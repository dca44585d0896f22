------------------------------- MODULE FeedProps -------------------------------
(***************************************************************************)
(* What the cached feed guarantees.                                        *)
(***************************************************************************)
EXTENDS Feed

\* Types: no post has two rows, and each list, event and handler is one that the
\* post handlers, get_feed and FeedConsumer can have made.
TypeOK ==
    /\ posts \in Seq(Row)
    /\ \A i, j \in DOMAIN posts : posts[i].post = posts[j].post => i = j
    /\ used \subseteq Post
    /\ wal \in Seq(Seq(Row))
    /\ replica \in Seq(Row)
    /\ feed \in [User -> Seq(Entry)]
    /\ queue \in Seq(Event)
    /\ unacked \in Seq(Event)
    /\ consumer \in {Idle, [pc |-> "gone"]}
                    \union [pc : {"fan"}, todo : SUBSET User]
                    \union [pc : {"trim"}, todo : SUBSET User, at : User]
    /\ writer \in [Writer -> {Idle} \union [pc : {"update", "delete"}, post : Post]
                                    \union [pc : {"publish"}, event : Event]]
    /\ reader \in [Reader -> {Idle} \union [pc : {"select"}, user : User]
                                    \union [pc : {"push"}, user : User, rows : Seq(Row)]]
    /\ lost \subseteq Post

Invalidates(event, p) == event.kind /= "CREATED" /\ event.post = p

\* An update or a deletion of p is on its way to the list of u.
Pending(u, p) ==
    \/ \E w \in Writer : writer[w].pc = "publish" /\ Invalidates(writer[w].event, p)
    \/ \E i \in DOMAIN unacked : Invalidates(unacked[i], p)
    \/ \E i \in DOMAIN queue :
        /\ Invalidates(queue[i], p)
        /\ i = 1 /\ consumer.pc \in {"fan", "trim"} => u \in consumer.todo

Stale(e) == ~IsCurrent(e.id[2], e.ver)

\* A cached post that has been updated or deleted since it was pushed has its
\* invalidation on the way, through redeliveries, skipped deliveries and
\* restarts of the consumer; only a handler that ended between its commit and
\* its publication leaves it.  (What is stale when it is pushed stays.)
CurrentUntilInvalidated ==
    \A u \in User : \A i \in DOMAIN feed[u] :
        LET e == feed[u][i] IN
            e.current /\ Stale(e) => Pending(u, e.id[2]) \/ e.id[2] \in lost
==============================================================================
