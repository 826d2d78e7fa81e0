--------------------------- MODULE PipelineProofs ---------------------------
(***************************************************************************)
(* Theorems about the pipeline, for every set of items and workers, every  *)
(* policy and every limit: drain accounting is exact, nobody writes to the *)
(* sinks once Shutdown has returned, an accepted item does not vanish, a   *)
(* Flush that succeeded has it stored, no batch exceeds the limit of       *)
(* bytes, and with one worker no item overtakes another.                   *)
(***************************************************************************)
EXTENDS Pipeline, TLAPS, FiniteSetTheorems, SequenceTheorems

-----------------------------------------------------------------------------
(* Sequences and their elements.                                           *)

\* The empty sequence and the ones with a single element.
LEMMA ToSetSmall ==
    /\ ToSet(<<>>) = {} /\ Unique(<<>>)
    /\ \A x : ToSet(<<x>>) = {x} /\ Unique(<<x>>)
  BY DEF ToSet, Unique

\* A send: the channel holds the new item as well.
LEMMA ToSetAppend ==
    ASSUME NEW s \in Seq(Items), NEW x \in Items
    PROVE  /\ Append(s, x) \in Seq(Items)
           /\ Len(Append(s, x)) = Len(s) + 1
           /\ ToSet(Append(s, x)) = ToSet(s) \cup {x}
           /\ Unique(s) /\ x \notin ToSet(s) => Unique(Append(s, x))
  <1>1. /\ Append(s, x) \in Seq(Items)
        /\ Len(Append(s, x)) = Len(s) + 1
        /\ DOMAIN Append(s, x) = 1 .. Len(s) + 1
        /\ DOMAIN s = 1 .. Len(s) /\ Len(s) \in Nat
        /\ \A j \in 1 .. Len(s) : Append(s, x)[j] = s[j]
        /\ Append(s, x)[Len(s) + 1] = x
    OBVIOUS
  <1>2. ToSet(Append(s, x)) = ToSet(s) \cup {x}
    <2>1. \A j \in 1 .. Len(s) + 1 : j \in 1 .. Len(s) \/ j = Len(s) + 1
      BY <1>1
    <2>2. 1 .. Len(s) \subseteq 1 .. Len(s) + 1 /\ Len(s) + 1 \in 1 .. Len(s) + 1
      BY <1>1
    <2>3. QED
      BY <1>1, <2>1, <2>2 DEF ToSet
  <1>3. Unique(s) /\ x \notin ToSet(s) => Unique(Append(s, x))
    BY <1>1 DEF ToSet, Unique
  <1>4. QED
    BY <1>1, <1>2, <1>3

\* A receive: the channel holds what it held, less the item received.
LEMMA ToSetTail ==
    ASSUME NEW s \in Seq(Items), s # <<>>
    PROVE  /\ Tail(s) \in Seq(Items) /\ Len(Tail(s)) = Len(s) - 1
           /\ Head(s) \in Items /\ Head(s) \in ToSet(s)
           /\ Unique(s) => /\ Unique(Tail(s))
                           /\ ToSet(Tail(s)) = ToSet(s) \ {Head(s)}
  <1>1. /\ Tail(s) \in Seq(Items) /\ Len(Tail(s)) = Len(s) - 1
        /\ Head(s) \in Items /\ Head(s) = s[1] /\ 1 \in DOMAIN s
        /\ DOMAIN s = 1 .. Len(s) /\ Len(s) \in Nat \ {0}
        /\ DOMAIN Tail(s) = 1 .. Len(s) - 1
        /\ \A j \in 1 .. Len(s) - 1 : Tail(s)[j] = s[j + 1]
    OBVIOUS
  <1>2. Head(s) \in ToSet(s)
    BY <1>1 DEF ToSet
  <1>3. ASSUME Unique(s) PROVE Unique(Tail(s))
    BY <1>1, <1>3 DEF Unique
  <1>4. ASSUME Unique(s) PROVE ToSet(Tail(s)) = ToSet(s) \ {Head(s)}
    <2>1. ASSUME NEW j \in 1 .. Len(s) - 1
          PROVE  Tail(s)[j] \in ToSet(s) \ {Head(s)}
      <3>1. j + 1 \in DOMAIN s /\ j + 1 # 1
        BY <1>1
      <3>2. s[j + 1] # s[1]
        BY <1>1, <1>4, <3>1 DEF Unique
      <3>3. QED
        BY <1>1, <3>1, <3>2 DEF ToSet
    <2>2. ASSUME NEW j \in DOMAIN s, s[j] # Head(s)
          PROVE  s[j] \in ToSet(Tail(s))
      <3>1. j - 1 \in 1 .. Len(s) - 1
        BY <1>1, <2>2
      <3>2. Tail(s)[j - 1] = s[j]
        BY <1>1, <3>1
      <3>3. QED
        BY <1>1, <3>1, <3>2 DEF ToSet
    <2>3. QED
      BY <1>1, <2>1, <2>2 DEF ToSet
  <1>5. QED
    BY <1>1, <1>2, <1>3, <1>4

\* A batch without repetitions has as many items as it is long.
LEMMA CountUnique ==
    ASSUME NEW s \in Seq(Items), Unique(s)
    PROVE  /\ IsFiniteSet(ToSet(s)) /\ ToSet(s) \subseteq Items
           /\ Cardinality(ToSet(s)) = Len(s)
  <1>1. Len(s) \in Nat /\ DOMAIN s = 1 .. Len(s) /\ s \in [1 .. Len(s) -> Items]
    OBVIOUS
  <1>2. ToSet(s) \subseteq Items
    BY <1>1 DEF ToSet
  <1>3. s \in Bijection(1 .. Len(s), ToSet(s))
    <2>1. s \in [1 .. Len(s) -> ToSet(s)]
      BY <1>1 DEF ToSet
    <2>2. \A x \in ToSet(s) : \E j \in 1 .. Len(s) : s[j] = x
      BY <1>1 DEF ToSet
    <2>3. \A j, k \in 1 .. Len(s) : s[j] = s[k] => j = k
      BY <1>1 DEF Unique
    <2>4. s \in Injection(1 .. Len(s), ToSet(s))
      BY <2>1, <2>3 DEF Injection, IsInjective
    <2>5. s \in Surjection(1 .. Len(s), ToSet(s))
      BY <2>1, <2>2 DEF Surjection
    <2>6. QED
      BY <2>4, <2>5 DEF Bijection
  <1>4. ExistsBijection(1 .. Len(s), ToSet(s))
    BY <1>3 DEF ExistsBijection
  <1>5. Cardinality(ToSet(s)) = Len(s)
    BY <1>1, <1>4, FS_CountingElements
  <1>6. IsFiniteSet(ToSet(s))
    BY <1>2, ItemsAssumption, FS_Subset
  <1>7. QED
    BY <1>2, <1>5, <1>6

-----------------------------------------------------------------------------
(* The items in flight.                                                    *)

\* They are finitely many, so they can be counted.
LEMMA InFlightFinite ==
    ASSUME TypeOK
    PROVE  /\ InFlight \subseteq Items /\ IsFiniteSet(InFlight)
           /\ Cardinality(InFlight) \in Nat
  <1>1. InEnqueue \subseteq Items
    BY DEF InEnqueue
  <1>2. ToSet(queue) \subseteq Items
    BY DEF ToSet, TypeOK
  <1>3. ASSUME NEW w \in Workers PROVE WithWorker(w) \subseteq Items
    <2>1. batch[w] \in Seq(Items) /\ carry[w] \in Items \cup {None}
      BY DEF TypeOK
    <2>2. ToSet(batch[w]) \subseteq Items
      BY <2>1 DEF ToSet
    <2>3. QED
      BY <2>1, <2>2 DEF WithWorker
  <1>4. InFlight \subseteq Items
    BY <1>1, <1>2, <1>3 DEF InFlight, Held
  <1>5. QED
    BY <1>4, ItemsAssumption, FS_Subset, FS_CardinalityType

\* What all workers hold, seen from one of them.
LEMMA HeldBy ==
    ASSUME NEW w \in Workers,
           \A v \in Workers \ {w} : WithWorker(v)' = WithWorker(v)
    PROVE  LET others == UNION {WithWorker(v) : v \in Workers \ {w}}
           IN  /\ Held = others \cup WithWorker(w)
               /\ Held' = others \cup WithWorker(w)'
  BY DEF Held

-----------------------------------------------------------------------------
(* Drain accounting: what every action does to the items in flight.        *)

\* A reservation adds an item that is not in flight.
LEMMA ReserveCount ==
    ASSUME IInv, NEW i \in Items, Reserve(i)
    PROVE  InFlight' = InFlight \cup {i} /\ i \notin InFlight
  <1> USE DEF IInv
  <1>1. /\ epc[i] = "reserve" /\ epc' = [epc EXCEPT ![i] = "offer"]
        /\ UNCHANGED <<queue, batch, carry>>
    BY DEF Reserve, workers
  <1>2. InEnqueue' = InEnqueue \cup {i}
    BY <1>1 DEF InEnqueue, TypeOK
  <1>3. ToSet(queue)' = ToSet(queue) /\ Held' = Held
    BY <1>1 DEF ToSet, Held, WithWorker
  <1>4. i \notin InEnqueue /\ i \notin ToSet(queue)
    BY <1>1 DEF InEnqueue, Apart
  <1>5. i \notin Held
    BY <1>1 DEF Apart, Held
  <1>6. QED
    BY <1>2, <1>3, <1>4, <1>5 DEF InFlight

\* A return without the item on the queue gives the reservation back.
LEMMA ReleaseCount ==
    ASSUME IInv, NEW i \in Items, Release(i)
    PROVE  InFlight' = InFlight \ {i} /\ i \in InFlight
  <1> USE DEF IInv
  <1>1. /\ epc[i] = "release" /\ epc' = [epc EXCEPT ![i] = "returned"]
        /\ UNCHANGED <<queue, batch, carry>>
    BY DEF Release, workers
  <1>2. InEnqueue' = InEnqueue \ {i} /\ i \in InEnqueue
    BY <1>1 DEF InEnqueue, TypeOK
  <1>3. ToSet(queue)' = ToSet(queue) /\ Held' = Held
    BY <1>1 DEF ToSet, Held, WithWorker
  <1>4. i \notin ToSet(queue)
    BY <1>1 DEF Apart
  <1>5. i \notin Held
    BY <1>1 DEF Apart, Held
  <1>6. QED
    BY <1>2, <1>3, <1>4, <1>5 DEF InFlight

\* DropOldest takes the head of the queue out of flight.
LEMMA EvictCount ==
    ASSUME IInv, NEW i \in Items, Evict(i)
    PROVE  /\ InFlight' = InFlight \ {Head(queue)}
           /\ Head(queue) \in InFlight
  <1> USE DEF IInv
  <1>1. /\ epc[i] = "evict" /\ epc' = [epc EXCEPT ![i] = "reoffer"]
        /\ queue # <<>> /\ queue' = Tail(queue)
        /\ UNCHANGED <<batch, carry>>
    BY DEF Evict, workers
  <1>2. InEnqueue' = InEnqueue
    BY <1>1 DEF InEnqueue, TypeOK
  <1>3. /\ ToSet(queue)' = ToSet(queue) \ {Head(queue)}
        /\ Head(queue) \in ToSet(queue)
    <2>1. queue \in Seq(Items) /\ Unique(queue)
      BY DEF TypeOK, Apart
    <2>2. ToSet(Tail(queue)) = ToSet(queue) \ {Head(queue)}
      BY <1>1, <2>1, ToSetTail
    <2>3. ToSet(queue)' = ToSet(Tail(queue))
      BY <1>1 DEF ToSet
    <2>4. QED
      BY <1>1, <2>1, <2>2, <2>3, ToSetTail
  <1>4. Held' = Held
    BY <1>1 DEF Held, WithWorker, ToSet
  <1>5. Head(queue) \notin InEnqueue /\ Head(queue) \notin Held
    <2>1. epc[Head(queue)] = "returned"
      BY <1>3 DEF Apart
    <2>2. \A w \in Workers : Head(queue) \notin WithWorker(w)
      BY <1>3 DEF Apart
    <2>3. QED
      BY <2>1, <2>2 DEF InEnqueue, Held
  <1>6. QED
    BY <1>2, <1>3, <1>4, <1>5 DEF InFlight

\* A send moves the item from its Enqueue to the queue.
LEMMA SendCount ==
    ASSUME IInv, NEW i \in Items, Send(i)
    PROVE  InFlight' = InFlight
  <1> USE DEF IInv
  <1>1. /\ epc[i] \in {"offer", "reoffer"}
        /\ epc' = [epc EXCEPT ![i] = "returned"]
        /\ queue' = Append(queue, i)
        /\ UNCHANGED <<batch, carry>>
    BY DEF Send, workers
  <1>2. InEnqueue' = InEnqueue \ {i} /\ i \in InEnqueue
    BY <1>1 DEF InEnqueue, TypeOK
  <1>3. ToSet(queue)' = ToSet(queue) \cup {i}
    <2>1. ToSet(Append(queue, i)) = ToSet(queue) \cup {i}
      BY ToSetAppend DEF TypeOK
    <2>2. QED
      BY <1>1, <2>1 DEF ToSet
  <1>4. Held' = Held
    BY <1>1 DEF Held, WithWorker, ToSet
  <1>5. QED
    BY <1>2, <1>3, <1>4 DEF InFlight

\* A worker takes the head of the queue, or turns its carry into a batch.
LEMMA TakeHeld ==
    ASSUME IInv, NEW w \in Workers, NextItem(w) \/ Collect(w)
    PROVE  /\ \/ queue' = queue /\ WithWorker(w)' = WithWorker(w)
              \/ /\ queue # <<>> /\ queue' = Tail(queue)
                 /\ WithWorker(w)' = WithWorker(w) \cup {Head(queue)}
           /\ Unique(batch[w])' /\ carry'[w] \notin ToSet(batch[w])'
  <1> USE DEF IInv
  <1>1. /\ queue \in Seq(Items) /\ Unique(batch[w]) /\ batch[w] \in Seq(Items)
        /\ carry[w] \notin ToSet(batch[w])
    BY DEF TypeOK, Apart
  <1>2. queue # <<>> => /\ Head(queue) \in ToSet(queue) /\ Head(queue) \in Items
                        /\ Head(queue) # None
    BY <1>1, ToSetTail, ItemsAssumption
  <1>3. \A i \in ToSet(queue) : i \notin WithWorker(w)
    BY DEF Apart
  <1>4. CASE NextItem(w) /\ carry[w] # None
    <2>1. /\ queue' = queue /\ batch' = [batch EXCEPT ![w] = <<carry[w]>>]
          /\ carry' = [carry EXCEPT ![w] = None] /\ batch[w] = <<>>
      BY <1>4 DEF NextItem, WorkerOK
    <2>2. /\ ToSet(<<>>) = {} /\ ToSet(<<carry[w]>>) = {carry[w]}
          /\ Unique(<<carry[w]>>)
      BY ToSetSmall
    <2>3. batch'[w] = <<carry[w]>> /\ carry'[w] = None
      BY <2>1 DEF TypeOK
    <2>4. ToSet(batch[w])' = {carry[w]} /\ Unique(batch[w])'
      BY <2>2, <2>3 DEF ToSet, Unique
    <2>5. QED
      BY <1>4, <2>1, <2>2, <2>3, <2>4 DEF WithWorker
  <1>5. CASE NextItem(w) /\ carry[w] = None
    <2>1. /\ queue # <<>> /\ queue' = Tail(queue) /\ batch[w] = <<>>
          /\ batch' = [batch EXCEPT ![w] = <<Head(queue)>>] /\ carry' = carry
      BY <1>5 DEF NextItem, WorkerOK
    <2>2. /\ ToSet(<<>>) = {} /\ ToSet(<<Head(queue)>>) = {Head(queue)}
          /\ Unique(<<Head(queue)>>)
      BY ToSetSmall
    <2>3. batch'[w] = <<Head(queue)>> /\ carry'[w] = None
      BY <1>5, <2>1 DEF TypeOK
    <2>4. ToSet(batch[w])' = {Head(queue)} /\ Unique(batch[w])'
      BY <2>2, <2>3 DEF ToSet, Unique
    <2>5. QED
      BY <1>2, <1>5, <2>1, <2>2, <2>3, <2>4 DEF WithWorker
  <1>6. CASE Collect(w) /\ HasRoom(w)
    <2>1. /\ queue # <<>> /\ queue' = Tail(queue)
          /\ batch' = [batch EXCEPT ![w] = Append(@, Head(queue))] /\ carry' = carry
          /\ carry[w] = None
      BY <1>6 DEF Collect, WorkerOK
    <2>2. Head(queue) \notin ToSet(batch[w])
      BY <1>2, <1>3, <2>1 DEF WithWorker
    <2>3. /\ ToSet(Append(batch[w], Head(queue)))
               = ToSet(batch[w]) \cup {Head(queue)}
          /\ Unique(Append(batch[w], Head(queue)))
      BY <1>1, <1>2, <2>1, <2>2, ToSetAppend
    <2>4. batch'[w] = Append(batch[w], Head(queue)) /\ carry'[w] = None
      BY <2>1 DEF TypeOK
    <2>5. /\ ToSet(batch[w])' = ToSet(batch[w]) \cup {Head(queue)}
          /\ Unique(batch[w])'
      BY <2>3, <2>4 DEF ToSet, Unique
    <2>6. QED
      BY <1>1, <1>2, <2>1, <2>4, <2>5 DEF WithWorker
  <1>7. CASE Collect(w) /\ ~HasRoom(w)
    <2>1. /\ queue # <<>> /\ queue' = Tail(queue)
          /\ carry' = [carry EXCEPT ![w] = Head(queue)] /\ batch' = batch
          /\ carry[w] = None
      BY <1>7 DEF Collect, WorkerOK
    <2>2. Head(queue) \notin ToSet(batch[w])
      BY <1>2, <1>3, <2>1 DEF WithWorker
    <2>3. carry'[w] = Head(queue)
      BY <2>1 DEF TypeOK
    <2>4. ToSet(batch[w])' = ToSet(batch[w]) /\ Unique(batch[w])'
      BY <1>1, <2>1 DEF ToSet, Unique
    <2>5. QED
      BY <1>2, <2>1, <2>2, <2>3, <2>4 DEF WithWorker
  <1>8. QED
    BY <1>4, <1>5, <1>6, <1>7

\* So what is in flight stays in flight.
LEMMA TakeCount ==
    ASSUME IInv, NEW w \in Workers, NextItem(w) \/ Collect(w)
    PROVE  InFlight' = InFlight
  <1> USE DEF IInv
  <1> DEFINE others == UNION {WithWorker(v) : v \in Workers \ {w}}
  <1>1. /\ epc' = epc
        /\ \A v \in Workers \ {w} : WithWorker(v)' = WithWorker(v)
    BY DEF NextItem, Collect, producers, WithWorker, ToSet, TypeOK
  <1>2. InEnqueue' = InEnqueue
    BY <1>1 DEF InEnqueue
  <1>3. Held = others \cup WithWorker(w) /\ Held' = others \cup WithWorker(w)'
    BY <1>1, HeldBy
  <1>4. CASE queue' = queue /\ WithWorker(w)' = WithWorker(w)
    <2>1. ToSet(queue)' = ToSet(queue)
      BY <1>4 DEF ToSet
    <2>2. QED
      BY <1>2, <1>3, <1>4, <2>1 DEF InFlight
  <1>5. CASE /\ queue # <<>> /\ queue' = Tail(queue)
             /\ WithWorker(w)' = WithWorker(w) \cup {Head(queue)}
    <2>1. /\ ToSet(Tail(queue)) = ToSet(queue) \ {Head(queue)}
          /\ Head(queue) \in ToSet(queue)
      BY <1>5, ToSetTail DEF TypeOK, Apart
    <2>2. ToSet(queue)' = ToSet(queue) \ {Head(queue)}
      BY <1>5, <2>1 DEF ToSet
    <2>3. QED
      BY <1>2, <1>3, <1>5, <2>1, <2>2 DEF InFlight
  <1>6. QED
    BY <1>4, <1>5, TakeHeld

\* A worker that finishes takes its batch out of flight, and not its carry.
LEMMA FinishCount ==
    ASSUME IInv, NEW w \in Workers, FinishBatch(w)
    PROVE  /\ InFlight' = InFlight \ ToSet(batch[w])
           /\ ToSet(batch[w]) \subseteq InFlight
           /\ Cardinality(ToSet(batch[w])) = Handled(w)
  <1> USE DEF IInv
  <1> DEFINE others == UNION {WithWorker(v) : v \in Workers \ {w}}
  <1>1. /\ epc' = epc /\ queue' = queue /\ carry' = carry
        /\ batch' = [batch EXCEPT ![w] = <<>>]
    BY DEF FinishBatch, producers
  <1>2. InEnqueue' = InEnqueue /\ ToSet(queue)' = ToSet(queue)
    BY <1>1 DEF InEnqueue, ToSet
  <1>3. \A v \in Workers \ {w} : WithWorker(v)' = WithWorker(v)
    BY <1>1 DEF WithWorker, ToSet, TypeOK
  <1>4. Held = others \cup WithWorker(w) /\ Held' = others \cup WithWorker(w)'
    BY <1>3, HeldBy
  <1>5. WithWorker(w)' = WithWorker(w) \ ToSet(batch[w])
    <2>1. ToSet(<<>>) = {}
      BY ToSetSmall
    <2>2. ToSet(batch[w])' = {}
      BY <1>1, <2>1 DEF ToSet, TypeOK
    <2>3. carry[w] \notin ToSet(batch[w])
      BY DEF Apart
    <2>4. QED
      BY <1>1, <2>2, <2>3 DEF WithWorker
  <1>6. /\ \A i \in ToSet(batch[w]) : i \notin InEnqueue /\ i \notin ToSet(queue)
        /\ \A i \in ToSet(batch[w]) : i \notin others
    BY DEF Apart, WithWorker, InEnqueue
  <1>7. ToSet(batch[w]) \subseteq InFlight
    BY <1>4 DEF InFlight, WithWorker
  <1>8. Cardinality(ToSet(batch[w])) = Handled(w)
    BY CountUnique DEF Apart, TypeOK, Handled
  <1>9. QED
    BY <1>2, <1>4, <1>5, <1>6, <1>7, <1>8 DEF InFlight

\* Every other action leaves what is in flight and the counter alone.
LEMMA SameCount ==
    ASSUME IInv, [Next]_vars
    PROVE  \/ InFlight' = InFlight /\ pending' = pending
           \/ \E i \in Items : Reserve(i) \/ Release(i) \/ Evict(i)
           \/ \E w \in Workers : FinishBatch(w)
  <1> USE DEF IInv
  <1> DEFINE Same == InFlight' = InFlight /\ pending' = pending
             Other == \/ \E i \in Items : Reserve(i) \/ Release(i) \/ Evict(i)
                      \/ \E w \in Workers : FinishBatch(w)
  <1>a. ASSUME InEnqueue' = InEnqueue, UNCHANGED <<queue, batch, carry, pending>>
        PROVE  Same
    BY <1>a DEF InFlight, Held, WithWorker, ToSet
  <1>1. ASSUME NEW i \in Items, Call(i) PROVE Same \/ Other
    <2>1. InEnqueue' = InEnqueue
      BY <1>1 DEF Call, Leave, InEnqueue, TypeOK, producers
    <2>2. QED
      BY <1>1, <2>1, <1>a DEF Call, workers
  <1>2. ASSUME NEW i \in Items, Reserve(i) PROVE Same \/ Other
    BY <1>2
  <1>3. ASSUME NEW i \in Items, Send(i) PROVE Same \/ Other
    BY <1>3, SendCount DEF Send
  <1>4. ASSUME NEW i \in Items, Closed(i) PROVE Same \/ Other
    <2>1. InEnqueue' = InEnqueue
      BY <1>4 DEF Closed, Leave, InEnqueue, TypeOK, producers
    <2>2. QED
      BY <1>4, <2>1, <1>a DEF Closed, workers
  <1>5. ASSUME NEW i \in Items, Drop(i) PROVE Same \/ Other
    <2>1. InEnqueue' = InEnqueue
      BY <1>5 DEF Drop, Leave, InEnqueue, TypeOK, producers
    <2>2. QED
      BY <1>5, <2>1, <1>a DEF Drop, workers
  <1>6. ASSUME NEW i \in Items, Overfull(i) PROVE Same \/ Other
    <2>1. InEnqueue' = InEnqueue
      BY <1>6 DEF Overfull, Leave, InEnqueue, TypeOK, producers
    <2>2. QED
      BY <1>6, <2>1, <1>a DEF Overfull, workers
  <1>7. ASSUME NEW i \in Items, Evict(i) PROVE Same \/ Other
    BY <1>7
  <1>8. ASSUME NEW i \in Items, NoVictim(i) PROVE Same \/ Other
    <2>1. InEnqueue' = InEnqueue
      BY <1>8 DEF NoVictim, Leave, InEnqueue, TypeOK, producers
    <2>2. QED
      BY <1>8, <2>1, <1>a DEF NoVictim, workers
  <1>9. ASSUME NEW i \in Items, Overflow(i) PROVE Same \/ Other
    <2>1. InEnqueue' = InEnqueue
      BY <1>9 DEF Overflow, Leave, InEnqueue, TypeOK, producers
    <2>2. QED
      BY <1>9, <2>1, <1>a DEF Overflow, workers
  <1>10. ASSUME NEW i \in Items, WriteDirect(i) PROVE Same \/ Other
    <2>1. InEnqueue' = InEnqueue
      BY <1>10 DEF WriteDirect, Leave, InEnqueue, TypeOK, producers
    <2>2. QED
      BY <1>10, <2>1, <1>a DEF WriteDirect, workers
  <1>11. ASSUME NEW i \in Items, Release(i) PROVE Same \/ Other
    BY <1>11
  <1>12. ASSUME NEW w \in Workers, NextItem(w) PROVE Same \/ Other
    BY <1>12, TakeCount DEF NextItem
  <1>13. ASSUME NEW w \in Workers, WorkerExit(w) PROVE Same \/ Other
    <2>1. InEnqueue' = InEnqueue
      BY <1>13 DEF WorkerExit, Leave, InEnqueue, TypeOK, producers
    <2>2. QED
      BY <1>13, <2>1, <1>a DEF WorkerExit, workers
  <1>14. ASSUME NEW w \in Workers, Collect(w) PROVE Same \/ Other
    BY <1>14, TakeCount DEF Collect
  <1>15. ASSUME NEW w \in Workers, BatchEnds(w) PROVE Same \/ Other
    <2>1. InEnqueue' = InEnqueue
      BY <1>15 DEF BatchEnds, Leave, InEnqueue, TypeOK, producers
    <2>2. QED
      BY <1>15, <2>1, <1>a DEF BatchEnds, workers
  <1>16. ASSUME NEW w \in Workers, WriteBatch(w) PROVE Same \/ Other
    <2>1. InEnqueue' = InEnqueue
      BY <1>16 DEF WriteBatch, Leave, InEnqueue, TypeOK, producers
    <2>2. QED
      BY <1>16, <2>1, <1>a DEF WriteBatch, workers
  <1>17. ASSUME NEW w \in Workers, FinishBatch(w) PROVE Same \/ Other
    BY <1>17
  <1>18. ASSUME Tick PROVE Same \/ Other
    <2>1. InEnqueue' = InEnqueue
      BY <1>18 DEF Tick, Leave, InEnqueue, TypeOK, producers
    <2>2. QED
      BY <1>18, <2>1, <1>a DEF Tick, workers
  <1>19. ASSUME FlusherFlushes PROVE Same \/ Other
    <2>1. InEnqueue' = InEnqueue
      BY <1>19 DEF FlusherFlushes, Leave, InEnqueue, TypeOK, producers
    <2>2. QED
      BY <1>19, <2>1, <1>a DEF FlusherFlushes, workers
  <1>20. ASSUME FlusherExit PROVE Same \/ Other
    <2>1. InEnqueue' = InEnqueue
      BY <1>20 DEF FlusherExit, Leave, InEnqueue, TypeOK, producers
    <2>2. QED
      BY <1>20, <2>1, <1>a DEF FlusherExit, workers
  <1>21. ASSUME NEW c \in Callers, Begin(c) PROVE Same \/ Other
    <2>1. InEnqueue' = InEnqueue
      BY <1>21 DEF Begin, Leave, InEnqueue, TypeOK, producers
    <2>2. QED
      BY <1>21, <2>1, <1>a DEF Begin, workers
  <1>22. ASSUME NEW c \in Callers, Expire(c) PROVE Same \/ Other
    <2>1. InEnqueue' = InEnqueue
      BY <1>22 DEF Expire, Leave, InEnqueue, TypeOK, producers
    <2>2. QED
      BY <1>22, <2>1, <1>a DEF Expire, workers
  <1>23. ASSUME NEW c \in Callers, Check(c) PROVE Same \/ Other
    <2>1. InEnqueue' = InEnqueue
      BY <1>23 DEF Check, Leave, InEnqueue, TypeOK, producers
    <2>2. QED
      BY <1>23, <2>1, <1>a DEF Check, workers
  <1>24. ASSUME NEW c \in Callers, Join(c) PROVE Same \/ Other
    <2>1. InEnqueue' = InEnqueue
      BY <1>24 DEF Join, Leave, InEnqueue, TypeOK, producers
    <2>2. QED
      BY <1>24, <2>1, <1>a DEF Join, workers
  <1>25. ASSUME NEW c \in Callers, LastFlush(c) PROVE Same \/ Other
    <2>1. InEnqueue' = InEnqueue
      BY <1>25 DEF LastFlush, Leave, InEnqueue, TypeOK, producers
    <2>2. QED
      BY <1>25, <2>1, <1>a DEF LastFlush, workers
  <1>26. ASSUME UNCHANGED vars PROVE Same \/ Other
    <2>1. InEnqueue' = InEnqueue
      BY <1>26 DEF vars, InEnqueue, producers
    <2>2. QED
      BY <1>26, <2>1, <1>a DEF vars, workers
  <1>27. QED
    BY <1>1, <1>2, <1>3, <1>4, <1>5, <1>6, <1>7, <1>8, <1>9, <1>10,
       <1>11, <1>12, <1>13, <1>14, <1>15, <1>16, <1>17, <1>18, <1>19,
       <1>20, <1>21, <1>22, <1>23, <1>24, <1>25, <1>26
       DEF Next, Enqueue, WorkerStep, CallerStep

\* Every action keeps the counter equal to the number of items in flight.
LEMMA DrainStep ==
    ASSUME IInv, [Next]_vars
    PROVE  DrainAccounting' /\ pending' \in Nat
  <1>1. /\ IsFiniteSet(InFlight) /\ pending = Cardinality(InFlight)
        /\ pending \in Nat /\ InFlight \subseteq Items
    BY InFlightFinite DEF IInv, DrainAccounting, TypeOK
  <1>2. CASE InFlight' = InFlight /\ pending' = pending
    BY <1>1, <1>2 DEF DrainAccounting
  <1>3. ASSUME NEW i \in Items, Reserve(i) PROVE DrainAccounting' /\ pending' \in Nat
    <2>1. /\ InFlight' = InFlight \cup {i} /\ i \notin InFlight
          /\ pending' = pending + 1
      BY <1>3, ReserveCount DEF Reserve
    <2>2. Cardinality(InFlight \cup {i}) = Cardinality(InFlight) + 1
      BY <1>1, <2>1, FS_AddElement
    <2>3. QED
      BY <1>1, <2>1, <2>2 DEF DrainAccounting
  <1>4. ASSUME NEW x, x \in InFlight, InFlight' = InFlight \ {x}, FinishItems(1)
        PROVE  DrainAccounting' /\ pending' \in Nat
    <2>1. /\ IsFiniteSet(InFlight')
          /\ Cardinality(InFlight') = Cardinality(InFlight) - 1
      BY <1>1, <1>4, FS_RemoveElement
    <2>2. Cardinality(InFlight') \in Nat
      BY <2>1, FS_CardinalityType
    <2>3. QED
      BY <1>1, <1>4, <2>1, <2>2 DEF DrainAccounting, FinishItems
  <1>5. ASSUME NEW i \in Items, Release(i) PROVE DrainAccounting' /\ pending' \in Nat
    BY <1>4, <1>5, ReleaseCount DEF Release
  <1>6. ASSUME NEW i \in Items, Evict(i) PROVE DrainAccounting' /\ pending' \in Nat
    BY <1>4, <1>6, EvictCount DEF Evict
  <1>7. ASSUME NEW w \in Workers, FinishBatch(w)
        PROVE  DrainAccounting' /\ pending' \in Nat
    <2> DEFINE b == ToSet(batch[w])
    <2>1. /\ InFlight' = InFlight \ b /\ InFlight \cap b = b
          /\ Cardinality(b) = Handled(w)
      BY <1>7, FinishCount
    <2>2. pending' = pending - Handled(w)
      BY <1>7 DEF FinishBatch, FinishItems
    <2>3. /\ IsFiniteSet(InFlight \ b)
          /\ Cardinality(InFlight \ b)
               = Cardinality(InFlight) - Cardinality(InFlight \cap b)
      BY <1>1, FS_Difference
    <2>4. Cardinality(InFlight \ b) \in Nat
      BY <2>3, FS_CardinalityType
    <2>5. QED
      BY <1>1, <2>1, <2>2, <2>3, <2>4 DEF DrainAccounting
  <1>8. QED
    BY <1>2, <1>3, <1>5, <1>6, <1>7, SameCount

-----------------------------------------------------------------------------
(* Types.                                                                  *)

\* A sink that takes the first items of a batch holds items only.
LEMMA DeliverType ==
    ASSUME TypeOK, NEW s \in Seq(Items), NEW took,
           \A t \in Targets : took[t] \in 0 .. Len(s), Deliver(s, took)
    PROVE  /\ buffered' \in [Targets -> SUBSET Items]
           /\ stored' \in [Targets -> SUBSET Items]
           /\ written' \in Seq(Items)
  <1>1. /\ buffered \in [Targets -> SUBSET Items]
        /\ stored \in [Targets -> SUBSET Items]
        /\ written \in Seq(Items)
    BY DEF TypeOK
  <1>2. ASSUME NEW t \in Targets PROVE {s[j] : j \in 1 .. took[t]} \subseteq Items
    <2>1. ASSUME NEW j \in 1 .. took[t] PROVE s[j] \in Items
      <3>1. took[t] \in 0 .. Len(s) /\ Len(s) \in Nat
        OBVIOUS
      <3>2. j \in 1 .. Len(s)
        BY <3>1
      <3>3. QED
        BY <3>2
    <2>2. QED
      BY <2>1
  <1>3. buffered' \in [Targets -> SUBSET Items]
    BY <1>1, <1>2 DEF Deliver
  <1>4. written' \in Seq(Items)
    BY <1>1 DEF Deliver
  <1>5. QED
    BY <1>1, <1>3, <1>4 DEF Deliver

\* The same of a whole write, that succeeds or fails.
LEMMA WriteType ==
    ASSUME TypeOK, NEW s \in Seq(Items), WriteSucceeds(s) \/ WriteFails(s)
    PROVE  /\ buffered' \in [Targets -> SUBSET Items]
           /\ stored' \in [Targets -> SUBSET Items]
           /\ written' \in Seq(Items)
           /\ reported' \subseteq Items
           /\ faults' \in 0 .. MaxFaults
  <1>1. /\ Len(s) \in Nat /\ ToSet(s) \subseteq Items /\ MaxFaults \in Nat
        /\ reported \subseteq Items /\ faults \in 0 .. MaxFaults
    BY ConfigAssumption DEF ToSet, TypeOK
  <1>2. CASE WriteSucceeds(s)
    <2> DEFINE took == [t \in Targets |-> IF t \in Sinks THEN Len(s) ELSE 0]
    <2>1. \A t \in Targets : took[t] \in 0 .. Len(s)
      BY <1>1
    <2>2. Deliver(s, took) /\ reported' = reported /\ faults' = faults
      BY <1>2 DEF WriteSucceeds
    <2> HIDE DEF took
    <2>3. QED
      BY <1>1, <2>1, <2>2, DeliverType
  <1>3. CASE WriteFails(s)
    <2>1. PICK bad \in SUBSET Sinks \ {{}}, n \in 0 .. Len(s) - 1 :
            \E m \in {n, Len(s)} :
               /\ faults' = faults + (IF m = n THEN 2 ELSE 1)
               /\ Deliver(s, [t \in Targets |-> CASE t \in bad -> n
                                                [] t \in Sinks \ bad -> Len(s)
                                                [] OTHER -> m])
      BY <1>3 DEF WriteFails
    <2>2. PICK m \in {n, Len(s)} :
               /\ faults' = faults + (IF m = n THEN 2 ELSE 1)
               /\ Deliver(s, [t \in Targets |-> CASE t \in bad -> n
                                                [] t \in Sinks \ bad -> Len(s)
                                                [] OTHER -> m])
      BY <2>1
    <2> DEFINE took == [t \in Targets |-> CASE t \in bad -> n
                                          [] t \in Sinks \ bad -> Len(s)
                                          [] OTHER -> m]
    <2>3. \A t \in Targets : took[t] \in 0 .. Len(s)
      BY <1>1
    <2>4. Deliver(s, took)
      BY <2>2
    <2>5. faults' \in 0 .. MaxFaults
      BY <1>1, <1>3, <2>2 DEF WriteFails
    <2>6. reported' \subseteq Items
      BY <1>1, <1>3 DEF WriteFails
    <2> HIDE DEF took
    <2>7. QED
      BY <2>3, <2>4, <2>5, <2>6, DeliverType
  <1>4. QED
    BY <1>2, <1>3

\* And of a flush.
LEMMA FlushType ==
    ASSUME TypeOK, (FlushSinks(Targets) /\ UNCHANGED faults) \/ FlushFails
    PROVE  /\ buffered' \in [Targets -> SUBSET Items]
           /\ stored' \in [Targets -> SUBSET Items]
           /\ written' \in Seq(Items)
           /\ reported' \subseteq Items
           /\ faults' \in 0 .. MaxFaults
  <1>1. ASSUME NEW ok \in SUBSET Targets, FlushSinks(ok)
        PROVE  /\ buffered' \in [Targets -> SUBSET Items]
               /\ stored' \in [Targets -> SUBSET Items]
               /\ written' \in Seq(Items)
               /\ reported' \subseteq Items
    BY <1>1 DEF FlushSinks, TypeOK
  <1>2. faults' \in 0 .. MaxFaults
    BY ConfigAssumption DEF FlushFails, TypeOK
  <1>3. \E ok \in SUBSET Targets : FlushSinks(ok)
    BY DEF FlushFails
  <1>4. QED
    BY <1>1, <1>2, <1>3

\* The types of the counter and of the states of the callers, whoever counts.
LEMMA FinishType ==
    ASSUME TypeOK, NEW n, FinishItems(n)
    PROVE  /\ cpc' \in [Callers -> {"idle", "check", "asleep", "join", "drained",
                                    "ok", "failed"}]
           /\ expired' = expired /\ owed' = owed
  BY DEF FinishItems, Wake, TypeOK

\* Every step preserves the types.
LEMMA TypeStep ==
    ASSUME IInv, [Next]_vars
    PROVE  TypeOK'
  <1> USE DEF IInv
  <1>a. pending' \in Nat
    BY DrainStep
  <1>b. QueueSize \in Nat \ {0} /\ None \notin Items
    BY ConfigAssumption, ItemsAssumption
  <1>1. ASSUME NEW i \in Items, Call(i) PROVE TypeOK'
    BY <1>1, <1>a DEF Call, Leave, TypeOK, producers, workers, callers, sinks
  <1>2. ASSUME NEW i \in Items, Reserve(i) PROVE TypeOK'
    BY <1>2, <1>a DEF Reserve, Leave, TypeOK, producers, workers, callers, sinks
  <1>3. ASSUME NEW i \in Items, Send(i) PROVE TypeOK'
    <2>1. queue' \in Seq(Items) /\ Len(queue') <= QueueSize /\ sent' \in Seq(Items)
      BY <1>3, <1>b, ToSetAppend DEF Send, TypeOK
    <2>2. QED
      BY <1>3, <1>a, <2>1 DEF Send, TypeOK, workers, callers, sinks
  <1>4. ASSUME NEW i \in Items, Closed(i) PROVE TypeOK'
    BY <1>4, <1>a DEF Closed, Leave, TypeOK, producers, workers, callers, sinks
  <1>5. ASSUME NEW i \in Items, Drop(i) PROVE TypeOK'
    BY <1>5, <1>a DEF Drop, Leave, TypeOK, producers, workers, callers, sinks
  <1>6. ASSUME NEW i \in Items, Overfull(i) PROVE TypeOK'
    BY <1>6, <1>a DEF Overfull, Leave, TypeOK, producers, workers, callers, sinks
  <1>7. ASSUME NEW i \in Items, Evict(i) PROVE TypeOK'
    <2>1. /\ queue' \in Seq(Items) /\ Len(queue') <= QueueSize
          /\ evicted' \subseteq Items
      BY <1>7, <1>b, ToSetTail DEF Evict, TypeOK
    <2>2. QED
      BY <1>7, <1>a, <2>1, FinishType DEF Evict, TypeOK, workers, sinks
  <1>8. ASSUME NEW i \in Items, NoVictim(i) PROVE TypeOK'
    BY <1>8, <1>a DEF NoVictim, Leave, TypeOK, producers, workers, callers, sinks
  <1>9. ASSUME NEW i \in Items, Overflow(i) PROVE TypeOK'
    BY <1>9, <1>a DEF Overflow, Leave, TypeOK, producers, workers, callers, sinks
  <1>10. ASSUME NEW i \in Items, WriteDirect(i) PROVE TypeOK'
    <2>1. <<i>> \in Seq(Items)
      OBVIOUS
    <2>2. /\ WriteSucceeds(<<i>>) \/ WriteFails(<<i>>)
          /\ Leave(i, "accepted") \/ Leave(i, "failed")
      BY <1>10 DEF WriteDirect
    <2>3. /\ buffered' \in [Targets -> SUBSET Items]
          /\ stored' \in [Targets -> SUBSET Items]
          /\ written' \in Seq(Items) /\ reported' \subseteq Items
          /\ faults' \in 0 .. MaxFaults
      BY <2>1, <2>2, WriteType
    <2>4. QED
      BY <1>10, <1>a, <2>2, <2>3 DEF WriteDirect, Leave, TypeOK, workers, callers
  <1>11. ASSUME NEW i \in Items, Release(i) PROVE TypeOK'
    BY <1>11, <1>a, FinishType DEF Release, TypeOK, workers, sinks
  <1>12. ASSUME NEW w \in Workers, NextItem(w) PROVE TypeOK'
    <2>1. /\ queue \in Seq(Items) /\ Len(queue) <= QueueSize
          /\ queue # <<>> => /\ Tail(queue) \in Seq(Items)
                             /\ Len(Tail(queue)) <= QueueSize
                             /\ Head(queue) \in Items
      BY <1>b, ToSetTail DEF TypeOK
    <2>2. queue' \in Seq(Items) /\ Len(queue') <= QueueSize
      BY <1>12, <2>1 DEF NextItem
    <2>3. \A x \in Items : <<x>> \in Seq(Items)
      OBVIOUS
    <2>4. batch' \in [Workers -> Seq(Items)]
      <3>1. \E x \in Items : batch' = [batch EXCEPT ![w] = <<x>>]
        BY <1>12, <2>1 DEF NextItem, TypeOK
      <3>2. QED
        BY <2>3, <3>1 DEF TypeOK
    <2>5. carry' \in [Workers -> Items \cup {None}]
      BY <1>12 DEF NextItem, TypeOK
    <2>6. QED
      BY <1>12, <1>a, <2>2, <2>4, <2>5
         DEF NextItem, TypeOK, producers, callers, sinks
  <1>13. ASSUME NEW w \in Workers, WorkerExit(w) PROVE TypeOK'
    BY <1>13, <1>a DEF WorkerExit, Leave, TypeOK, producers, workers, callers, sinks
  <1>14. ASSUME NEW w \in Workers, Collect(w) PROVE TypeOK'
    <2>1. /\ queue' \in Seq(Items) /\ Len(queue') <= QueueSize
          /\ Head(queue) \in Items
      BY <1>14, <1>b, ToSetTail DEF Collect, TypeOK
    <2>2. batch' \in [Workers -> Seq(Items)]
      <3>1. Append(batch[w], Head(queue)) \in Seq(Items)
        BY <2>1 DEF TypeOK
      <3>2. QED
        BY <1>14, <3>1 DEF Collect, TypeOK
    <2>3. carry' \in [Workers -> Items \cup {None}]
      BY <1>14, <2>1 DEF Collect, TypeOK
    <2>4. QED
      BY <1>14, <1>a, <2>1, <2>2, <2>3 DEF Collect, TypeOK, producers, callers, sinks
  <1>15. ASSUME NEW w \in Workers, BatchEnds(w) PROVE TypeOK'
    BY <1>15, <1>a DEF BatchEnds, Leave, TypeOK, producers, workers, callers, sinks
  <1>16. ASSUME NEW w \in Workers, WriteBatch(w) PROVE TypeOK'
    <2>1. /\ batch[w] \in Seq(Items)
          /\ WriteSucceeds(batch[w]) \/ WriteFails(batch[w])
      BY <1>16 DEF WriteBatch, TypeOK
    <2>2. /\ buffered' \in [Targets -> SUBSET Items]
          /\ stored' \in [Targets -> SUBSET Items]
          /\ written' \in Seq(Items) /\ reported' \subseteq Items
          /\ faults' \in 0 .. MaxFaults
      BY <2>1, WriteType
    <2>3. QED
      BY <1>16, <1>a, <2>2 DEF WriteBatch, TypeOK, producers, callers
  <1>17. ASSUME NEW w \in Workers, FinishBatch(w) PROVE TypeOK'
    <2>1. batch' \in [Workers -> Seq(Items)]
      BY <1>17 DEF FinishBatch, TypeOK
    <2>2. QED
      BY <1>17, <1>a, <2>1, FinishType DEF FinishBatch, TypeOK, producers, sinks
  <1>18. ASSUME Tick PROVE TypeOK'
    BY <1>18, <1>a DEF Tick, Leave, TypeOK, producers, workers, callers, sinks
  <1>19. ASSUME FlusherFlushes PROVE TypeOK'
    BY <1>19, <1>a, FlushType DEF FlusherFlushes, TypeOK, producers, workers, callers
  <1>20. ASSUME FlusherExit PROVE TypeOK'
    BY <1>20, <1>a DEF FlusherExit, Leave, TypeOK, producers, workers, callers, sinks
  <1>21. ASSUME NEW c \in Callers, Begin(c) PROVE TypeOK'
    BY <1>21, <1>a DEF Begin, Leave, TypeOK, producers, workers, callers, sinks
  <1>22. ASSUME NEW c \in Callers, Expire(c) PROVE TypeOK'
    BY <1>22, <1>a DEF Expire, Wake, TypeOK, producers, workers, sinks
  <1>23. ASSUME NEW c \in Callers, Check(c) PROVE TypeOK'
    BY <1>23, <1>a DEF Check, Leave, TypeOK, producers, workers, callers, sinks
  <1>24. ASSUME NEW c \in Callers, Join(c) PROVE TypeOK'
    BY <1>24, <1>a DEF Join, Leave, TypeOK, producers, workers, callers, sinks
  <1>25. ASSUME NEW c \in Callers, LastFlush(c) PROVE TypeOK'
    <2>1. (FlushSinks(Targets) /\ UNCHANGED faults) \/ FlushFails
      BY <1>25 DEF LastFlush
    <2>2. /\ buffered' \in [Targets -> SUBSET Items]
          /\ stored' \in [Targets -> SUBSET Items]
          /\ written' \in Seq(Items) /\ reported' \subseteq Items
          /\ faults' \in 0 .. MaxFaults
      BY <2>1, FlushType
    <2>3. cpc' = [cpc EXCEPT ![c] = "ok"] \/ cpc' = [cpc EXCEPT ![c] = "failed"]
      BY <1>25 DEF LastFlush
    <2>4. QED
      BY <1>25, <1>a, <2>2, <2>3 DEF LastFlush, TypeOK, producers, workers
  <1>26. ASSUME UNCHANGED vars PROVE TypeOK'
    BY <1>26 DEF vars, TypeOK, producers, workers, callers, sinks
  <1>27. QED
    BY <1>1, <1>2, <1>3, <1>4, <1>5, <1>6, <1>7, <1>8, <1>9, <1>10,
       <1>11, <1>12, <1>13, <1>14, <1>15, <1>16, <1>17, <1>18, <1>19,
       <1>20, <1>21, <1>22, <1>23, <1>24, <1>25, <1>26
       DEF Next, Enqueue, WorkerStep, CallerStep

-----------------------------------------------------------------------------
(* The other parts of the invariant.                                       *)

\* What a worker holds depends on where it is.
LEMMA WorkerOKStep ==
    ASSUME IInv, [Next]_vars
    PROVE  WorkerOK'
  <1> USE DEF IInv
  <1>1. ASSUME NEW i \in Items, Call(i) PROVE WorkerOK'
    BY <1>1 DEF Call, WorkerOK, workers
  <1>2. ASSUME NEW i \in Items, Reserve(i) PROVE WorkerOK'
    BY <1>2 DEF Reserve, WorkerOK, workers
  <1>3. ASSUME NEW i \in Items, Send(i) PROVE WorkerOK'
    BY <1>3 DEF Send, WorkerOK, workers
  <1>4. ASSUME NEW i \in Items, Closed(i) PROVE WorkerOK'
    BY <1>4 DEF Closed, WorkerOK, workers
  <1>5. ASSUME NEW i \in Items, Drop(i) PROVE WorkerOK'
    BY <1>5 DEF Drop, WorkerOK, workers
  <1>6. ASSUME NEW i \in Items, Overfull(i) PROVE WorkerOK'
    BY <1>6 DEF Overfull, WorkerOK, workers
  <1>7. ASSUME NEW i \in Items, Evict(i) PROVE WorkerOK'
    BY <1>7 DEF Evict, WorkerOK, workers
  <1>8. ASSUME NEW i \in Items, NoVictim(i) PROVE WorkerOK'
    BY <1>8 DEF NoVictim, WorkerOK, workers
  <1>9. ASSUME NEW i \in Items, Overflow(i) PROVE WorkerOK'
    BY <1>9 DEF Overflow, WorkerOK, workers
  <1>10. ASSUME NEW i \in Items, WriteDirect(i) PROVE WorkerOK'
    BY <1>10 DEF WriteDirect, WorkerOK, workers
  <1>11. ASSUME NEW i \in Items, Release(i) PROVE WorkerOK'
    BY <1>11 DEF Release, WorkerOK, workers
  <1>12. ASSUME NEW w \in Workers, NextItem(w) PROVE WorkerOK'
    BY <1>12 DEF NextItem, WorkerOK, TypeOK
  <1>13. ASSUME NEW w \in Workers, WorkerExit(w) PROVE WorkerOK'
    BY <1>13 DEF WorkerExit, WorkerOK, TypeOK
  <1>14. ASSUME NEW w \in Workers, Collect(w) PROVE WorkerOK'
    BY <1>14 DEF Collect, WorkerOK, TypeOK
  <1>15. ASSUME NEW w \in Workers, BatchEnds(w) PROVE WorkerOK'
    BY <1>15 DEF BatchEnds, WorkerOK, TypeOK
  <1>16. ASSUME NEW w \in Workers, WriteBatch(w) PROVE WorkerOK'
    BY <1>16 DEF WriteBatch, WorkerOK, TypeOK
  <1>17. ASSUME NEW w \in Workers, FinishBatch(w) PROVE WorkerOK'
    BY <1>17 DEF FinishBatch, WorkerOK, TypeOK
  <1>18. ASSUME Tick PROVE WorkerOK'
    BY <1>18 DEF Tick, WorkerOK, workers
  <1>19. ASSUME FlusherFlushes PROVE WorkerOK'
    BY <1>19 DEF FlusherFlushes, WorkerOK, workers
  <1>20. ASSUME FlusherExit PROVE WorkerOK'
    BY <1>20 DEF FlusherExit, WorkerOK, workers
  <1>21. ASSUME NEW c \in Callers, Begin(c) PROVE WorkerOK'
    BY <1>21 DEF Begin, WorkerOK, workers
  <1>22. ASSUME NEW c \in Callers, Expire(c) PROVE WorkerOK'
    BY <1>22 DEF Expire, WorkerOK, workers
  <1>23. ASSUME NEW c \in Callers, Check(c) PROVE WorkerOK'
    BY <1>23 DEF Check, WorkerOK, workers
  <1>24. ASSUME NEW c \in Callers, Join(c) PROVE WorkerOK'
    BY <1>24 DEF Join, WorkerOK, workers
  <1>25. ASSUME NEW c \in Callers, LastFlush(c) PROVE WorkerOK'
    BY <1>25 DEF LastFlush, WorkerOK, workers
  <1>26. ASSUME UNCHANGED vars PROVE WorkerOK'
    BY <1>26 DEF vars, WorkerOK, workers
  <1>27. QED
    BY <1>1, <1>2, <1>3, <1>4, <1>5, <1>6, <1>7, <1>8, <1>9, <1>10,
       <1>11, <1>12, <1>13, <1>14, <1>15, <1>16, <1>17, <1>18, <1>19,
       <1>20, <1>21, <1>22, <1>23, <1>24, <1>25, <1>26
       DEF Next, Enqueue, WorkerStep, CallerStep

\* An item stays in one place: it leaves the queue to one worker.
LEMMA ApartStep ==
    ASSUME IInv, [Next]_vars
    PROVE  Apart'
  <1> USE DEF IInv
  <1>a. ASSUME UNCHANGED <<queue, batch, carry>>,
               \A j \in Items : epc[j] = "returned" => epc'[j] = "returned"
        PROVE  Apart'
    <2>1. /\ ToSet(queue)' = ToSet(queue) /\ Unique(queue)' = Unique(queue)
          /\ ToSet(queue) \subseteq Items
      BY <1>a DEF ToSet, Unique, TypeOK
    <2>2. ASSUME NEW w \in Workers
          PROVE  /\ WithWorker(w)' = WithWorker(w) /\ WithWorker(w) \subseteq Items
                 /\ ToSet(batch[w])' = ToSet(batch[w]) /\ carry'[w] = carry[w]
                 /\ Unique(batch[w])' = Unique(batch[w])
      <3>1. batch[w] \in Seq(Items) /\ carry[w] \in Items \cup {None}
        BY DEF TypeOK
      <3>2. ToSet(batch[w]) \subseteq Items
        BY <3>1 DEF ToSet
      <3>3. ToSet(batch[w])' = ToSet(batch[w]) /\ carry'[w] = carry[w]
        BY <1>a DEF ToSet
      <3>4. QED
        BY <1>a, <3>1, <3>2, <3>3 DEF WithWorker, Unique
    <2>3. QED
      BY <1>a, <2>1, <2>2 DEF Apart
  <1>b. ASSUME NEW w \in Workers,
               /\ epc' = epc
               /\ \A v \in Workers \ {w} :
                     batch'[v] = batch[v] /\ carry'[v] = carry[v],
               Unique(batch[w])', carry'[w] \notin ToSet(batch[w])',
               Unique(queue)', ToSet(queue)' \subseteq ToSet(queue),
               \A x \in WithWorker(w)' : x \in WithWorker(w) \cup ToSet(queue),
               WithWorker(w)' \cap ToSet(queue)' = {}
        PROVE  Apart'
    <2>1. ASSUME NEW v \in Workers \ {w}
          PROVE  /\ WithWorker(v)' = WithWorker(v)
                 /\ Unique(batch[v])' /\ carry'[v] \notin ToSet(batch[v])'
      BY <1>b DEF WithWorker, ToSet, Unique, Apart
    <2>2. \A x \in WithWorker(w)' : epc'[x] = "returned"
      BY <1>b DEF Apart
    <2>3. \A v \in Workers \ {w} : WithWorker(v)' \cap WithWorker(w)' = {}
      BY <1>b, <2>1 DEF Apart
    <2>4. \A u, v \in Workers : u # v => WithWorker(u)' \cap WithWorker(v)' = {}
      BY <2>1, <2>3 DEF Apart
    <2>5. \A v \in Workers : \A x \in WithWorker(v)' :
             epc'[x] = "returned" /\ x \notin ToSet(queue)'
      BY <1>b, <2>1, <2>2 DEF Apart
    <2>6. \A x \in ToSet(queue)' : epc'[x] = "returned"
      BY <1>b DEF Apart
    <2>7. QED
      BY <1>b, <2>1, <2>4, <2>5, <2>6 DEF Apart
  <1>c. /\ queue \in Seq(Items) /\ Unique(queue)
        /\ queue # <<>> => /\ ToSet(Tail(queue)) = ToSet(queue) \ {Head(queue)}
                           /\ Unique(Tail(queue)) /\ Head(queue) \in ToSet(queue)
    BY ToSetTail DEF TypeOK, Apart
  <1>1. ASSUME NEW i \in Items, Call(i) PROVE Apart'
    BY <1>1, <1>a DEF Call, Leave, TypeOK, producers, workers
  <1>2. ASSUME NEW i \in Items, Reserve(i) PROVE Apart'
    BY <1>2, <1>a DEF Reserve, Leave, TypeOK, producers, workers
  <1>3. ASSUME NEW i \in Items, Send(i) PROVE Apart'
    <2>1. /\ queue' = Append(queue, i) /\ epc' = [epc EXCEPT ![i] = "returned"]
          /\ batch' = batch /\ carry' = carry /\ epc[i] # "returned"
      BY <1>3 DEF Send, workers
    <2>2. i \notin ToSet(queue) /\ \A w \in Workers : i \notin WithWorker(w)
      BY <2>1 DEF Apart
    <2>3. ToSet(queue)' = ToSet(queue) \cup {i} /\ Unique(queue)'
      <3>1. /\ ToSet(Append(queue, i)) = ToSet(queue) \cup {i}
            /\ Unique(Append(queue, i))
        BY <1>c, <2>2, ToSetAppend
      <3>2. QED
        BY <2>1, <3>1 DEF ToSet, Unique
    <2>4. \A w \in Workers : /\ WithWorker(w)' = WithWorker(w)
                             /\ ToSet(batch[w])' = ToSet(batch[w])
                             /\ Unique(batch[w])' = Unique(batch[w])
                             /\ carry'[w] = carry[w]
      BY <2>1 DEF WithWorker, ToSet, Unique
    <2>5. \A j : epc[j] = "returned" /\ j \in Items => epc'[j] = "returned"
      BY <2>1 DEF TypeOK
    <2>6. /\ ToSet(queue) \subseteq Items /\ epc'[i] = "returned"
          /\ \A w \in Workers : WithWorker(w) \subseteq Items
      <3>1. ASSUME NEW w \in Workers PROVE WithWorker(w) \subseteq Items
        <4>1. batch[w] \in Seq(Items) /\ carry[w] \in Items \cup {None}
          BY DEF TypeOK
        <4>2. ToSet(batch[w]) \subseteq Items
          BY <4>1 DEF ToSet
        <4>3. QED
          BY <4>1, <4>2 DEF WithWorker
      <3>2. QED
        BY <2>1, <3>1 DEF ToSet, TypeOK
    <2>7. QED
      BY <2>2, <2>3, <2>4, <2>5, <2>6 DEF Apart
  <1>4. ASSUME NEW i \in Items, Closed(i) PROVE Apart'
    BY <1>4, <1>a DEF Closed, Leave, TypeOK, producers, workers
  <1>5. ASSUME NEW i \in Items, Drop(i) PROVE Apart'
    BY <1>5, <1>a DEF Drop, Leave, TypeOK, producers, workers
  <1>6. ASSUME NEW i \in Items, Overfull(i) PROVE Apart'
    BY <1>6, <1>a DEF Overfull, Leave, TypeOK, producers, workers
  <1>7. ASSUME NEW i \in Items, Evict(i) PROVE Apart'
    <2>1. /\ queue # <<>> /\ queue' = Tail(queue)
          /\ epc' = [epc EXCEPT ![i] = "reoffer"]
          /\ batch' = batch /\ carry' = carry /\ epc[i] # "returned"
      BY <1>7 DEF Evict, workers
    <2>2. ToSet(queue)' \subseteq ToSet(queue) /\ Unique(queue)'
      BY <1>c, <2>1 DEF ToSet, Unique
    <2>3. \A w \in Workers : /\ WithWorker(w)' = WithWorker(w)
                             /\ ToSet(batch[w])' = ToSet(batch[w])
                             /\ Unique(batch[w])' = Unique(batch[w])
                             /\ carry'[w] = carry[w]
      BY <2>1 DEF WithWorker, ToSet, Unique
    <2>4. \A j : epc[j] = "returned" => epc'[j] = "returned"
      BY <2>1 DEF TypeOK
    <2>5. QED
      BY <2>2, <2>3, <2>4 DEF Apart
  <1>8. ASSUME NEW i \in Items, NoVictim(i) PROVE Apart'
    BY <1>8, <1>a DEF NoVictim, Leave, TypeOK, producers, workers
  <1>9. ASSUME NEW i \in Items, Overflow(i) PROVE Apart'
    BY <1>9, <1>a DEF Overflow, Leave, TypeOK, producers, workers
  <1>10. ASSUME NEW i \in Items, WriteDirect(i) PROVE Apart'
    BY <1>10, <1>a DEF WriteDirect, Leave, TypeOK, producers, workers
  <1>11. ASSUME NEW i \in Items, Release(i) PROVE Apart'
    BY <1>11, <1>a DEF Release, Leave, TypeOK, producers, workers
  <1>12. ASSUME NEW w \in Workers, NextItem(w) PROVE Apart'
    <2>1. /\ epc' = epc
          /\ \A v \in Workers \ {w} : batch'[v] = batch[v] /\ carry'[v] = carry[v]
      BY <1>12 DEF NextItem, producers, TypeOK
    <2>2. Unique(batch[w])' /\ carry'[w] \notin ToSet(batch[w])'
      BY <1>12, TakeHeld
    <2>3. \A x \in WithWorker(w) : x \notin ToSet(queue)
      BY DEF Apart
    <2>4. /\ Unique(queue)' /\ ToSet(queue)' \subseteq ToSet(queue)
          /\ WithWorker(w)' \subseteq WithWorker(w) \cup ToSet(queue)
          /\ WithWorker(w)' \cap ToSet(queue)' = {}
      <3>1. CASE queue' = queue /\ WithWorker(w)' = WithWorker(w)
        <4>1. Unique(queue)' /\ ToSet(queue)' = ToSet(queue)
          BY <1>c, <3>1 DEF ToSet, Unique
        <4>2. QED
          BY <2>3, <3>1, <4>1
      <3>2. CASE /\ queue # <<>> /\ queue' = Tail(queue)
                 /\ WithWorker(w)' = WithWorker(w) \cup {Head(queue)}
        <4>1. Unique(queue)' /\ ToSet(queue)' = ToSet(queue) \ {Head(queue)}
          BY <1>c, <3>2 DEF ToSet, Unique
        <4>2. QED
          BY <1>c, <2>3, <3>2, <4>1
      <3>3. QED
        BY <1>12, <3>1, <3>2, TakeHeld
    <2>5. QED
      BY <1>b, <2>1, <2>2, <2>4
  <1>13. ASSUME NEW w \in Workers, WorkerExit(w) PROVE Apart'
    BY <1>13, <1>a DEF WorkerExit, Leave, TypeOK, producers, workers
  <1>14. ASSUME NEW w \in Workers, Collect(w) PROVE Apart'
    <2>1. /\ epc' = epc
          /\ \A v \in Workers \ {w} : batch'[v] = batch[v] /\ carry'[v] = carry[v]
      BY <1>14 DEF Collect, producers, TypeOK
    <2>2. Unique(batch[w])' /\ carry'[w] \notin ToSet(batch[w])'
      BY <1>14, TakeHeld
    <2>3. \A x \in WithWorker(w) : x \notin ToSet(queue)
      BY DEF Apart
    <2>4. /\ Unique(queue)' /\ ToSet(queue)' \subseteq ToSet(queue)
          /\ WithWorker(w)' \subseteq WithWorker(w) \cup ToSet(queue)
          /\ WithWorker(w)' \cap ToSet(queue)' = {}
      <3>1. CASE queue' = queue /\ WithWorker(w)' = WithWorker(w)
        <4>1. Unique(queue)' /\ ToSet(queue)' = ToSet(queue)
          BY <1>c, <3>1 DEF ToSet, Unique
        <4>2. QED
          BY <2>3, <3>1, <4>1
      <3>2. CASE /\ queue # <<>> /\ queue' = Tail(queue)
                 /\ WithWorker(w)' = WithWorker(w) \cup {Head(queue)}
        <4>1. Unique(queue)' /\ ToSet(queue)' = ToSet(queue) \ {Head(queue)}
          BY <1>c, <3>2 DEF ToSet, Unique
        <4>2. QED
          BY <1>c, <2>3, <3>2, <4>1
      <3>3. QED
        BY <1>14, <3>1, <3>2, TakeHeld
    <2>5. QED
      BY <1>b, <2>1, <2>2, <2>4
  <1>15. ASSUME NEW w \in Workers, BatchEnds(w) PROVE Apart'
    BY <1>15, <1>a DEF BatchEnds, Leave, TypeOK, producers, workers
  <1>16. ASSUME NEW w \in Workers, WriteBatch(w) PROVE Apart'
    BY <1>16, <1>a DEF WriteBatch, Leave, TypeOK, producers, workers
  <1>17. ASSUME NEW w \in Workers, FinishBatch(w) PROVE Apart'
    <2>1. /\ epc' = epc /\ queue' = queue /\ carry' = carry
          /\ batch' = [batch EXCEPT ![w] = <<>>]
      BY <1>17 DEF FinishBatch, producers
    <2>2. batch'[w] = <<>> /\ carry'[w] = carry[w]
      BY <2>1 DEF TypeOK
    <2>3. Unique(batch[w])' /\ ToSet(batch[w])' = {}
      BY <2>2, ToSetSmall DEF ToSet, Unique
    <2>4. WithWorker(w)' \subseteq WithWorker(w)
      BY <2>2, <2>3 DEF WithWorker
    <2>5. Unique(queue)' /\ ToSet(queue)' = ToSet(queue)
      BY <1>c, <2>1 DEF ToSet, Unique
    <2>6. WithWorker(w)' \cap ToSet(queue)' = {}
      BY <2>4, <2>5 DEF Apart
    <2>7. \A v \in Workers \ {w} : batch'[v] = batch[v] /\ carry'[v] = carry[v]
      BY <2>1 DEF TypeOK
    <2>8. QED
      BY <1>b, <2>1, <2>2, <2>3, <2>4, <2>5, <2>6, <2>7
  <1>18. ASSUME Tick PROVE Apart'
    BY <1>18, <1>a DEF Tick, Leave, TypeOK, producers, workers
  <1>19. ASSUME FlusherFlushes PROVE Apart'
    BY <1>19, <1>a DEF FlusherFlushes, Leave, TypeOK, producers, workers
  <1>20. ASSUME FlusherExit PROVE Apart'
    BY <1>20, <1>a DEF FlusherExit, Leave, TypeOK, producers, workers
  <1>21. ASSUME NEW c \in Callers, Begin(c) PROVE Apart'
    BY <1>21, <1>a DEF Begin, Leave, TypeOK, producers, workers
  <1>22. ASSUME NEW c \in Callers, Expire(c) PROVE Apart'
    BY <1>22, <1>a DEF Expire, Leave, TypeOK, producers, workers
  <1>23. ASSUME NEW c \in Callers, Check(c) PROVE Apart'
    BY <1>23, <1>a DEF Check, Leave, TypeOK, producers, workers
  <1>24. ASSUME NEW c \in Callers, Join(c) PROVE Apart'
    BY <1>24, <1>a DEF Join, Leave, TypeOK, producers, workers
  <1>25. ASSUME NEW c \in Callers, LastFlush(c) PROVE Apart'
    BY <1>25, <1>a DEF LastFlush, Leave, TypeOK, producers, workers
  <1>26. ASSUME UNCHANGED vars PROVE Apart'
    BY <1>26, <1>a DEF vars, producers, workers
  <1>27. QED
    BY <1>1, <1>2, <1>3, <1>4, <1>5, <1>6, <1>7, <1>8, <1>9, <1>10,
       <1>11, <1>12, <1>13, <1>14, <1>15, <1>16, <1>17, <1>18, <1>19,
       <1>20, <1>21, <1>22, <1>23, <1>24, <1>25, <1>26
       DEF Next, Enqueue, WorkerStep, CallerStep

\* A caller sleeps only while something is pending: the last finishItems wakes
\* every sleeper in the step that brings the counter to zero.
LEMMA NoSleepStep ==
    ASSUME IInv, [Next]_vars
    PROVE  NoSleepWhenDrained'
  <1> USE DEF IInv
  <1>a. pending \in Nat /\ pending' \in Nat
    BY DrainStep DEF TypeOK
  <1>b. ASSUME NEW n, FinishItems(n) PROVE NoSleepWhenDrained'
    BY <1>a, <1>b DEF FinishItems, Wake, NoSleepWhenDrained
  <1>1. ASSUME NEW i \in Items, Call(i) PROVE NoSleepWhenDrained'
    BY <1>1 DEF Call, NoSleepWhenDrained, callers
  <1>2. ASSUME NEW i \in Items, Reserve(i) PROVE NoSleepWhenDrained'
    BY <1>2, <1>a DEF Reserve, NoSleepWhenDrained, callers
  <1>3. ASSUME NEW i \in Items, Send(i) PROVE NoSleepWhenDrained'
    BY <1>3 DEF Send, NoSleepWhenDrained, callers
  <1>4. ASSUME NEW i \in Items, Closed(i) PROVE NoSleepWhenDrained'
    BY <1>4 DEF Closed, NoSleepWhenDrained, callers
  <1>5. ASSUME NEW i \in Items, Drop(i) PROVE NoSleepWhenDrained'
    BY <1>5 DEF Drop, NoSleepWhenDrained, callers
  <1>6. ASSUME NEW i \in Items, Overfull(i) PROVE NoSleepWhenDrained'
    BY <1>6 DEF Overfull, NoSleepWhenDrained, callers
  <1>7. ASSUME NEW i \in Items, Evict(i) PROVE NoSleepWhenDrained'
    BY <1>7, <1>b DEF Evict
  <1>8. ASSUME NEW i \in Items, NoVictim(i) PROVE NoSleepWhenDrained'
    BY <1>8 DEF NoVictim, NoSleepWhenDrained, callers
  <1>9. ASSUME NEW i \in Items, Overflow(i) PROVE NoSleepWhenDrained'
    BY <1>9 DEF Overflow, NoSleepWhenDrained, callers
  <1>10. ASSUME NEW i \in Items, WriteDirect(i) PROVE NoSleepWhenDrained'
    BY <1>10 DEF WriteDirect, NoSleepWhenDrained, callers
  <1>11. ASSUME NEW i \in Items, Release(i) PROVE NoSleepWhenDrained'
    BY <1>11, <1>b DEF Release
  <1>12. ASSUME NEW w \in Workers, NextItem(w) PROVE NoSleepWhenDrained'
    BY <1>12 DEF NextItem, NoSleepWhenDrained, callers
  <1>13. ASSUME NEW w \in Workers, WorkerExit(w) PROVE NoSleepWhenDrained'
    BY <1>13 DEF WorkerExit, NoSleepWhenDrained, callers
  <1>14. ASSUME NEW w \in Workers, Collect(w) PROVE NoSleepWhenDrained'
    BY <1>14 DEF Collect, NoSleepWhenDrained, callers
  <1>15. ASSUME NEW w \in Workers, BatchEnds(w) PROVE NoSleepWhenDrained'
    BY <1>15 DEF BatchEnds, NoSleepWhenDrained, callers
  <1>16. ASSUME NEW w \in Workers, WriteBatch(w) PROVE NoSleepWhenDrained'
    BY <1>16 DEF WriteBatch, NoSleepWhenDrained, callers
  <1>17. ASSUME NEW w \in Workers, FinishBatch(w) PROVE NoSleepWhenDrained'
    BY <1>17, <1>b DEF FinishBatch
  <1>18. ASSUME Tick PROVE NoSleepWhenDrained'
    BY <1>18 DEF Tick, NoSleepWhenDrained, callers
  <1>19. ASSUME FlusherFlushes PROVE NoSleepWhenDrained'
    BY <1>19 DEF FlusherFlushes, NoSleepWhenDrained, callers
  <1>20. ASSUME FlusherExit PROVE NoSleepWhenDrained'
    BY <1>20 DEF FlusherExit, NoSleepWhenDrained, callers
  <1>21. ASSUME NEW c \in Callers, Begin(c) PROVE NoSleepWhenDrained'
    BY <1>21 DEF Begin, NoSleepWhenDrained, TypeOK
  <1>22. ASSUME NEW c \in Callers, Expire(c) PROVE NoSleepWhenDrained'
    BY <1>22 DEF Expire, Wake, NoSleepWhenDrained
  <1>23. ASSUME NEW c \in Callers, Check(c) PROVE NoSleepWhenDrained'
    BY <1>23, <1>a DEF Check, NoSleepWhenDrained, TypeOK
  <1>24. ASSUME NEW c \in Callers, Join(c) PROVE NoSleepWhenDrained'
    BY <1>24 DEF Join, NoSleepWhenDrained, TypeOK
  <1>25. ASSUME NEW c \in Callers, LastFlush(c) PROVE NoSleepWhenDrained'
    BY <1>25 DEF LastFlush, NoSleepWhenDrained, TypeOK
  <1>26. ASSUME UNCHANGED vars PROVE NoSleepWhenDrained'
    BY <1>26 DEF vars, NoSleepWhenDrained, callers
  <1>27. QED
    BY <1>1, <1>2, <1>3, <1>4, <1>5, <1>6, <1>7, <1>8, <1>9, <1>10,
       <1>11, <1>12, <1>13, <1>14, <1>15, <1>16, <1>17, <1>18, <1>19,
       <1>20, <1>21, <1>22, <1>23, <1>24, <1>25, <1>26
       DEF Next, Enqueue, WorkerStep, CallerStep

\* Once the counter is zero under Shutdown nobody writes directly any more, and
\* once the workers are joined none of them runs again.
LEMMA ClosingStep ==
    ASSUME IInv, [Next]_vars
    PROVE  ClosingOK'
  <1> USE DEF IInv
  <1>a. ASSUME pending = 0, NEW i \in Items PROVE epc[i] # "direct"
    <2>1. IsFiniteSet(InFlight) /\ Cardinality(InFlight) = 0
      BY <1>a, InFlightFinite DEF DrainAccounting
    <2>2. InFlight = {}
      BY <2>1, FS_EmptySet
    <2>3. QED
      BY <2>2 DEF InFlight, InEnqueue
  <1>b. ASSUME UNCHANGED <<done, wpc>>,
               \A c \in Callers :
                  cpc[c] \notin {"idle", "asleep"} => cpc'[c] = cpc[c],
               \A c \in Callers :
                  cpc[c] = "asleep" => cpc'[c] \in {"asleep", "check"},
               \A c \in Callers : cpc[c] = "idle" => cpc'[c] = "idle",
               \A i \in Items : epc'[i] = "direct" => epc[i] = "direct" \/ ~done
        PROVE  ClosingOK'
    BY <1>b DEF ClosingOK, TypeOK
  <1>c. ASSUME NEW n, FinishItems(n)
        PROVE  /\ \A c \in Callers : cpc[c] # "asleep" => cpc'[c] = cpc[c]
               /\ \A c \in Callers :
                     cpc[c] = "asleep" => cpc'[c] \in {"asleep", "check"}
    BY <1>c DEF FinishItems, Wake, TypeOK
  <1>1. ASSUME NEW i \in Items, Call(i) PROVE ClosingOK'
    BY <1>1, <1>b DEF Call, Leave, Full, callers, workers, producers, TypeOK
  <1>2. ASSUME NEW i \in Items, Reserve(i) PROVE ClosingOK'
    BY <1>2, <1>b DEF Reserve, Leave, Full, callers, workers, producers, TypeOK
  <1>3. ASSUME NEW i \in Items, Send(i) PROVE ClosingOK'
    BY <1>3, <1>b DEF Send, Leave, Full, callers, workers, producers, TypeOK
  <1>4. ASSUME NEW i \in Items, Closed(i) PROVE ClosingOK'
    BY <1>4, <1>b DEF Closed, Leave, Full, callers, workers, producers, TypeOK
  <1>5. ASSUME NEW i \in Items, Drop(i) PROVE ClosingOK'
    BY <1>5, <1>b DEF Drop, Leave, Full, callers, workers, producers, TypeOK
  <1>6. ASSUME NEW i \in Items, Overfull(i) PROVE ClosingOK'
    BY <1>6, <1>b DEF Overfull, Leave, Full, callers, workers, producers, TypeOK
  <1>7. ASSUME NEW i \in Items, Evict(i) PROVE ClosingOK'
    BY <1>7, <1>b, <1>c DEF Evict, workers, TypeOK
  <1>8. ASSUME NEW i \in Items, NoVictim(i) PROVE ClosingOK'
    BY <1>8, <1>b DEF NoVictim, Leave, Full, callers, workers, producers, TypeOK
  <1>9. ASSUME NEW i \in Items, Overflow(i) PROVE ClosingOK'
    BY <1>9, <1>b DEF Overflow, Leave, Full, callers, workers, producers, TypeOK
  <1>10. ASSUME NEW i \in Items, WriteDirect(i) PROVE ClosingOK'
    <2>1. Leave(i, "accepted") \/ Leave(i, "failed")
      BY <1>10 DEF WriteDirect
    <2>2. QED
      BY <1>10, <1>b, <2>1 DEF WriteDirect, Leave, callers, workers, TypeOK
  <1>11. ASSUME NEW i \in Items, Release(i) PROVE ClosingOK'
    BY <1>11, <1>b, <1>c DEF Release, workers, TypeOK
  <1>12. ASSUME NEW w \in Workers, NextItem(w) PROVE ClosingOK'
    BY <1>12 DEF NextItem, ClosingOK, callers, producers, TypeOK
  <1>13. ASSUME NEW w \in Workers, WorkerExit(w) PROVE ClosingOK'
    BY <1>13 DEF WorkerExit, ClosingOK, callers, producers, TypeOK
  <1>14. ASSUME NEW w \in Workers, Collect(w) PROVE ClosingOK'
    BY <1>14 DEF Collect, ClosingOK, callers, producers, TypeOK
  <1>15. ASSUME NEW w \in Workers, BatchEnds(w) PROVE ClosingOK'
    BY <1>15 DEF BatchEnds, ClosingOK, callers, producers, TypeOK
  <1>16. ASSUME NEW w \in Workers, WriteBatch(w) PROVE ClosingOK'
    BY <1>16 DEF WriteBatch, ClosingOK, callers, producers, TypeOK
  <1>17. ASSUME NEW w \in Workers, FinishBatch(w) PROVE ClosingOK'
    BY <1>17, <1>c DEF FinishBatch, ClosingOK, producers, TypeOK
  <1>18. ASSUME Tick PROVE ClosingOK'
    BY <1>18, <1>b DEF Tick, Leave, Full, callers, workers, producers, TypeOK
  <1>19. ASSUME FlusherFlushes PROVE ClosingOK'
    BY <1>19, <1>b DEF FlusherFlushes, callers, workers, producers, TypeOK
  <1>20. ASSUME FlusherExit PROVE ClosingOK'
    BY <1>20, <1>b DEF FlusherExit, Leave, Full, callers, workers, producers, TypeOK
  <1>21. ASSUME NEW c \in Callers, Begin(c) PROVE ClosingOK'
    BY <1>21 DEF Begin, ClosingOK, workers, producers, TypeOK
  <1>22. ASSUME NEW c \in Callers, Expire(c) PROVE ClosingOK'
    BY <1>22, <1>b DEF Expire, Wake, workers, producers, TypeOK
  <1>23. ASSUME NEW c \in Callers, Check(c) PROVE ClosingOK'
    BY <1>23, <1>a DEF Check, ClosingOK, workers, producers, TypeOK
  <1>24. ASSUME NEW c \in Callers, Join(c) PROVE ClosingOK'
    BY <1>24 DEF Join, ClosingOK, workers, producers, TypeOK
  <1>25. ASSUME NEW c \in Callers, LastFlush(c) PROVE ClosingOK'
    BY <1>25 DEF LastFlush, ClosingOK, workers, producers, TypeOK
  <1>26. ASSUME UNCHANGED vars PROVE ClosingOK'
    BY <1>26, <1>b DEF vars, callers, workers, producers
  <1>27. QED
    BY <1>1, <1>2, <1>3, <1>4, <1>5, <1>6, <1>7, <1>8, <1>9, <1>10,
       <1>11, <1>12, <1>13, <1>14, <1>15, <1>16, <1>17, <1>18, <1>19,
       <1>20, <1>21, <1>22, <1>23, <1>24, <1>25, <1>26
       DEF Next, Enqueue, WorkerStep, CallerStep

-----------------------------------------------------------------------------
(* The theorems.                                                           *)

\* The invariant holds before anything has been called: nothing is in flight,
\* the counter is zero.
LEMMA InitInv ==
    ASSUME Init
    PROVE  IInv
  <1>1. TypeOK
    <2>1. /\ queue \in Seq(Items) /\ Len(queue) <= QueueSize
          /\ sent \in Seq(Items) /\ written \in Seq(Items)
          /\ batch \in [Workers -> Seq(Items)] /\ faults \in 0 .. MaxFaults
      BY ConfigAssumption DEF Init
    <2>2. QED
      BY <2>1 DEF Init, TypeOK
  <1>2. WorkerOK /\ NoSleepWhenDrained /\ ClosingOK
    BY DEF Init, WorkerOK, NoSleepWhenDrained, ClosingOK
  <1>3. /\ ToSet(queue) = {} /\ Unique(queue)
        /\ \A w \in Workers : /\ ToSet(batch[w]) = {} /\ Unique(batch[w])
                              /\ WithWorker(w) = {}
    BY ToSetSmall DEF Init, WithWorker
  <1>4. Apart
    BY <1>3 DEF Apart, Init
  <1>5. InFlight = {}
    BY <1>3 DEF InFlight, Held, InEnqueue, Init
  <1>6. DrainAccounting
    BY <1>5, FS_EmptySet DEF DrainAccounting, Init
  <1>7. QED
    BY <1>1, <1>2, <1>4, <1>6 DEF IInv

\* Drain accounting, the callers' sleep and the closing of the pipeline hold
\* together: the conjunction of the parts is inductive.
THEOREM Inductive == Spec => []IInv
  <1>1. Init => IInv
    BY InitInv
  <1>2. IInv /\ [Next]_vars => IInv'
    BY TypeStep, DrainStep, WorkerOKStep, ApartStep, NoSleepStep, ClosingStep
       DEF IInv
  <1>3. QED
    BY <1>1, <1>2, PTL DEF Spec

\* Every variable keeps its type; the queue never exceeds cfg.QueueSize.
THEOREM TypeCorrect == Spec => []TypeOK
  BY Inductive, PTL DEF IInv

\* pending counts the items in flight exactly, at every moment: Flush and
\* Shutdown never proceed while an item reserved before is on its way, and are
\* never kept waiting by one that is gone.
THEOREM PendingCounts == Spec => []DrainAccounting
  BY Inductive, PTL DEF IInv

\* No caller of Flush or Shutdown is asleep when the counter is zero: the
\* wake-up of drainCond is never missed.
THEOREM NoSleep == Spec => []NoSleepWhenDrained
  BY Inductive, PTL DEF IInv

\* After a successful Shutdown no worker and no SyncFallback write is left that
\* could touch a closed sink.
THEOREM WritersGone == Spec => []NoWriteAfterClose
  <1>1. IInv => NoWriteAfterClose
    BY DEF IInv, ClosingOK, NoWriteAfterClose
  <1>2. QED
    BY <1>1, Inductive, PTL

-----------------------------------------------------------------------------
(* The bytes of a batch.  Bytes is a sum by recursion on the length; that   *)
(* it is one is shown of every batch as it grows.                           *)

SumOf(s, f) ==
    f = [n \in 0 .. Len(s) |-> IF n = 0 THEN 0 ELSE f[n - 1] + Size[s[n]]]

\* There is one sum of the sizes of s, and it is a number.
Summed(s) ==
    \E f \in [0 .. Len(s) -> Nat] : SumOf(s, f) /\ \A g : SumOf(s, g) => g = f

\* If there is one sum, Bytes is its last value.
LEMMA BytesIs ==
    ASSUME NEW s, NEW f, SumOf(s, f), \A g : SumOf(s, g) => g = f
    PROVE  Bytes(s) = f[Len(s)]
  <1>1. f = CHOOSE g : SumOf(s, g)
    OBVIOUS
  <1>2. QED
    BY <1>1 DEF Bytes, SumOf

\* The empty batch has a sum.
LEMMA BytesEmpty ==
    Summed(<<>>)
  <1> DEFINE f == [n \in 0 .. 0 |-> 0]
  <1>1. SumOf(<<>>, f)
    BY DEF SumOf
  <1>2. \A g : SumOf(<<>>, g) => g = f
    BY DEF SumOf
  <1>3. QED
    BY <1>1, <1>2 DEF Summed

\* A batch that grows by an item has one more.
LEMMA BytesAppend ==
    ASSUME NEW s \in Seq(Items), NEW x \in Items, Summed(s)
    PROVE  /\ Summed(Append(s, x))
           /\ Bytes(Append(s, x)) = Bytes(s) + Size[x]
  <1> DEFINE t == Append(s, x)
  <1>1. PICK f \in [0 .. Len(s) -> Nat] : SumOf(s, f) /\ \A g : SumOf(s, g) => g = f
    BY DEF Summed
  <1>2. /\ Len(t) = Len(s) + 1 /\ Len(s) \in Nat
        /\ \A n \in 1 .. Len(s) : t[n] = s[n]
        /\ t[Len(s) + 1] = x
    OBVIOUS
  <1>s. Size[x] \in Nat
    BY ItemsAssumption
  <1> DEFINE h == [n \in 0 .. Len(t) |-> IF n = Len(t) THEN f[Len(s)] + Size[x] ELSE f[n]]
  <1> HIDE DEF t
  <1>3. h \in [0 .. Len(t) -> Nat]
    BY <1>1, <1>2, <1>s
  <1>f. \A n \in 0 .. Len(s) : f[n] = IF n = 0 THEN 0 ELSE f[n - 1] + Size[s[n]]
    BY <1>1 DEF SumOf
  <1>4. SumOf(t, h)
    <2>1. ASSUME NEW n \in 0 .. Len(t)
          PROVE  h[n] = IF n = 0 THEN 0 ELSE h[n - 1] + Size[t[n]]
      <3>1. CASE n = Len(t)
        BY <1>2, <3>1
      <3>2. CASE n \in 0 .. Len(s)
        BY <1>2, <1>f, <3>2
      <3>3. QED
        BY <1>2, <3>1, <3>2
    <2>2. QED
      BY <2>1 DEF SumOf
  <1>5. ASSUME NEW g, SumOf(t, g) PROVE g = h
    <2>0. /\ g = [n \in 0 .. Len(t) |-> g[n]]
          /\ \A n \in 0 .. Len(t) : g[n] = IF n = 0 THEN 0 ELSE g[n - 1] + Size[t[n]]
      BY <1>5 DEF SumOf
    <2> DEFINE k == [n \in 0 .. Len(s) |-> g[n]]
    <2>1. SumOf(s, k)
      <3>1. ASSUME NEW n \in 0 .. Len(s)
            PROVE  k[n] = IF n = 0 THEN 0 ELSE k[n - 1] + Size[s[n]]
        BY <1>2, <2>0, SMTT(40)
      <3>2. QED
        BY <3>1 DEF SumOf
    <2>2. k = f
      BY <1>1, <2>1
    <2>3. \A n \in 0 .. Len(s) : g[n] = f[n]
      BY <2>2
    <2>4. g[Len(t)] = f[Len(s)] + Size[x]
      <3>1. Len(t) \in 0 .. Len(t) /\ Len(t) # 0 /\ Len(t) - 1 = Len(s)
        BY <1>2
      <3>2. g[Len(t)] = g[Len(t) - 1] + Size[t[Len(t)]]
        BY <2>0, <3>1
      <3>3. g[Len(s)] = f[Len(s)]
        BY <1>2, <2>3
      <3>4. t[Len(t)] = x
        BY <1>2
      <3>5. QED
        BY <3>1, <3>2, <3>3, <3>4
    <2>5. \A n \in 0 .. Len(t) : g[n] = h[n]
      BY <1>2, <2>3, <2>4
    <2>6. QED
      BY <2>0, <2>5
  <1>6. Summed(t)
    BY <1>3, <1>4, <1>5 DEF Summed
  <1>7. Bytes(t) = h[Len(t)] /\ Bytes(s) = f[Len(s)]
    BY <1>1, <1>4, <1>5, BytesIs
  <1>8. QED
    BY <1>2, <1>6, <1>7 DEF t

-----------------------------------------------------------------------------
(* The invariant.                                                          *)

\* What became of an item whose write was attempted.
Outcome(i) ==
    \/ InSinks(i)
    \/ i \in reported /\ (Fallback # {} /\ faults = 1 => InFallback(i))

\* Enqueue has no result before it is about to return.
Answered ==
    \A i \in Items : epc[i] \notin {"release", "returned"} => ret[i] = None

\* A write that is over has an outcome: a direct one, and that of a batch.
Attempted ==
    /\ \A i \in Items : epc[i] = "release" /\ ret[i] = "accepted" => Outcome(i)
    /\ \A w \in Workers : wpc[w] = "finish" =>
          \A i \in ToSet(batch[w]) : Outcome(i)
    /\ reported # {} => faults >= 1

\* What a caller is owed was accepted; when it has seen the counter at zero it
\* is in the sinks.
Drained ==
    /\ \A c \in Callers : \A i \in owed[c] : ret[i] = "accepted"
    /\ \A c \in Callers : cpc[c] \in {"join", "drained"} =>
          \A i \in owed[c] : InSinks(i) \/ i \in evicted \cup reported

\* A batch is within the limit, and its bytes are a sum.
Batches == BatchWithinLimit /\ \A w \in Workers : Summed(batch[w])

Delivery == Answered /\ Attempted /\ NothingVanishes /\ Drained /\ FlushMeansStored /\ Batches
-----------------------------------------------------------------------------
(* Frames: which steps touch which part of the state.                      *)

\* What the sinks have, by a write or a flush.
LEMMA SinksFrame ==
    ASSUME [Next]_vars
    PROVE  \/ UNCHANGED <<buffered, stored, reported, faults>>
           \/ \E i \in Items : WriteDirect(i)
           \/ \E w \in Workers : WriteBatch(w)
           \/ FlusherFlushes
           \/ \E c \in Callers : LastFlush(c)
  BY ZenonT(60) DEF Next, vars, Enqueue, WorkerStep, CallerStep, Call, Reserve, Send, Closed, Drop,
         Overfull, Evict, NoVictim, Release, Overflow, NextItem, WorkerExit, Collect,
         BatchEnds, FinishBatch, Tick, FlusherExit, Begin, Check, Expire, Join, sinks

\* The state and the result of an Enqueue.
LEMMA ProducersFrame ==
    ASSUME [Next]_vars
    PROVE  \/ UNCHANGED <<epc, ret>>
           \/ \E i \in Items : Call(i) \/ Enqueue(i)
  BY ZenonT(60) DEF Next, vars, WorkerStep, CallerStep, NextItem, WorkerExit, Collect, BatchEnds,
         WriteBatch, FinishBatch, Tick, FlusherFlushes, FlusherExit, Begin, Check,
         Expire, Join, LastFlush, producers

\* What a worker has.
LEMMA WorkersFrame ==
    ASSUME [Next]_vars
    PROVE  \/ UNCHANGED <<wpc, batch>>
           \/ \E w \in Workers : WorkerStep(w)
  BY ZenonT(60) DEF Next, vars, Enqueue, CallerStep, Call, Reserve, Send, Closed, Drop, Overfull,
         Evict, NoVictim, Release, Overflow, WriteDirect, Tick, FlusherFlushes,
         FlusherExit, Begin, Check, Expire, Join, LastFlush, workers

\* What DropOldest threw away.
LEMMA EvictedFrame ==
    ASSUME [Next]_vars
    PROVE  UNCHANGED evicted \/ \E i \in Items : Evict(i)
  BY ZenonT(60) DEF Next, vars, Enqueue, WorkerStep, CallerStep, Call, Reserve, Send, Closed, Drop,
         Overfull, NoVictim, Release, Overflow, WriteDirect, NextItem, WorkerExit,
         Collect, BatchEnds, WriteBatch, FinishBatch, Tick, FlusherFlushes, FlusherExit,
         Begin, Check, Expire, Join, LastFlush

\* A caller of Flush or Shutdown goes on by itself, or is woken.
LEMMA CallersFrame ==
    ASSUME TypeOK, [Next]_vars
    PROVE  \/ UNCHANGED cpc /\ UNCHANGED owed
           \/ Wake /\ UNCHANGED owed
           \/ \E c \in Callers : Begin(c) \/ CallerStep(c)
  BY ZenonT(60) DEF Next, vars, Enqueue, WorkerStep, Call, Reserve, Send, Closed, Drop, Overfull,
         Evict, NoVictim, Release, Overflow, WriteDirect, NextItem, WorkerExit, Collect,
         BatchEnds, WriteBatch, FinishBatch, FinishItems, Tick, FlusherFlushes,
         FlusherExit, Expire, callers

-----------------------------------------------------------------------------
(* What the sinks have.                                                    *)

\* A delivery adds to the buffers.
LEMMA DeliverGrows ==
    ASSUME TypeOK, NEW s, NEW took, Deliver(s, took), NEW t \in Targets
    PROVE  /\ buffered'[t] = buffered[t] \cup {s[j] : j \in 1 .. took[t]}
           /\ stored'[t] = stored[t]
  BY DEF Deliver, TypeOK

\* A write that succeeds has the batch in every sink; one that fails has it
\* reported, and in the fallback unless that failed too.
LEMMA WriteGrows ==
    ASSUME TypeOK, NEW s \in Seq(Items), WriteSucceeds(s) \/ WriteFails(s)
    PROVE  /\ \A t \in Targets : stored'[t] = stored[t] /\ buffered[t] \subseteq buffered'[t]
           /\ reported \subseteq reported' /\ faults' >= faults
           /\ reported' # reported => faults' >= 1
           /\ WriteSucceeds(s) => \A i \in ToSet(s) : InSinks(i)'
           /\ WriteFails(s) => /\ ToSet(s) \subseteq reported'
                               /\ faults' = 1 => \A t \in Fallback :
                                     ToSet(s) \subseteq buffered'[t]
  <1>l. Len(s) \in Nat /\ ToSet(s) = {s[j] : j \in 1 .. Len(s)}
    BY DEF ToSet
  <1>f. faults \in Nat /\ Sinks \subseteq Targets /\ Fallback \subseteq Targets
    BY DEF TypeOK, Targets
  <1>1. ASSUME WriteSucceeds(s)
        PROVE  /\ \A t \in Targets : stored'[t] = stored[t] /\ buffered[t] \subseteq buffered'[t]
               /\ reported' = reported /\ faults' = faults
               /\ \A i \in ToSet(s) : InSinks(i)'
    <2> DEFINE took == [t \in Targets |-> IF t \in Sinks THEN Len(s) ELSE 0]
    <2>1. Deliver(s, took) /\ reported' = reported /\ faults' = faults
      BY <1>1 DEF WriteSucceeds
    <2>2. \A t \in Sinks : took[t] = Len(s)
      BY <1>f
    <2> HIDE DEF took
    <2>3. \A t \in Targets : /\ buffered'[t] = buffered[t] \cup {s[j] : j \in 1 .. took[t]}
                             /\ stored'[t] = stored[t]
      BY <2>1, DeliverGrows
    <2>4. \A t \in Sinks : ToSet(s) \subseteq buffered'[t]
      BY <1>f, <1>l, <2>2, <2>3
    <2>5. QED
      BY <2>1, <2>3, <2>4 DEF InSinks
  <1>2. ASSUME WriteFails(s)
        PROVE  /\ \A t \in Targets : stored'[t] = stored[t] /\ buffered[t] \subseteq buffered'[t]
               /\ reported' = reported \cup ToSet(s)
               /\ faults' > faults /\ faults' \in Nat
               /\ faults' = 1 => \A t \in Fallback : ToSet(s) \subseteq buffered'[t]
    <2>1. PICK bad \in SUBSET Sinks \ {{}}, n \in 0 .. Len(s) - 1 :
            \E m \in {n, Len(s)} :
               /\ faults' = faults + (IF m = n THEN 2 ELSE 1)
               /\ Deliver(s, [t \in Targets |-> CASE t \in bad -> n
                                                [] t \in Sinks \ bad -> Len(s)
                                                [] OTHER -> m])
      BY <1>2 DEF WriteFails
    <2>2. PICK m \in {n, Len(s)} :
               /\ faults' = faults + (IF m = n THEN 2 ELSE 1)
               /\ Deliver(s, [t \in Targets |-> CASE t \in bad -> n
                                                [] t \in Sinks \ bad -> Len(s)
                                                [] OTHER -> m])
      BY <2>1
    <2> DEFINE took == [t \in Targets |-> CASE t \in bad -> n
                                          [] t \in Sinks \ bad -> Len(s)
                                          [] OTHER -> m]
    <2>3. Deliver(s, took)
      BY <2>2
    <2>4. faults' = 1 => \A t \in Fallback : took[t] = Len(s)
      <3>1. faults' = 1 => m = Len(s)
        BY <1>f, <2>2
      <3>2. \A t \in Fallback : t \notin Sinks /\ t \notin bad
        BY ConfigAssumption
      <3>3. QED
        BY <1>f, <3>1, <3>2
    <2> HIDE DEF took
    <2>5. \A t \in Targets : /\ buffered'[t] = buffered[t] \cup {s[j] : j \in 1 .. took[t]}
                             /\ stored'[t] = stored[t]
      BY <2>3, DeliverGrows
    <2>6. faults' = 1 => \A t \in Fallback : ToSet(s) \subseteq buffered'[t]
      BY <1>f, <1>l, <2>4, <2>5
    <2>7. reported' = reported \cup ToSet(s) /\ faults' > faults /\ faults' \in Nat
      BY <1>2, <1>f, <2>2 DEF WriteFails
    <2>8. QED
      BY <2>5, <2>6, <2>7
  <1>3. CASE WriteSucceeds(s) /\ ~WriteFails(s)
    BY <1>1, <1>3, <1>f
  <1>4. CASE WriteFails(s) /\ ~WriteSucceeds(s)
    BY <1>2, <1>4, <1>f
  <1>5. CASE WriteFails(s) /\ WriteSucceeds(s)
    <2>1. faults' = faults /\ faults' > faults
      BY <1>1, <1>2, <1>5
    <2>2. QED
      BY <1>f, <2>1
  <1>6. QED
    BY <1>3, <1>4, <1>5

\* A flush moves items from the buffers to what is stored.
LEMMA FlushGrows ==
    ASSUME TypeOK, (FlushSinks(Targets) /\ UNCHANGED faults) \/ FlushFails
    PROVE  /\ \A t \in Targets : /\ stored[t] \subseteq stored'[t]
                                 /\ stored[t] \cup buffered[t] = stored'[t] \cup buffered'[t]
           /\ reported' = reported /\ faults' >= faults
           /\ FlushSinks(Targets) => \A t \in Targets : stored'[t] = stored[t] \cup buffered[t]
  <1>1. PICK ok \in SUBSET Targets : FlushSinks(ok)
    BY DEF FlushFails
  <1>2. \A t \in Targets : /\ stored'[t] = IF t \in ok THEN stored[t] \cup buffered[t]
                                                        ELSE stored[t]
                           /\ buffered'[t] = IF t \in ok THEN {} ELSE buffered[t]
    BY <1>1 DEF FlushSinks
  <1>3. FlushSinks(Targets) => \A t \in Targets : stored'[t] = stored[t] \cup buffered[t]
    BY DEF FlushSinks
  <1>4. reported' = reported
    BY <1>1 DEF FlushSinks
  <1>5. faults' >= faults
    BY DEF FlushFails, TypeOK
  <1>6. QED
    BY <1>2, <1>3, <1>4, <1>5

\* No sink loses an item, no report is taken back.
LEMMA SinksGrow ==
    ASSUME TypeOK, [Next]_vars
    PROVE  /\ \A t \in Targets : /\ stored[t] \subseteq stored'[t]
                                 /\ stored[t] \cup buffered[t] \subseteq stored'[t] \cup buffered'[t]
           /\ reported \subseteq reported' /\ faults' >= faults
           /\ reported' # reported => faults' >= 1
           /\ evicted \subseteq evicted'
  <1> DEFINE Grow == /\ \A t \in Targets :
                           /\ stored[t] \subseteq stored'[t]
                           /\ stored[t] \cup buffered[t] \subseteq stored'[t] \cup buffered'[t]
                     /\ reported \subseteq reported' /\ faults' >= faults
                     /\ reported' # reported => faults' >= 1
  <1>f. faults \in Nat
    BY ConfigAssumption DEF TypeOK
  <1>1. ASSUME UNCHANGED <<buffered, stored, reported, faults>>
        PROVE  Grow
    BY <1>1, <1>f
  <1>2. ASSUME NEW s \in Seq(Items), WriteSucceeds(s) \/ WriteFails(s)
        PROVE  Grow
    <2>1. /\ \A t \in Targets : stored'[t] = stored[t] /\ buffered[t] \subseteq buffered'[t]
          /\ reported \subseteq reported' /\ faults' >= faults
          /\ reported' # reported => faults' >= 1
      BY <1>2, WriteGrows
    <2>2. QED
      BY <2>1
  <1>3. ASSUME NEW i \in Items, WriteDirect(i)
        PROVE  Grow
    <2>1. <<i>> \in Seq(Items) /\ (WriteSucceeds(<<i>>) \/ WriteFails(<<i>>))
      BY <1>3 DEF WriteDirect
    <2>2. QED
      BY <1>2, <2>1
  <1>4. ASSUME NEW w \in Workers, WriteBatch(w)
        PROVE  Grow
    BY <1>2, <1>4 DEF WriteBatch, TypeOK
  <1>5. ASSUME FlusherFlushes \/ \E c \in Callers : LastFlush(c)
        PROVE  Grow
    <2>1. (FlushSinks(Targets) /\ UNCHANGED faults) \/ FlushFails
      BY <1>5 DEF FlusherFlushes, LastFlush
    <2>2. /\ \A t \in Targets : /\ stored[t] \subseteq stored'[t]
                                /\ stored[t] \cup buffered[t] = stored'[t] \cup buffered'[t]
          /\ reported' = reported /\ faults' >= faults
      BY <2>1, FlushGrows
    <2>3. QED
      BY <2>2
  <1>6. Grow
    BY <1>1, <1>3, <1>4, <1>5, SinksFrame
  <1>7. evicted \subseteq evicted'
    BY EvictedFrame DEF Evict
  <1>8. QED
    BY <1>6, <1>7

\* So an outcome is for good.
LEMMA OutcomeStays ==
    ASSUME TypeOK, Attempted, [Next]_vars, NEW i
    PROVE  /\ InSinks(i) => InSinks(i)'
           /\ Outcome(i) => Outcome(i)'
  <1>1. Sinks \subseteq Targets /\ Fallback \subseteq Targets
    BY DEF Targets
  <1>2. InSinks(i) => InSinks(i)'
    BY <1>1, SinksGrow DEF InSinks
  <1>3. InFallback(i) => InFallback(i)'
    BY <1>1, SinksGrow DEF InFallback
  <1>4. i \in reported => /\ i \in reported'
                          /\ faults' = 1 => faults = 1
    BY SinksGrow DEF Attempted, TypeOK
  <1>5. QED
    BY <1>2, <1>3, <1>4 DEF Outcome

-----------------------------------------------------------------------------
(* Enqueue and its result.                                                 *)

\* The result is set on the way out.
LEMMA AnsweredStep ==
    ASSUME TypeOK, Answered, [Next]_vars
    PROVE  Answered'
  <1> USE DEF TypeOK
  <1>1. CASE UNCHANGED <<epc, ret>>
    BY <1>1 DEF Answered
  <1>2. ASSUME NEW i \in Items, NEW to, epc' = [epc EXCEPT ![i] = to],
               to \in {"release", "returned"},
               UNCHANGED ret \/ \E v : ret' = [ret EXCEPT ![i] = v]
        PROVE  Answered'
    BY <1>2 DEF Answered
  <1>3. ASSUME NEW i \in Items, NEW to, epc' = [epc EXCEPT ![i] = to],
               epc[i] \notin {"release", "returned"}, UNCHANGED ret
        PROVE  Answered'
    BY <1>3 DEF Answered
  <1>4. ASSUME NEW i \in Items, Call(i)
        PROVE  Answered'
    BY <1>2, <1>3, <1>4 DEF Call
  <1>5. ASSUME NEW i \in Items, Send(i) \/ Closed(i) \/ Drop(i) \/ Release(i)
        PROVE  Answered'
    BY <1>2, <1>5 DEF Send, Closed, Drop, Release, Leave
  <1>6. ASSUME NEW i \in Items, WriteDirect(i)
        PROVE  Answered'
    <2>1. Leave(i, "accepted") \/ Leave(i, "failed")
      BY <1>6 DEF WriteDirect
    <2>2. QED
      BY <1>2, <2>1 DEF Leave
  <1>7. ASSUME NEW i \in Items,
               Reserve(i) \/ Overfull(i) \/ Evict(i) \/ NoVictim(i) \/ Overflow(i)
        PROVE  Answered'
    BY <1>3, <1>7 DEF Reserve, Overfull, Evict, NoVictim, Overflow
  <1>8. QED
    BY <1>1, <1>4, <1>5, <1>6, <1>7, ProducersFrame DEF Enqueue

\* An item is accepted when it is sent or written directly, and that is final.
LEMMA RetStep ==
    ASSUME TypeOK, Answered, [Next]_vars, NEW i \in Items
    PROVE  /\ ret[i] = "accepted" => ret'[i] = "accepted"
           /\ ret'[i] = "accepted" =>
                 \/ ret[i] = "accepted" \/ Send(i)
                 \/ WriteDirect(i) /\ WriteSucceeds(<<i>>)
  <1> USE DEF TypeOK
  <1> DEFINE Goal == /\ ret[i] = "accepted" => ret'[i] = "accepted"
                     /\ ret'[i] = "accepted" =>
                           \/ ret[i] = "accepted" \/ Send(i)
                           \/ WriteDirect(i) /\ WriteSucceeds(<<i>>)
  <1>1. ASSUME ret'[i] = ret[i] PROVE Goal
    BY <1>1
  <1>2. ASSUME NEW j \in Items, NEW v, epc[j] \notin {"release", "returned"},
               ret' = [ret EXCEPT ![j] = v], j # i \/ v # "accepted"
        PROVE  Goal
    BY <1>1, <1>2 DEF Answered, None
  <1>3. ASSUME NEW j \in Items, Call(j) \/ Closed(j) \/ Drop(j)
        PROVE  Goal
    BY <1>1, <1>2, <1>3 DEF Call, Closed, Drop, Leave
  <1>4. ASSUME NEW j \in Items, Send(j)
        PROVE  Goal
    <2>1. CASE j = i
      BY <1>4, <2>1 DEF Send
    <2>2. CASE j # i
      BY <1>1, <1>4, <2>2 DEF Send
    <2>3. QED
      BY <2>1, <2>2
  <1>5. ASSUME NEW j \in Items, WriteDirect(j)
        PROVE  Goal
    <2>1. /\ epc[j] = "direct"
          /\ \/ WriteSucceeds(<<j>>) /\ ret' = [ret EXCEPT ![j] = "accepted"]
             \/ ret' = [ret EXCEPT ![j] = "failed"]
      BY <1>5 DEF WriteDirect, Leave
    <2>2. CASE j # i \/ ret' = [ret EXCEPT ![j] = "failed"]
      BY <1>2, <2>1, <2>2
    <2>3. CASE j = i /\ WriteSucceeds(<<j>>) /\ ret' = [ret EXCEPT ![j] = "accepted"]
      BY <1>5, <2>3
    <2>4. QED
      BY <2>1, <2>2, <2>3
  <1>6. ASSUME NEW j \in Items,
               \/ Reserve(j) \/ Overfull(j) \/ Evict(j) \/ NoVictim(j) \/ Overflow(j)
               \/ Release(j)
        PROVE  Goal
    BY <1>1, <1>6 DEF Reserve, Overfull, Evict, NoVictim, Overflow, Release
  <1>7. QED
    BY <1>1, <1>3, <1>4, <1>5, <1>6, ProducersFrame DEF Enqueue

-----------------------------------------------------------------------------
(* The steps.                                                              *)

\* A write has an outcome for every item of the batch.
LEMMA WriteOutcome ==
    ASSUME TypeOK, NEW s \in Seq(Items), WriteSucceeds(s) \/ WriteFails(s),
           NEW i \in ToSet(s)
    PROVE  /\ Outcome(i)'
           /\ WriteSucceeds(s) => InSinks(i)'
  <1>1. CASE WriteSucceeds(s)
    BY <1>1, WriteGrows DEF Outcome
  <1>2. CASE WriteFails(s) /\ ~WriteSucceeds(s)
    <2>1. i \in reported' /\ (faults' = 1 => \A t \in Fallback : i \in buffered'[t])
      BY <1>2, WriteGrows
    <2>2. Fallback # {} /\ faults' = 1 => InFallback(i)'
      BY <2>1 DEF InFallback
    <2>3. QED
      BY <1>2, <2>1, <2>2 DEF Outcome
  <1>3. QED
    BY <1>1, <1>2

\* A write gives every item of its batch an outcome before anybody counts it off.
LEMMA AttemptedStep ==
    ASSUME IInv, TypeOK, Answered, Attempted, [Next]_vars
    PROVE  Attempted'
  <1> USE DEF TypeOK
  <1>1. ASSUME NEW i \in Items, epc'[i] = "release", ret'[i] = "accepted"
        PROVE  Outcome(i)'
    <2>1. ~Send(i)
      BY <1>1 DEF Send
    <2>2. CASE WriteDirect(i) /\ WriteSucceeds(<<i>>)
      <3>1. <<i>> \in Seq(Items) /\ i \in ToSet(<<i>>)
        BY ToSetSmall
      <3>2. QED
        BY <2>2, <3>1, WriteOutcome
    <2>3. CASE ret[i] = "accepted"
      <3>1. ~Closed(i) /\ ~Drop(i)
        BY <1>1 DEF Closed, Drop, Leave
      <3>2. ~WriteDirect(i)
        BY <2>3 DEF WriteDirect, Answered, None
      <3>3. epc[i] = "release"
        <4>1. ASSUME NEW j \in Items, Call(j) \/ Enqueue(j), j # i
              PROVE  epc'[i] = epc[i]
          <5>1. \E to : epc' = [epc EXCEPT ![j] = to]
            BY <4>1 DEF Call, Enqueue, Reserve, Send, Closed, Drop, Overfull, Evict,
               NoVictim, Overflow, Release, WriteDirect, Leave
          <5>2. QED
            BY <4>1, <5>1
        <4>2. ~Call(i) /\ ~Reserve(i) /\ ~Overfull(i) /\ ~Evict(i) /\ ~NoVictim(i)
              /\ ~Overflow(i) /\ ~Release(i)
          BY <1>1 DEF Call, Reserve, Overfull, Evict, NoVictim, Overflow, Release
        <4>3. QED
          BY <1>1, <2>1, <3>1, <3>2, <4>1, <4>2, ProducersFrame DEF Enqueue
      <3>4. Outcome(i)
        BY <2>3, <3>3 DEF Attempted
      <3>5. QED
        BY <3>4, OutcomeStays
    <2>4. QED
      BY <1>1, <2>1, <2>2, <2>3, RetStep
  <1>2. ASSUME NEW w \in Workers, wpc'[w] = "finish", NEW i \in ToSet(batch[w])'
        PROVE  Outcome(i)'
    <2>1. CASE WriteBatch(w)
      <3>1. batch'[w] = batch[w] /\ batch[w] \in Seq(Items)
        BY <2>1 DEF WriteBatch
      <3>2. QED
        <4>1. i \in ToSet(batch[w])
          BY <3>1 DEF ToSet
        <4>2. QED
          BY <2>1, <3>1, <4>1, WriteOutcome DEF WriteBatch
    <2>2. CASE ~WriteBatch(w)
      <3>1. wpc[w] = "finish" /\ batch'[w] = batch[w]
        <4>1. ASSUME NEW v \in Workers, WorkerStep(v), v # w
              PROVE  wpc'[w] = wpc[w] /\ batch'[w] = batch[w]
          BY <4>1 DEF WorkerStep, NextItem, WorkerExit, Collect, BatchEnds, WriteBatch,
             FinishBatch
        <4>2. ~NextItem(w) /\ ~WorkerExit(w) /\ ~Collect(w) /\ ~BatchEnds(w)
              /\ ~FinishBatch(w)
          BY <1>2 DEF NextItem, WorkerExit, Collect, BatchEnds, FinishBatch
        <4>3. QED
          BY <1>2, <2>2, <4>1, <4>2, WorkersFrame DEF WorkerStep
      <3>2. ToSet(batch[w])' = ToSet(batch[w])
        BY <3>1 DEF ToSet
      <3>3. Outcome(i)
        BY <1>2, <3>1, <3>2 DEF Attempted
      <3>4. QED
        BY <3>3, OutcomeStays
    <2>3. QED
      BY <2>1, <2>2
  <1>3. reported' # {} => faults' >= 1
    <2>1. reported' # reported => faults' >= 1
      BY SinksGrow
    <2>2. reported # {} => faults' >= 1
      <3>1. faults' >= faults /\ faults \in Nat /\ faults' \in Nat
        BY SinksGrow, TypeStep, ConfigAssumption
      <3>2. QED
        BY <3>1 DEF Attempted
    <2>3. QED
      BY <2>1, <2>2
  <1>4. QED
    BY <1>1, <1>2, <1>3 DEF Attempted

\* An accepted item goes from in flight to the sinks, is evicted, or reported.
LEMMA VanishStep ==
    ASSUME IInv, TypeOK, Answered, Attempted, NothingVanishes, [Next]_vars
    PROVE  NothingVanishes'
  <1> DEFINE Placed(i) == i \in InFlight \cup evicted \/ Outcome(i)
  <1>1. ASSUME NEW i \in Items, ret[i] = "accepted" PROVE Placed(i)
    BY <1>1 DEF NothingVanishes, Outcome
  <1>2. ASSUME NEW i, Outcome(i) PROVE Placed(i)'
    BY <1>2, OutcomeStays
  <1>3. ASSUME NEW i \in Items, ret'[i] = "accepted" PROVE Placed(i)'
    <2>1. CASE Send(i)
      <3>1. epc[i] \in {"offer", "reoffer"}
        BY <2>1 DEF Send
      <3>2. i \in InFlight
        BY <3>1 DEF InFlight, InEnqueue
      <3>3. QED
        BY <2>1, <3>2, SendCount
    <2>2. CASE WriteDirect(i) /\ WriteSucceeds(<<i>>)
      <3>1. <<i>> \in Seq(Items) /\ i \in ToSet(<<i>>)
        BY ToSetSmall
      <3>2. QED
        BY <2>2, <3>1, WriteOutcome
    <2>3. CASE ret[i] = "accepted"
      <3>1. CASE i \in evicted
        BY <3>1, SinksGrow
      <3>2. CASE Outcome(i)
        BY <3>2, <1>2
      <3>3. CASE i \in InFlight
        <4>1. CASE InFlight' = InFlight
          BY <3>3, <4>1
        <4>2. ASSUME NEW j \in Items, Reserve(j) PROVE Placed(i)'
          BY <3>3, <4>2, ReserveCount
        <4>3. ASSUME NEW j \in Items, Release(j) PROVE Placed(i)'
          <5>1. CASE i = j
            <6>1. epc[i] = "release"
              BY <4>3, <5>1 DEF Release
            <6>2. QED
              BY <2>3, <6>1, <1>2 DEF Attempted
          <5>2. CASE i # j
            BY <3>3, <4>3, <5>2, ReleaseCount
          <5>3. QED
            BY <5>1, <5>2
        <4>4. ASSUME NEW j \in Items, Evict(j) PROVE Placed(i)'
          <5>1. evicted' = evicted \cup {Head(queue)}
            BY <4>4 DEF Evict
          <5>2. QED
            BY <3>3, <4>4, <5>1, EvictCount
        <4>5. ASSUME NEW w \in Workers, FinishBatch(w) PROVE Placed(i)'
          <5>1. CASE i \in ToSet(batch[w])
            <6>1. wpc[w] = "finish"
              BY <4>5 DEF FinishBatch
            <6>2. QED
              BY <5>1, <6>1, <1>2 DEF Attempted
          <5>2. CASE i \notin ToSet(batch[w])
            BY <3>3, <4>5, <5>2, FinishCount
          <5>3. QED
            BY <5>1, <5>2
        <4>6. QED
          BY <4>1, <4>2, <4>3, <4>4, <4>5, SameCount
      <3>4. QED
        BY <1>1, <2>3, <3>1, <3>2, <3>3
    <2>4. QED
      BY <1>3, <2>1, <2>2, <2>3, RetStep
  <1>4. QED
    BY <1>3 DEF NothingVanishes, Outcome

\* When the counter is at zero everything accepted has its outcome.
LEMMA DrainedAll ==
    ASSUME TypeOK, DrainAccounting, NothingVanishes, pending = 0,
           NEW i \in Items, ret[i] = "accepted"
    PROVE  InSinks(i) \/ i \in evicted \cup reported
  <1>1. InFlight = {}
    BY InFlightFinite, FS_EmptySet DEF DrainAccounting
  <1>2. QED
    BY <1>1 DEF NothingVanishes

\* A caller is owed what was accepted when it called, and goes past the drain
\* only with the counter at zero.
LEMMA DrainedStep ==
    ASSUME IInv, TypeOK, Answered, Attempted, NothingVanishes, Drained, [Next]_vars
    PROVE  Drained'
  <1> DEFINE Done(i) == InSinks(i) \/ i \in evicted \cup reported
             Past(c) == cpc[c] \in {"join", "drained"}
  <1>1. \A c \in Callers : owed[c] \subseteq Items
    BY DEF TypeOK
  <1>2. \A i \in Items : ret[i] = "accepted" => ret'[i] = "accepted"
    BY RetStep
  <1>3. ASSUME NEW i, Done(i) PROVE Done(i)'
    BY <1>3, OutcomeStays, SinksGrow
  <1>4. ASSUME NEW c \in Callers
        PROVE  \/ owed'[c] = owed[c]
               \/ Begin(c) /\ owed'[c] = {i \in Items : ret[i] = "accepted"}
    <2>1. ASSUME NEW d \in Callers, Begin(d)
          PROVE  \/ owed'[c] = owed[c]
                 \/ Begin(c) /\ owed'[c] = {i \in Items : ret[i] = "accepted"}
      <3>1. owed' = [owed EXCEPT ![d] = {i \in Items : ret[i] = "accepted"}]
        BY <2>1 DEF Begin
      <3>2. CASE d = c
        BY <2>1, <3>1, <3>2 DEF TypeOK
      <3>3. CASE d # c
        BY <3>1, <3>3 DEF TypeOK
      <3>4. QED
        BY <3>2, <3>3
    <2>2. ASSUME NEW d \in Callers, CallerStep(d) PROVE owed'[c] = owed[c]
      BY <2>2 DEF CallerStep, Check, Join, LastFlush
    <2>3. QED
      BY <2>1, <2>2, CallersFrame
  <1>5. ASSUME NEW c \in Callers, NEW i \in owed'[c] PROVE ret'[i] = "accepted"
    <2>1. i \in Items /\ ret[i] = "accepted"
      BY <1>1, <1>4, <1>5 DEF Drained
    <2>2. QED
      BY <1>2, <2>1
  <1>6. ASSUME NEW c \in Callers, Past(c)'
        PROVE  /\ owed'[c] = owed[c]
               /\ Past(c) \/ (Check(c) /\ pending = 0)
    <2>1. ASSUME UNCHANGED owed, UNCHANGED cpc \/ Wake
          PROVE  owed'[c] = owed[c] /\ Past(c)
      BY <2>1, <1>6 DEF Wake, TypeOK
    <2>2. ASSUME NEW d \in Callers, d # c, Begin(d) \/ CallerStep(d)
          PROVE  owed'[c] = owed[c] /\ Past(c)
      BY <2>2, <1>6 DEF Begin, CallerStep, Check, Join, LastFlush, TypeOK
    <2>3. ~Begin(c)
      BY <1>6 DEF Begin, TypeOK
    <2>4. Check(c) => owed'[c] = owed[c] /\ pending = 0
      BY <1>6 DEF Check, TypeOK
    <2>5. Join(c) => owed'[c] = owed[c] /\ Past(c)
      BY <1>6 DEF Join, TypeOK
    <2>6. ~LastFlush(c)
      BY <1>6 DEF LastFlush, TypeOK
    <2> HIDE DEF Past
    <2>7. ASSUME NEW d \in Callers, Begin(d) \/ CallerStep(d)
          PROVE  /\ owed'[c] = owed[c]
                 /\ Past(c) \/ (Check(c) /\ pending = 0)
      <3>2. CASE d # c
        BY <2>2, <2>7, <3>2, Zenon
      <3>3. CASE d = c
        BY <2>3, <2>4, <2>5, <2>6, <2>7, <3>3, Zenon DEF CallerStep
      <3>4. QED
        BY <3>2, <3>3
    <2>8. CASE UNCHANGED owed /\ (UNCHANGED cpc \/ Wake)
      BY <2>1, <2>8, Zenon
    <2>9. QED
      BY <2>7, <2>8, CallersFrame, Zenon
  <1>7. ASSUME NEW c \in Callers, Past(c)', NEW i \in owed'[c] PROVE Done(i)'
    <2>1. i \in owed[c] /\ i \in Items /\ ret[i] = "accepted"
      BY <1>1, <1>6, <1>7 DEF Drained
    <2>2. CASE Past(c)
      BY <1>3, <2>1, <2>2 DEF Drained
    <2>3. CASE pending = 0
      <3>1. DrainAccounting
        BY DEF IInv
      <3>2. Done(i)
        BY <2>1, <2>3, <3>1, DrainedAll
      <3>3. QED
        BY <1>3, <3>2
    <2>4. QED
      BY <1>6, <1>7, <2>2, <2>3
  <1>8. QED
    BY <1>5, <1>7 DEF Drained

\* A last flush that succeeds stores what the caller is owed, in every sink; it
\* stays there.
LEMMA FlushStep ==
    ASSUME IInv, TypeOK, Answered, Attempted, NothingVanishes, Drained,
           FlushMeansStored, [Next]_vars
    PROVE  FlushMeansStored'
  <1> DEFINE Kept(i) == (\A t \in Sinks : i \in stored[t]) \/ i \in evicted \cup reported
  <1>t. Sinks \subseteq Targets
    BY DEF Targets
  <1>1. ASSUME NEW i, Kept(i) PROVE Kept(i)'
    BY <1>1, <1>t, SinksGrow
  <1>2. ASSUME NEW c \in Callers, cpc'[c] = "ok"
        PROVE  /\ owed'[c] = owed[c]
               /\ cpc[c] = "ok" \/ LastFlush(c)
    <2>1. ASSUME UNCHANGED owed, UNCHANGED cpc \/ Wake
          PROVE  owed'[c] = owed[c] /\ cpc[c] = "ok"
      BY <2>1, <1>2 DEF Wake, TypeOK
    <2>2. ASSUME NEW d \in Callers, d # c, Begin(d) \/ CallerStep(d)
          PROVE  owed'[c] = owed[c] /\ cpc[c] = "ok"
      BY <2>2, <1>2 DEF Begin, CallerStep, Check, Join, LastFlush, TypeOK
    <2>3. ~Begin(c) /\ ~Check(c) /\ ~Join(c)
      BY <1>2 DEF Begin, Check, Join, TypeOK
    <2>4. LastFlush(c) => owed'[c] = owed[c]
      BY DEF LastFlush
    <2>5. CASE \E d \in Callers : Begin(d) \/ CallerStep(d)
      <3>1. PICK d \in Callers : Begin(d) \/ CallerStep(d)
        BY <2>5
      <3>2. CASE d # c
        BY <2>2, <3>1, <3>2
      <3>3. CASE d = c
        BY <2>3, <2>4, <3>1, <3>3, Zenon DEF CallerStep
      <3>4. QED
        BY <3>2, <3>3
    <2>6. CASE UNCHANGED owed /\ (UNCHANGED cpc \/ Wake)
      BY <2>1, <2>6
    <2>7. QED
      BY <2>5, <2>6, CallersFrame, Zenon
  <1>3. ASSUME NEW c \in Callers, cpc'[c] = "ok", LastFlush(c), NEW i \in owed[c]
        PROVE  Kept(i)'
    <2>1. cpc[c] = "drained" /\ FlushSinks(Targets) /\ UNCHANGED faults
      BY <1>3 DEF LastFlush, TypeOK
    <2>2. \A t \in Targets : stored'[t] = stored[t] \cup buffered[t]
      BY <2>1, FlushGrows
    <2>3. CASE InSinks(i)
      BY <1>t, <2>2, <2>3 DEF InSinks
    <2>4. CASE i \in evicted \cup reported
      BY <1>1, <2>4
    <2>5. QED
      BY <2>1, <2>3, <2>4 DEF Drained
  <1>4. ASSUME NEW c \in Callers, cpc'[c] = "ok", NEW i \in owed'[c] PROVE Kept(i)'
    <2>1. CASE cpc[c] = "ok"
      <3>1. Kept(i)
        BY <1>2, <1>4, <2>1 DEF FlushMeansStored
      <3>2. QED
        BY <1>1, <3>1
    <2>2. CASE LastFlush(c)
      BY <1>2, <1>3, <1>4, <2>2
    <2>3. QED
      BY <1>2, <1>4, <2>1, <2>2
  <1>5. QED
    BY <1>4 DEF FlushMeansStored

\* A batch of one item, of any size.
LEMMA BytesOne ==
    ASSUME NEW x \in Items
    PROVE  Summed(<<x>>) /\ Len(<<x>>) = 1
  <1>1. <<>> \in Seq(Items) /\ Append(<<>>, x) = <<x>>
    OBVIOUS
  <1>2. QED
    BY <1>1, BytesEmpty, BytesAppend

\* An item joins a batch only if there is room for it.
LEMMA BatchesStep ==
    ASSUME IInv, TypeOK, Batches, [Next]_vars
    PROVE  Batches'
  <1> DEFINE Fits(b) == Summed(b) /\ (Len(b) > 1 => Bytes(b) <= MaxBatchBytes)
  <1>1. ASSUME NEW w \in Workers PROVE Fits(batch[w])
    BY DEF Batches, BatchWithinLimit
  <1>2. ASSUME NEW x \in Items PROVE Fits(<<x>>)
    BY <1>2, BytesOne
  <1>3. Fits(<<>>)
    BY BytesEmpty
  <1>4. ASSUME NEW v \in Workers, NEW w \in Workers, WorkerStep(v)
        PROVE  Fits(batch'[w])
    <2>1. CASE v # w \/ WorkerExit(v) \/ BatchEnds(v) \/ WriteBatch(v)
      <3>1. batch'[w] = batch[w]
        BY <1>4, <2>1 DEF WorkerStep, NextItem, WorkerExit, Collect, BatchEnds,
           WriteBatch, FinishBatch, TypeOK
      <3>2. QED
        BY <1>1, <3>1
    <2>2. CASE v = w /\ NextItem(w)
      <3>1. \/ carry[w] # None /\ batch'[w] = <<carry[w]>>
            \/ queue # <<>> /\ batch'[w] = <<Head(queue)>>
        BY <2>2 DEF NextItem, TypeOK
      <3>2. /\ carry[w] # None => carry[w] \in Items
            /\ queue # <<>> => Head(queue) \in Items
        BY DEF TypeOK
      <3>3. QED
        BY <1>2, <3>1, <3>2
    <2>3. CASE v = w /\ Collect(w)
      <3>1. CASE batch'[w] = batch[w]
        BY <1>1, <3>1
      <3>2. CASE /\ queue # <<>> /\ HasRoom(w)
                 /\ batch'[w] = Append(batch[w], Head(queue))
        <4>1. Head(queue) \in Items /\ batch[w] \in Seq(Items) /\ Summed(batch[w])
          BY <3>2, <1>1 DEF TypeOK
        <4>2. /\ Summed(Append(batch[w], Head(queue)))
              /\ Bytes(Append(batch[w], Head(queue))) = Bytes(batch[w]) + Size[Head(queue)]
          BY <4>1, BytesAppend
        <4>3. QED
          BY <3>2, <4>2 DEF HasRoom
      <3>3. QED
        BY <2>3, <3>1, <3>2 DEF Collect, TypeOK
    <2>4. CASE v = w /\ FinishBatch(w)
      <3>1. batch'[w] = <<>>
        BY <2>4 DEF FinishBatch, TypeOK
      <3>2. QED
        BY <1>3, <3>1
    <2>5. QED
      BY <1>4, <2>1, <2>2, <2>3, <2>4 DEF WorkerStep
  <1>5. ASSUME NEW w \in Workers PROVE Fits(batch'[w])
    <2>1. CASE UNCHANGED batch
      BY <1>1, <2>1
    <2>2. QED
      BY <1>4, <2>1, WorkersFrame
  <1>6. ASSUME NEW w \in Workers
        PROVE  Summed(batch[w])' /\ (Len(batch'[w]) > 1 => Bytes(batch[w])' <= MaxBatchBytes)
    <2>1. Summed(batch[w])' <=> Summed(batch'[w])
      BY DEF Summed, SumOf
    <2>2. Bytes(batch[w])' = Bytes(batch'[w])
      BY DEF Bytes
    <2>3. QED
      BY <1>5, <2>1, <2>2
  <1>7. QED
    BY <1>6 DEF Batches, BatchWithinLimit

-----------------------------------------------------------------------------
\* Nothing is accepted, batched or owed.
LEMMA InitDelivery ==
    ASSUME Init
    PROVE  Delivery
  <1>1. \A w \in Workers : batch[w] = <<>> /\ wpc[w] = "next"
    BY DEF Init
  <1>2. \A i \in Items : ret[i] = None /\ epc[i] = "new"
    BY DEF Init
  <1>3. \A c \in Callers : cpc[c] = "idle" /\ owed[c] = {}
    BY DEF Init
  <1>4. Batches
    BY <1>1, BytesEmpty DEF Batches, BatchWithinLimit
  <1>5. Answered /\ NothingVanishes
    BY <1>2 DEF Answered, NothingVanishes, None
  <1>6. Attempted
    BY <1>1, <1>2 DEF Attempted, Init
  <1>7. Drained /\ FlushMeansStored
    BY <1>3 DEF Drained, FlushMeansStored
  <1>8. QED
    BY <1>4, <1>5, <1>6, <1>7 DEF Delivery

\* With the drain accounting the parts of Delivery are inductive.
THEOREM DeliveryInvariant == Spec => []Delivery
  <1>1. Init => Delivery
    BY InitDelivery
  <1>2. IInv /\ Delivery /\ [Next]_vars => Delivery'
    <2>1. SUFFICES ASSUME IInv, Delivery, [Next]_vars PROVE Delivery'
      OBVIOUS
    <2>2. TypeOK
      BY <2>1 DEF IInv
    <2>3. Answered'
      BY <2>1, <2>2, AnsweredStep DEF Delivery
    <2>4. Attempted'
      BY <2>1, <2>2, AttemptedStep DEF Delivery
    <2>5. NothingVanishes'
      BY <2>1, <2>2, VanishStep DEF Delivery
    <2>6. Drained'
      BY <2>1, <2>2, DrainedStep DEF Delivery
    <2>7. FlushMeansStored'
      BY <2>1, <2>2, FlushStep DEF Delivery
    <2>8. Batches'
      BY <2>1, <2>2, BatchesStep DEF Delivery
    <2>9. QED
      BY <2>3, <2>4, <2>5, <2>6, <2>7, <2>8 DEF Delivery
  <1>3. QED
    BY <1>1, <1>2, Inductive, PTL DEF Spec

\* An item Enqueue accepted does not vanish: it is on its way to the sinks or
\* in all of them, DropOldest threw it away, or OnError was called for it and
\* the fallback has it unless it failed as well.
THEOREM NoItemVanishes == Spec => []NothingVanishes
  BY DeliveryInvariant, PTL DEF Delivery

\* A Flush or Shutdown that returned without an error leaves every item that
\* was accepted before the call stored in all sinks, thrown away by DropOldest,
\* or reported to OnError.
THEOREM FlushStores == Spec => []FlushMeansStored
  BY DeliveryInvariant, PTL DEF Delivery

\* No batch of more than one item exceeds cfg.MaxBatchBytes.
THEOREM BatchesBounded == Spec => []BatchWithinLimit
  BY DeliveryInvariant, PTL DEF Delivery, Batches

-----------------------------------------------------------------------------
(* The order of the items.                                                 *)

\* What the path out has of the items s the queue took, ev thrown away.
Follows(out, s, ev) ==
    /\ ToSet(s) \ ev = ToSet(out) \cap ToSet(s)
    /\ \A i, j \in DOMAIN s, k, l \in DOMAIN out :
          s[i] = out[k] /\ s[j] = out[l] => (i < j <=> k < l)

\* What the queue took has left Enqueue, what it has or had thrown away it took,
\* and what was written is about to leave.
Taken ==
    /\ \A i \in ToSet(sent) : epc[i] = "returned"
    /\ \A i \in ToSet(written) : epc[i] \in {"release", "returned"}
    /\ ToSet(queue) \cup evicted \subseteq ToSet(sent)

Order == Taken /\ InOrder

\* Two sequences, one after the other.
LEMMA ConcatItems ==
    ASSUME NEW s \in Seq(Items), NEW t \in Seq(Items)
    PROVE  /\ s \o t \in Seq(Items) /\ Len(s \o t) = Len(s) + Len(t)
           /\ DOMAIN (s \o t) = 1 .. Len(s) + Len(t)
           /\ Len(s) \in Nat /\ Len(t) \in Nat
           /\ \A k \in 1 .. Len(s) : (s \o t)[k] = s[k]
           /\ \A k \in 1 .. Len(t) : (s \o t)[Len(s) + k] = t[k]
           /\ \A k \in Len(s) + 1 .. Len(s) + Len(t) : (s \o t)[k] = t[k - Len(s)]
           /\ ToSet(s \o t) = ToSet(s) \cup ToSet(t)
  <1>1. /\ s \o t \in Seq(Items) /\ Len(s \o t) = Len(s) + Len(t)
        /\ DOMAIN (s \o t) = 1 .. Len(s) + Len(t)
        /\ Len(s) \in Nat /\ Len(t) \in Nat
        /\ DOMAIN s = 1 .. Len(s) /\ DOMAIN t = 1 .. Len(t)
    OBVIOUS
  <1>2. \A k \in 1 .. Len(s) : (s \o t)[k] = s[k]
    OBVIOUS
  <1>3. \A k \in Len(s) + 1 .. Len(s) + Len(t) : (s \o t)[k] = t[k - Len(s)]
    OBVIOUS
  <1>4. \A k \in 1 .. Len(t) : (s \o t)[Len(s) + k] = t[k]
    <2>1. TAKE k \in 1 .. Len(t)
    <2>2. Len(s) + k \in Len(s) + 1 .. Len(s) + Len(t) /\ (Len(s) + k) - Len(s) = k
      BY <1>1
    <2>3. QED
      BY <1>3, <2>2
  <1>5. ToSet(s \o t) \subseteq ToSet(s) \cup ToSet(t)
    <2>1. ASSUME NEW k \in 1 .. Len(s) + Len(t), k \notin 1 .. Len(s)
          PROVE  k \in Len(s) + 1 .. Len(s) + Len(t) /\ k - Len(s) \in 1 .. Len(t)
      BY <1>1, <2>1
    <2>2. QED
      BY <1>1, <1>2, <1>3, <2>1 DEF ToSet
  <1>6. ToSet(s) \subseteq ToSet(s \o t)
    <2>1. 1 .. Len(s) \subseteq 1 .. Len(s) + Len(t)
      BY <1>1
    <2>2. QED
      BY <1>1, <1>2, <2>1 DEF ToSet
  <1>7. ToSet(t) \subseteq ToSet(s \o t)
    <2>1. \A k \in 1 .. Len(t) : Len(s) + k \in 1 .. Len(s) + Len(t)
      BY <1>1
    <2>2. QED
      BY <1>1, <1>4, <2>1 DEF ToSet
  <1>8. QED
    BY <1>1, <1>2, <1>3, <1>4, <1>5, <1>6, <1>7

\* The same, as a rule for any two.
LEMMA ConcatSets ==
    \A s, t \in Seq(Items) : s \o t \in Seq(Items) /\ ToSet(s \o t) = ToSet(s) \cup ToSet(t)
  BY ConcatItems

\* It does not matter which two are put together first; the empty one adds nothing.
LEMMA ConcatAssoc ==
    /\ \A s, t, u \in Seq(Items) : s \o (t \o u) = (s \o t) \o u
    /\ \A s \in Seq(Items) : s \o <<>> = s /\ <<>> \o s = s
    /\ \A s \in Seq(Items) : \A x \in Items : Append(s, x) = s \o <<x>>
    /\ \A s \in Seq(Items) : s # <<>> => s = <<Head(s)>> \o Tail(s)
  <1>1. ASSUME NEW s \in Seq(Items), NEW t \in Seq(Items), NEW u \in Seq(Items)
        PROVE  s \o (t \o u) = (s \o t) \o u
    OBVIOUS
  <1>2. ASSUME NEW s \in Seq(Items) PROVE s \o <<>> = s /\ <<>> \o s = s
    OBVIOUS
  <1>3. ASSUME NEW s \in Seq(Items), NEW x \in Items PROVE Append(s, x) = s \o <<x>>
    OBVIOUS
  <1>4. ASSUME NEW s \in Seq(Items), s # <<>> PROVE s = <<Head(s)>> \o Tail(s)
    BY <1>4
  <1>5. QED
    BY <1>1, <1>2, <1>3, <1>4

\* A send: the item is the last on the path and the last that was taken.
LEMMA FollowsSend ==
    ASSUME NEW o \in Seq(Items), NEW s \in Seq(Items), NEW ev, NEW x \in Items,
           Follows(o, s, ev), x \notin ToSet(s) \cup ToSet(o) \cup ev
    PROVE  Follows(Append(o, x), Append(s, x), ev)
  <1> DEFINE o1 == Append(o, x)
             s1 == Append(s, x)
  <1>1. /\ ToSet(o1) = ToSet(o) \cup {x} /\ ToSet(s1) = ToSet(s) \cup {x}
    BY ToSetAppend
  <1>2. /\ DOMAIN o1 = 1 .. Len(o) + 1 /\ DOMAIN s1 = 1 .. Len(s) + 1
        /\ DOMAIN o = 1 .. Len(o) /\ DOMAIN s = 1 .. Len(s)
        /\ Len(o) \in Nat /\ Len(s) \in Nat
        /\ \A k \in 1 .. Len(o) : o1[k] = o[k] /\ o[k] \in ToSet(o)
        /\ \A k \in 1 .. Len(s) : s1[k] = s[k] /\ s[k] \in ToSet(s)
        /\ o1[Len(o) + 1] = x /\ s1[Len(s) + 1] = x
    BY DEF ToSet
  <1>3. ToSet(s1) \ ev = ToSet(o1) \cap ToSet(s1)
    BY <1>1 DEF Follows
  <1>4. ASSUME NEW i \in DOMAIN s1, NEW k \in DOMAIN o1, s1[i] = o1[k]
        PROVE  \/ i \in 1 .. Len(s) /\ k \in 1 .. Len(o) /\ s[i] = o[k]
               \/ i = Len(s) + 1 /\ k = Len(o) + 1
    <2>1. i \in 1 .. Len(s) \/ i = Len(s) + 1
      BY <1>2
    <2>2. k \in 1 .. Len(o) \/ k = Len(o) + 1
      BY <1>2
    <2>3. QED
      BY <1>2, <1>4, <2>1, <2>2
  <1>5. ASSUME NEW i \in DOMAIN s1, NEW j \in DOMAIN s1, NEW k \in DOMAIN o1, NEW l \in DOMAIN o1,
               s1[i] = o1[k], s1[j] = o1[l]
        PROVE  i < j <=> k < l
    <2>1. \/ i \in 1 .. Len(s) /\ k \in 1 .. Len(o) /\ s[i] = o[k]
          \/ i = Len(s) + 1 /\ k = Len(o) + 1
      BY <1>4, <1>5
    <2>2. \/ j \in 1 .. Len(s) /\ l \in 1 .. Len(o) /\ s[j] = o[l]
          \/ j = Len(s) + 1 /\ l = Len(o) + 1
      BY <1>4, <1>5
    <2>3. CASE i \in 1 .. Len(s) /\ j \in 1 .. Len(s)
      <3>1. k \in 1 .. Len(o) /\ l \in 1 .. Len(o) /\ s[i] = o[k] /\ s[j] = o[l]
        BY <1>2, <2>1, <2>2, <2>3
      <3>2. QED
        BY <1>2, <2>3, <3>1 DEF Follows
    <2>4. CASE ~(i \in 1 .. Len(s) /\ j \in 1 .. Len(s))
      BY <1>2, <2>1, <2>2, <2>4
    <2>5. QED
      BY <2>3, <2>4
  <1>6. QED
    BY <1>3, <1>5 DEF Follows

\* DropOldest: the head of the queue leaves the path.
LEMMA FollowsEvict ==
    ASSUME NEW a \in Seq(Items), NEW q \in Seq(Items), NEW s \in Seq(Items), NEW ev,
           q # <<>>, Head(q) \in ToSet(s), Follows(a \o q, s, ev)
    PROVE  Follows(a \o Tail(q), s, ev \cup {Head(q)})
  <1> DEFINE o == a \o q
             o1 == a \o Tail(q)
             p == Len(a) + 1
  <1>1. /\ Tail(q) \in Seq(Items) /\ Len(Tail(q)) = Len(q) - 1 /\ Len(q) \in Nat \ {0}
        /\ Head(q) = q[1] /\ Head(q) \in Items
        /\ \A k \in 1 .. Len(q) - 1 : Tail(q)[k] = q[k + 1]
    OBVIOUS
  <1>2. /\ DOMAIN o = 1 .. Len(a) + Len(q) /\ DOMAIN o1 = 1 .. Len(a) + Len(q) - 1
        /\ Len(a) \in Nat /\ p \in DOMAIN o /\ o[p] = Head(q)
    <2>1. 1 \in 1 .. Len(q) /\ Len(a) \in Nat
      BY <1>1
    <2>2. QED
      BY <1>1, <2>1, ConcatItems
  <1>3. \A k \in 1 .. Len(a) : o1[k] = o[k]
    BY <1>1, ConcatItems
  <1>4. \A k \in p .. Len(a) + Len(q) - 1 : o1[k] = o[k + 1]
    <2>1. TAKE k \in p .. Len(a) + Len(q) - 1
    <2>2. /\ k \in Len(a) + 1 .. Len(a) + Len(Tail(q)) /\ k - Len(a) \in 1 .. Len(q) - 1
          /\ k + 1 \in Len(a) + 1 .. Len(a) + Len(q) /\ (k + 1) - Len(a) = (k - Len(a)) + 1
      BY <1>1, <1>2
    <2>3. o1[k] = Tail(q)[k - Len(a)]
      BY <1>1, <2>2, ConcatItems
    <2>4. o[k + 1] = q[(k + 1) - Len(a)]
      BY <2>2, ConcatItems
    <2>5. QED
      BY <1>1, <2>2, <2>3, <2>4
  <1> DEFINE Was(k) == IF k < p THEN k ELSE k + 1
  <1>5. ASSUME NEW k \in DOMAIN o1
        PROVE  Was(k) \in DOMAIN o /\ o1[k] = o[Was(k)] /\ Was(k) # p /\ k \in Int
    BY <1>1, <1>2, <1>3, <1>4
  <1>6. ASSUME NEW k \in DOMAIN o, k # p
        PROVE  \E m \in DOMAIN o1 : o1[m] = o[k]
    <2>1. CASE k < p
      <3>1. k \in 1 .. Len(a) /\ k \in DOMAIN o1
        BY <1>1, <1>2, <2>1
      <3>2. QED
        BY <1>3, <3>1
    <2>2. CASE ~(k < p)
      <3>1. k - 1 \in p .. Len(a) + Len(q) - 1 /\ k - 1 \in DOMAIN o1 /\ (k - 1) + 1 = k
        BY <1>1, <1>2, <1>6, <2>2
      <3>2. QED
        BY <1>4, <3>1
    <2>3. QED
      BY <2>1, <2>2
  <1>7. ASSUME NEW i \in DOMAIN s, NEW j \in DOMAIN s, NEW k \in DOMAIN o, NEW l \in DOMAIN o,
               s[i] = o[k], s[j] = o[l]
        PROVE  i < j <=> k < l
    BY <1>7 DEF Follows
  <1>h. /\ p \in Int
        /\ \A k \in Int : Was(k) = IF k < p THEN k ELSE k + 1
        /\ ToSet(s) \ ev = ToSet(o) \cap ToSet(s)
    BY <1>2 DEF Follows
  <1> HIDE DEF o, o1, Was, p
  <1>8. ASSUME NEW k \in DOMAIN o1
        PROVE  o1[k] # Head(q)
    <2>1. SUFFICES ASSUME o1[k] = Head(q) PROVE FALSE
      OBVIOUS
    <2>2. PICK i \in DOMAIN s : s[i] = Head(q)
      BY DEF ToSet
    <2>3. i < i <=> Was(k) < p
      BY <1>2, <1>5, <1>7, <2>1, <2>2
    <2>4. i < i <=> p < Was(k)
      BY <1>2, <1>5, <1>7, <2>1, <2>2
    <2>5. i \in Int /\ Was(k) \in Int /\ p \in Int
      BY SMTT(40), <1>5, <1>h
    <2>6. QED
      BY <1>5, <2>3, <2>4, <2>5
  <1>9. ToSet(o1) = ToSet(o) \ {Head(q)}
    BY <1>2, <1>5, <1>6, <1>8 DEF ToSet
  <1>10. ToSet(s) \ (ev \cup {Head(q)}) = ToSet(o1) \cap ToSet(s)
    BY <1>9, <1>h
  <1>11. ASSUME NEW i \in DOMAIN s, NEW j \in DOMAIN s, NEW k \in DOMAIN o1, NEW l \in DOMAIN o1,
                s[i] = o1[k], s[j] = o1[l]
         PROVE  i < j <=> k < l
    <2>1. i < j <=> Was(k) < Was(l)
      BY <1>5, <1>7, <1>11
    <2>2. Was(k) < Was(l) <=> k < l
      <3>1. k \in Int /\ l \in Int
        BY <1>5
      <3>2. QED
        BY <3>1, <1>h
    <2>3. QED
      BY <2>1, <2>2
  <1>12. QED
    BY <1>10, <1>11 DEF Follows, o1

\* SyncFallback: an item the queue did not take comes between the written ones
\* and the rest.
LEMMA FollowsDirect ==
    ASSUME NEW a \in Seq(Items), NEW b \in Seq(Items), NEW s \in Seq(Items), NEW ev,
           NEW x \in Items, x \notin ToSet(s), Follows(a \o b, s, ev)
    PROVE  Follows((a \o <<x>>) \o b, s, ev)
  <1> DEFINE o == a \o b
             c == a \o <<x>>
             o1 == c \o b
             p == Len(a) + 1
  <1>1. /\ c \in Seq(Items) /\ Len(c) = p /\ Len(a) \in Nat /\ Len(b) \in Nat
        /\ \A k \in 1 .. Len(a) : c[k] = a[k]
        /\ c[p] = x /\ ToSet(c) = ToSet(a) \cup {x}
    <2>1. c = Append(a, x) /\ p = Len(a) + 1
      BY ConcatAssoc
    <2>2. /\ Len(a) \in Nat /\ Len(b) \in Nat
          /\ \A k \in 1 .. Len(a) : Append(a, x)[k] = a[k]
          /\ Append(a, x)[Len(a) + 1] = x
      OBVIOUS
    <2> HIDE DEF c, p
    <2>3. QED
      BY <2>1, <2>2, ToSetAppend
  <1>2. DOMAIN o = 1 .. Len(a) + Len(b) /\ DOMAIN o1 = 1 .. p + Len(b)
    BY <1>1, ConcatItems
  <1> DEFINE Was(k) == IF k < p THEN k ELSE k - 1
  <1>h. /\ p \in Int /\ p = Len(a) + 1
        /\ \A k \in Int : Was(k) = IF k < p THEN k ELSE k - 1
    BY <1>1
  <1>i. ToSet(o1) = ToSet(c) \cup ToSet(b) /\ ToSet(o) = ToSet(a) \cup ToSet(b)
    BY <1>1, ConcatItems
  <1>j. /\ ToSet(s) \ ev = ToSet(o) \cap ToSet(s)
        /\ \A i, j \in DOMAIN s, k, l \in DOMAIN o : s[i] = o[k] /\ s[j] = o[l] => (i < j <=> k < l)
    BY DEF Follows
  <1>g. /\ \A k \in 1 .. Len(a) : o[k] = a[k]
        /\ \A k \in Len(a) + 1 .. Len(a) + Len(b) : o[k] = b[k - Len(a)]
        /\ \A k \in 1 .. Len(c) : o1[k] = c[k]
        /\ \A k \in Len(c) + 1 .. Len(c) + Len(b) : o1[k] = b[k - Len(c)]
    BY <1>1, ConcatItems
  <1> HIDE DEF o, o1, c, Was, p
  <1>3. ASSUME NEW k \in DOMAIN o1
        PROVE  k \in Int /\ ((k = p /\ o1[k] = x) \/ (k # p /\ Was(k) \in DOMAIN o /\ o1[k] = o[Was(k)]))
    <2>1. CASE k \in 1 .. Len(a)
      <3>1. k \in 1 .. Len(c) /\ k # p /\ k < p /\ k \in DOMAIN o
        BY <1>1, <1>2, <2>1, <1>h
      <3>2. o1[k] = c[k] /\ o[k] = a[k]
        BY <1>1, <2>1, <3>1, <1>g
      <3>3. QED
        BY <1>1, <2>1, <3>1, <3>2, <1>h
    <2>2. CASE k = p
      <3>1. p \in 1 .. Len(c)
        BY <1>1, <1>h
      <3>2. o1[k] = c[p]
        BY <1>1, <2>2, <3>1, <1>g
      <3>3. c[p] = x /\ k \in Int
        BY <1>1, <2>2, <1>h
      <3>4. QED
        BY <2>2, <3>2, <3>3
    <2>3. CASE k \in p + 1 .. p + Len(b)
      <3>1. /\ k \in Len(c) + 1 .. Len(c) + Len(b) /\ k - 1 \in Len(a) + 1 .. Len(a) + Len(b)
            /\ k # p /\ ~(k < p) /\ k - Len(c) = (k - 1) - Len(a) /\ k - 1 \in DOMAIN o
        BY <1>1, <1>2, <2>3, <1>h
      <3>2. o1[k] = b[k - Len(c)]
        BY <1>1, <3>1, <1>g
      <3>3. o[k - 1] = b[(k - 1) - Len(a)]
        BY <1>1, <3>1, <1>g
      <3>4. QED
        BY SMTT(40), <2>3, <3>1, <3>2, <3>3, <1>h
    <2>4. k \in 1 .. Len(a) \/ k = p \/ k \in p + 1 .. p + Len(b)
      BY <1>1, <1>2, <1>h
    <2>5. QED
      BY <2>1, <2>2, <2>3, <2>4
  <1>4. ToSet(o1) = ToSet(o) \cup {x}
    BY <1>1, <1>i
  <1>5. ToSet(s) \ ev = ToSet(o1) \cap ToSet(s)
    BY <1>4, <1>j
  <1>6. ASSUME NEW i \in DOMAIN s, NEW j \in DOMAIN s, NEW k \in DOMAIN o1, NEW l \in DOMAIN o1,
               s[i] = o1[k], s[j] = o1[l]
        PROVE  i < j <=> k < l
    <2>1. s[i] # x /\ s[j] # x
      BY DEF ToSet
    <2>2. /\ k # p /\ Was(k) \in DOMAIN o /\ o1[k] = o[Was(k)]
          /\ l # p /\ Was(l) \in DOMAIN o /\ o1[l] = o[Was(l)]
      BY <1>3, <1>6, <2>1
    <2>3. i < j <=> Was(k) < Was(l)
      BY <1>6, <2>2, <1>j
    <2>4. Was(k) < Was(l) <=> k < l
      BY <1>1, <1>3, <2>2, <1>h
    <2>5. QED
      BY <2>3, <2>4
  <1>7. QED
    BY <1>5, <1>6 DEF Follows, o1, c

\* Rest and Path are sequences of items.
LEMMA PathType ==
    ASSUME TypeOK, NEW w \in Workers
    PROVE  /\ Carried(w) \in Seq(Items) /\ Carried(w) \o queue \in Seq(Items)
           /\ Rest(w) \in Seq(Items) /\ Path(w) \in Seq(Items)
           /\ batch[w] \in Seq(Items) /\ queue \in Seq(Items) /\ written \in Seq(Items)
           /\ ToSet(Path(w)) = ToSet(written) \cup ToSet(Rest(w))
           /\ ToSet(queue) \subseteq ToSet(Rest(w))
           /\ <<>> \in Seq(Items)
  <1>1. /\ batch[w] \in Seq(Items) /\ queue \in Seq(Items) /\ written \in Seq(Items)
        /\ carry[w] \in Items \cup {None} /\ <<>> \in Seq(Items)
    BY DEF TypeOK
  <1>2. Carried(w) \in Seq(Items)
    BY <1>1 DEF Carried
  <1>3. Carried(w) \o queue \in Seq(Items) /\ ToSet(queue) \subseteq ToSet(Carried(w) \o queue)
    BY <1>1, <1>2, ConcatItems
  <1>4. Rest(w) \in Seq(Items) /\ ToSet(queue) \subseteq ToSet(Rest(w))
    <2>1. CASE wpc[w] = "finish"
      BY <1>1, <1>3, <2>1, ConcatItems DEF Rest
    <2>2. CASE wpc[w] # "finish"
      <3>1. Rest(w) = batch[w] \o (Carried(w) \o queue)
        BY <2>2 DEF Rest
      <3>2. QED
        <4>1. \A t \in Seq(Items) : /\ batch[w] \o t \in Seq(Items)
                                    /\ ToSet(batch[w] \o t) = ToSet(batch[w]) \cup ToSet(t)
          BY <1>1, ConcatSets
        <4>2. QED
          BY <1>3, <3>1, <4>1
    <2>3. QED
      BY <2>1, <2>2
  <1>5. QED
    BY <1>1, <1>2, <1>3, <1>4, ConcatItems DEF Path

\* InOrder, for the one worker there is.
LEMMA OrderIs ==
    ASSUME NEW w \in Workers, Workers = {w}
    PROVE  InOrder <=> ToSet(Rest(w)) \subseteq ToSet(sent) /\ Follows(Path(w), sent, evicted)
  BY DEF InOrder, Follows

\* A worker carries the items along the path and leaves it as it is.
LEMMA WorkerPath ==
    ASSUME TypeOK, TypeOK', WorkerOK, NEW w \in Workers, WorkerStep(w)
    PROVE  /\ Path(w)' = Path(w) /\ ToSet(Rest(w))' \subseteq ToSet(Rest(w))
           /\ UNCHANGED <<epc, sent, evicted>>
           /\ ToSet(written)' \subseteq ToSet(written) \cup ToSet(batch[w])
           /\ queue' = queue \/ (queue # <<>> /\ queue' = Tail(queue))
  <1>1. /\ Carried(w) \in Seq(Items) /\ Carried(w) \o queue \in Seq(Items)
        /\ batch[w] \in Seq(Items) /\ queue \in Seq(Items) /\ written \in Seq(Items)
        /\ carry[w] \in Items \cup {None} /\ <<>> \in Seq(Items)
    BY PathType DEF TypeOK
  <1>2. queue # <<>> =>
           /\ Head(queue) \in Items /\ Tail(queue) \in Seq(Items) /\ <<Head(queue)>> \in Seq(Items)
           /\ queue = <<Head(queue)>> \o Tail(queue)
    BY <1>1, ConcatAssoc
  <1>3. /\ carry[w] # None => Carried(w) = <<carry[w]>> /\ carry[w] # None
        /\ carry[w] = None => Carried(w) = <<>>
        /\ carry'[w] = None => Carried(w)' = <<>>
        /\ carry'[w] # None => Carried(w)' = <<carry'[w]>>
    BY DEF Carried
  <1>4. Path(w)' = written' \o Rest(w)'
    BY DEF Path
  <1>5. /\ Rest(w) = (IF wpc[w] = "finish" THEN <<>> ELSE batch[w]) \o (Carried(w) \o queue)
        /\ Rest(w)' = (IF wpc'[w] = "finish" THEN <<>> ELSE batch'[w]) \o (Carried(w)' \o queue')
    BY DEF Rest
  <1>6. wpc \in [Workers -> {"next", "collect", "write", "finish", "exited"}] /\
        batch \in [Workers -> Seq(Items)] /\ carry \in [Workers -> Items \cup {None}]
    BY DEF TypeOK
  <1>7. ASSUME UNCHANGED written, Rest(w)' = Rest(w)
        PROVE  /\ Path(w)' = Path(w) /\ ToSet(Rest(w))' \subseteq ToSet(Rest(w))
               /\ ToSet(written)' \subseteq ToSet(written) \cup ToSet(batch[w])
    <2>1. Path(w)' = Path(w)
      BY <1>4, <1>7 DEF Path
    <2>2. ToSet(Rest(w))' = ToSet(Rest(w)) /\ ToSet(written)' = ToSet(written)
      BY <1>7 DEF ToSet
    <2>3. QED
      BY <2>1, <2>2
  <1>8. CASE NextItem(w)
    <2>1. /\ batch[w] = <<>> /\ wpc[w] = "next" /\ wpc'[w] = "collect"
          /\ UNCHANGED <<written, epc, sent, evicted>>
          /\ queue' = queue \/ (queue # <<>> /\ queue' = Tail(queue))
      BY <1>6, <1>8 DEF NextItem, WorkerOK, producers, sinks
    <2>2. CASE carry[w] # None /\ batch'[w] = <<carry[w]>> /\ carry'[w] = None /\ UNCHANGED queue
      <3>1. <<carry[w]>> \in Seq(Items)
        BY <1>1, <2>2
      <3>2. Rest(w) = <<carry[w]>> \o queue
        <4>1. Rest(w) = <<>> \o (<<carry[w]>> \o queue)
          BY <1>3, <1>5, <2>1, <2>2
        <4>2. <<carry[w]>> \o queue \in Seq(Items)
          BY <1>1, <3>1, ConcatItems
        <4>3. QED
          BY <4>1, <4>2, ConcatAssoc
      <3>3. Rest(w)' = <<carry[w]>> \o (<<>> \o queue)
        BY <1>3, <1>5, <2>1, <2>2
      <3>4. Rest(w)' = Rest(w)
        BY <1>1, <3>2, <3>3, ConcatAssoc
      <3>5. QED
        BY <1>7, <2>1, <3>4
    <2>3. CASE /\ carry[w] = None /\ queue # <<>> /\ batch'[w] = <<Head(queue)>>
               /\ queue' = Tail(queue) /\ UNCHANGED carry
      <3>1. Rest(w) = queue
        BY <1>1, <1>3, <1>5, <2>1, <2>3, ConcatAssoc
      <3>2. Rest(w)' = <<Head(queue)>> \o (<<>> \o Tail(queue))
        BY <1>3, <1>5, <2>1, <2>3
      <3>3. Rest(w)' = Rest(w)
        BY <1>2, <2>3, <3>1, <3>2, ConcatAssoc
      <3>4. QED
        BY <1>7, <2>1, <3>3
    <2>4. QED
      BY <1>6, <1>8, <2>2, <2>3 DEF NextItem
  <1>9. CASE WorkerExit(w) \/ BatchEnds(w)
    <2>1. /\ UNCHANGED <<written, epc, sent, evicted, batch, carry, queue>>
          /\ wpc[w] # "finish" /\ wpc'[w] # "finish"
      BY <1>6, <1>9 DEF WorkerExit, BatchEnds, producers, sinks
    <2>2. Carried(w)' = Carried(w)
      BY <2>1 DEF Carried
    <2>3. Rest(w)' = Rest(w)
      BY <1>5, <2>1, <2>2
    <2>4. QED
      BY <1>7, <2>1, <2>3
  <1>10. CASE Collect(w)
    <2>1. /\ wpc[w] = "collect" /\ queue # <<>> /\ queue' = Tail(queue) /\ carry[w] = None
          /\ UNCHANGED <<written, epc, sent, evicted>>
      BY <1>10 DEF Collect, WorkerOK, producers, sinks
    <2>2. Rest(w) = batch[w] \o queue
      BY <1>1, <1>3, <1>5, <2>1, ConcatAssoc
    <2>3. CASE UNCHANGED <<wpc, carry>> /\ batch' = [batch EXCEPT ![w] = Append(@, Head(queue))]
      <3>1. Rest(w)' = Append(batch[w], Head(queue)) \o (<<>> \o Tail(queue))
        BY <1>3, <1>5, <1>6, <2>1, <2>3
      <3>2. Rest(w)' = (batch[w] \o <<Head(queue)>>) \o Tail(queue)
        BY <1>1, <1>2, <2>1, <3>1, ConcatAssoc
      <3>3. Rest(w)' = batch[w] \o (<<Head(queue)>> \o Tail(queue))
        BY SMTT(40), <1>1, <1>2, <2>1, <3>2, ConcatAssoc
      <3>4. Rest(w)' = Rest(w)
        BY <1>2, <2>1, <2>2, <3>3
      <3>5. QED
        BY <1>7, <2>1, <3>4
    <2>4. CASE carry'[w] = Head(queue) /\ wpc'[w] = "write" /\ UNCHANGED batch
      <3>1. Head(queue) # None
        BY <1>2, <2>1, ItemsAssumption
      <3>2. Rest(w)' = batch[w] \o (<<Head(queue)>> \o Tail(queue))
        BY <1>3, <1>5, <2>1, <2>4, <3>1
      <3>3. Rest(w)' = Rest(w)
        BY <1>2, <2>1, <2>2, <3>2
      <3>4. QED
        BY <1>7, <2>1, <3>3
    <2>5. QED
      BY <1>6, <1>10, <2>3, <2>4 DEF Collect
  <1>11. CASE WriteBatch(w)
    <2>1. /\ wpc[w] = "write" /\ wpc'[w] = "finish" /\ written' = written \o batch[w]
          /\ UNCHANGED <<queue, carry, epc, sent, evicted>>
      BY <1>6, <1>11 DEF WriteBatch, WriteSucceeds, WriteFails, Deliver, producers
    <2>2. Carried(w)' = Carried(w)
      BY <2>1 DEF Carried
    <2> DEFINE t == Carried(w) \o queue
    <2>3. Rest(w) = batch[w] \o t /\ Rest(w)' = t /\ t \in Seq(Items)
      <3>1. Rest(w) = batch[w] \o t /\ Rest(w)' = <<>> \o t /\ t \in Seq(Items)
        BY <1>1, <1>5, <2>1, <2>2
      <3> HIDE DEF t
      <3>2. QED
        BY <3>1, ConcatAssoc
    <2> HIDE DEF t
    <2>4. Path(w)' = Path(w)
      <3>1. Path(w)' = (written \o batch[w]) \o t
        BY <1>4, <2>1, <2>3
      <3>2. Path(w) = written \o (batch[w] \o t)
        BY <2>3 DEF Path
      <3>3. QED
        <4>1. \A u \in Seq(Items) : (written \o batch[w]) \o u = written \o (batch[w] \o u)
          <5>1. TAKE u \in Seq(Items)
          <5>2. written \in Seq(Items) /\ batch[w] \in Seq(Items)
            BY <1>1
          <5>3. \A b \in Seq(Items) : (written \o b) \o u = written \o (b \o u)
            BY <5>2
          <5>4. QED
            BY <5>2, <5>3
        <4>2. QED
          BY <2>3, <3>1, <3>2, <4>1
    <2>5. ToSet(Rest(w)') \subseteq ToSet(Rest(w)) /\ ToSet(written') = ToSet(written) \cup ToSet(batch[w])
      BY <1>1, <2>1, <2>3, ConcatItems
    <2>6. ToSet(Rest(w))' = ToSet(Rest(w)') /\ ToSet(written)' = ToSet(written')
      BY DEF ToSet
    <2>7. QED
      BY <2>1, <2>4, <2>5, <2>6
  <1>12. CASE FinishBatch(w)
    <2>1. /\ wpc[w] = "finish" /\ wpc'[w] = "next" /\ batch'[w] = <<>>
          /\ UNCHANGED <<queue, carry, written, epc, sent, evicted>>
      BY <1>6, <1>12 DEF FinishBatch, producers, sinks
    <2>2. Carried(w)' = Carried(w)
      BY <2>1 DEF Carried
    <2>3. Rest(w)' = Rest(w)
      BY <1>5, <2>1, <2>2
    <2>4. QED
      BY <1>7, <2>1, <2>3
  <1>13. QED
    BY <1>8, <1>9, <1>10, <1>11, <1>12 DEF WorkerStep

\* The steps that touch the path.
LEMMA PathFrame ==
    ASSUME [Next]_vars
    PROVE  \/ UNCHANGED <<queue, wpc, batch, carry, written, sent, evicted>>
           \/ \E i \in Items : Send(i) \/ Evict(i) \/ WriteDirect(i)
           \/ \E w \in Workers : WorkerStep(w)
  BY ZenonT(60) DEF Next, vars, Enqueue, CallerStep, Call, Reserve, Closed, Drop,
         Overfull, NoVictim, Release, Overflow, Tick, FlusherFlushes, FlushSinks, FlushFails,
         FlusherExit, Begin, Check, Expire, Join, LastFlush, sinks, workers

\* An Enqueue that has left does not come back.
LEMMA LeftStays ==
    ASSUME TypeOK, [Next]_vars, NEW i \in Items
    PROVE  /\ epc[i] = "returned" => epc'[i] = "returned"
           /\ epc[i] \in {"release", "returned"} => epc'[i] \in {"release", "returned"}
  <1>1. epc \in [Items -> {"new", "reserve", "offer", "evict", "reoffer",
                          "direct", "release", "returned"}]
    BY DEF TypeOK
  <1>2. CASE UNCHANGED epc
    BY <1>2
  <1>3. CASE \E j \in Items : Call(j) \/ Enqueue(j)
    BY <1>1, <1>3 DEF Enqueue, Call, Reserve, Send, Closed, Drop, Overfull, Evict, NoVictim,
       Overflow, WriteDirect, Release, Leave
  <1>4. QED
    BY <1>2, <1>3, ProducersFrame

\* What the queue took stays out of Enqueue.
LEMMA TakenStep ==
    ASSUME IInv, Order, TypeOK', [Next]_vars
    PROVE  Taken'
  <1>1. /\ TypeOK /\ WorkerOK /\ Apart /\ Taken
        /\ sent \in Seq(Items) /\ written \in Seq(Items) /\ queue \in Seq(Items)
        /\ epc \in [Items -> {"new", "reserve", "offer", "evict", "reoffer",
                              "direct", "release", "returned"}]
    BY DEF IInv, Order, TypeOK
  <1>2. /\ \A i \in ToSet(sent) : i \in Items /\ epc'[i] = "returned"
        /\ \A i \in ToSet(written) : i \in Items /\ epc'[i] \in {"release", "returned"}
    <2>1. ToSet(sent) \subseteq Items /\ ToSet(written) \subseteq Items
      BY <1>1 DEF ToSet
    <2>2. QED
      BY <1>1, <2>1, LeftStays DEF Taken
  <1>n. /\ ToSet(sent)' = ToSet(sent') /\ ToSet(queue)' = ToSet(queue')
        /\ ToSet(written)' = ToSet(written')
    BY DEF ToSet
  <1>3. CASE UNCHANGED <<queue, written, sent, evicted>>
    <2>1. ToSet(sent)' = ToSet(sent) /\ ToSet(written)' = ToSet(written) /\ ToSet(queue)' = ToSet(queue)
      BY <1>3 DEF ToSet
    <2>2. QED
      BY <1>1, <1>2, <1>3, <2>1 DEF Taken
  <1>4. ASSUME NEW i \in Items, Send(i) PROVE Taken'
    <2>1. /\ sent' = Append(sent, i) /\ UNCHANGED <<written, evicted>> /\ epc'[i] = "returned"
          /\ queue' = Append(queue, i)
      BY <1>1, <1>4 DEF Send, sinks
    <2>2. /\ ToSet(sent') = ToSet(sent) \cup {i} /\ ToSet(queue') = ToSet(queue) \cup {i}
          /\ ToSet(written') = ToSet(written)
      BY <1>1, <2>1, ToSetAppend
    <2>3. QED
      BY <1>1, <1>2, <1>n, <2>1, <2>2 DEF Taken
  <1>5. ASSUME NEW i \in Items, Evict(i) PROVE Taken'
    <2>1. /\ queue # <<>> /\ evicted' = evicted \cup {Head(queue)} /\ UNCHANGED <<written, sent>>
          /\ queue' = Tail(queue)
      BY <1>5 DEF Evict, sinks
    <2>2. ToSet(sent') = ToSet(sent) /\ ToSet(written') = ToSet(written)
      BY <2>1
    <2>3. Head(queue) \in ToSet(queue) /\ ToSet(queue') \subseteq ToSet(queue)
      BY <1>1, <2>1, ToSetTail DEF Apart
    <2>4. QED
      BY <1>1, <1>2, <1>n, <2>1, <2>2, <2>3 DEF Taken
  <1>6. ASSUME NEW i \in Items, WriteDirect(i) PROVE Taken'
    <2>1. /\ written' = written \o <<i>> /\ UNCHANGED <<queue, sent, evicted>> /\ epc'[i] = "release"
      BY <1>1, <1>6 DEF WriteDirect, WriteSucceeds, WriteFails, Deliver, Leave
    <2>2. /\ ToSet(sent') = ToSet(sent) /\ ToSet(queue') = ToSet(queue)
          /\ ToSet(written') = ToSet(written) \cup {i}
      <3>1. written' = Append(written, i)
        BY <1>1, <2>1, ConcatAssoc
      <3>2. ToSet(Append(written, i)) = ToSet(written) \cup {i}
        BY <1>1, ToSetAppend
      <3>3. QED
        BY <2>1, <3>1, <3>2
    <2>3. QED
      BY <1>1, <1>2, <1>n, <2>1, <2>2 DEF Taken
  <1>7. ASSUME NEW w \in Workers, WorkerStep(w) PROVE Taken'
    <2>1. /\ UNCHANGED <<epc, sent, evicted>>
          /\ ToSet(written)' \subseteq ToSet(written) \cup ToSet(batch[w])
          /\ queue' = queue \/ (queue # <<>> /\ queue' = Tail(queue))
      BY <1>1, <1>7, WorkerPath
    <2>2. ToSet(sent') = ToSet(sent) /\ ToSet(queue') \subseteq ToSet(queue)
      BY <1>1, <2>1, ToSetTail DEF Apart
    <2>n. /\ ToSet(sent)' = ToSet(sent') /\ ToSet(queue)' = ToSet(queue')
      BY DEF ToSet
    <2>3. \A i \in ToSet(batch[w]) : epc[i] = "returned"
      BY <1>1 DEF Apart, WithWorker
    <2>4. QED
      BY <1>1, <1>2, <2>1, <2>2, <2>3, <2>n DEF Taken
  <1>8. QED
    BY <1>3, <1>4, <1>5, <1>6, <1>7, PathFrame

\* No step lets an item overtake another.
LEMMA InOrderStep ==
    ASSUME IInv, Order, TypeOK', [Next]_vars
    PROVE  InOrder'
  <1>1. /\ TypeOK /\ WorkerOK /\ Apart /\ Taken /\ InOrder
        /\ sent \in Seq(Items) /\ written \in Seq(Items) /\ queue \in Seq(Items)
    BY DEF IInv, Order, TypeOK
  <1>2. SUFFICES ASSUME NEW w \in Workers, Workers = {w}
                 PROVE  ToSet(Rest(w))' \subseteq ToSet(sent)' /\ Follows(Path(w), sent, evicted)'
    BY DEF InOrder, Follows
  <1>3. ToSet(Rest(w)) \subseteq ToSet(sent) /\ Follows(Path(w), sent, evicted)
    BY <1>1, <1>2, OrderIs
  <1>4. /\ ToSet(Rest(w))' = ToSet(Rest(w)') /\ ToSet(sent)' = ToSet(sent')
        /\ Follows(Path(w), sent, evicted)' <=> Follows(Path(w)', sent', evicted')
    BY DEF ToSet, Follows
  <1>5. /\ Rest(w) \in Seq(Items) /\ Path(w) \in Seq(Items) /\ Carried(w) \in Seq(Items)
        /\ batch[w] \in Seq(Items) /\ <<>> \in Seq(Items)
        /\ ToSet(Path(w)) = ToSet(written) \cup ToSet(Rest(w))
    BY <1>1, PathType
  <1> DEFINE now == IF wpc[w] = "finish" THEN <<>> ELSE batch[w]
  <1>6. /\ now \in Seq(Items) /\ now \o Carried(w) \in Seq(Items)
        /\ Rest(w) = (now \o Carried(w)) \o queue
        /\ written \o (now \o Carried(w)) \in Seq(Items)
        /\ Path(w) = (written \o (now \o Carried(w))) \o queue
    <2>1. now \in Seq(Items)
      BY <1>5
    <2>2. Rest(w) = now \o (Carried(w) \o queue)
      BY DEF Rest
    <2> HIDE DEF now
    <2>3. now \o Carried(w) \in Seq(Items) /\ written \o (now \o Carried(w)) \in Seq(Items)
      BY <1>1, <1>5, <2>1, ConcatSets
    <2>4. Rest(w) = (now \o Carried(w)) \o queue
      BY SMTT(40), <1>1, <1>5, <2>1, <2>2, ConcatAssoc
    <2>5. Path(w) = written \o ((now \o Carried(w)) \o queue)
      BY <2>4 DEF Path
    <2>6. QED
      BY <1>1, <2>1, <2>3, <2>4, <2>5, ConcatAssoc
  <1>7. ASSUME UNCHANGED <<wpc, batch, carry>>
        PROVE  Rest(w)' = now \o (Carried(w) \o queue') /\ Carried(w)' = Carried(w)
    BY <1>7 DEF Rest, Carried
  <1>8. Path(w)' = written' \o Rest(w)' /\ Path(w) = written \o Rest(w)
    BY DEF Path
  <1>9. queue' \in Seq(Items) /\ written' \in Seq(Items)
    BY DEF TypeOK
  <1>10. ASSUME UNCHANGED <<wpc, batch, carry>>
         PROVE  Rest(w)' = (now \o Carried(w)) \o queue'
    <2>1. now \in Seq(Items)
      BY <1>6
    <2>2. Rest(w)' = now \o (Carried(w) \o queue')
      BY <1>7, <1>10
    <2> HIDE DEF now
    <2>3. QED
      BY SMTT(40), <1>5, <1>9, <2>1, <2>2, ConcatAssoc
  <1> HIDE DEF now
  <1>11. CASE UNCHANGED <<queue, wpc, batch, carry, written, sent, evicted>>
    <2>1. Rest(w)' = Rest(w)
      BY <1>6, <1>10, <1>11
    <2>2. QED
      BY <1>3, <1>4, <1>8, <1>11, <2>1
  <1>12. ASSUME NEW i \in Items, Send(i)
         PROVE  ToSet(Rest(w))' \subseteq ToSet(sent)' /\ Follows(Path(w), sent, evicted)'
    <2>1. /\ queue' = Append(queue, i) /\ sent' = Append(sent, i)
          /\ UNCHANGED <<wpc, batch, carry, written, evicted>>
          /\ epc[i] \in {"offer", "reoffer"}
      BY <1>12 DEF Send, workers, sinks
    <2>2. i \notin ToSet(sent) \cup ToSet(Path(w)) \cup evicted
      BY <1>1, <1>3, <1>5, <2>1 DEF Taken
    <2>3. Rest(w)' = Append(Rest(w), i)
      <3>1. <<i>> \in Seq(Items) /\ queue' = queue \o <<i>>
        BY <1>1, <2>1, ConcatAssoc
      <3>2. Rest(w)' = (now \o Carried(w)) \o (queue \o <<i>>)
        BY <1>10, <2>1, <3>1
      <3>3. Rest(w)' = Rest(w) \o <<i>>
        <4>1. \A s \in Seq(Items) : s \o (queue \o <<i>>) = (s \o queue) \o <<i>>
          BY <1>1, <3>1, ConcatAssoc
        <4>2. QED
          BY <1>6, <3>2, <4>1
      <3>4. QED
        BY <1>5, <3>3, ConcatAssoc
    <2>4. Path(w)' = Append(Path(w), i)
      <3>1. <<i>> \in Seq(Items) /\ Rest(w)' = Rest(w) \o <<i>>
        BY <1>5, <2>3, ConcatAssoc
      <3>2. Path(w)' = written \o (Rest(w) \o <<i>>)
        BY <1>8, <2>1, <3>1
      <3>3. Path(w)' = Path(w) \o <<i>>
        <4>1. \A s \in Seq(Items) : written \o (s \o <<i>>) = (written \o s) \o <<i>>
          BY <1>1, <3>1, ConcatAssoc
        <4>2. QED
          BY <1>5, <1>8, <3>2, <4>1
      <3>4. QED
        BY <1>5, <3>3, ConcatAssoc
    <2>5. Follows(Append(Path(w), i), Append(sent, i), evicted)
      BY <1>1, <1>3, <1>5, <2>2, FollowsSend
    <2>6. ToSet(Append(Rest(w), i)) \subseteq ToSet(Append(sent, i))
      BY <1>1, <1>3, <1>5, ToSetAppend
    <2>7. QED
      BY <1>4, <2>1, <2>3, <2>4, <2>5, <2>6
  <1>13. ASSUME NEW i \in Items, Evict(i)
         PROVE  ToSet(Rest(w))' \subseteq ToSet(sent)' /\ Follows(Path(w), sent, evicted)'
    <2>1. /\ queue # <<>> /\ queue' = Tail(queue) /\ evicted' = evicted \cup {Head(queue)}
          /\ UNCHANGED <<wpc, batch, carry, written, sent>>
      BY <1>13 DEF Evict, workers, sinks
    <2>2. Head(queue) \in ToSet(sent) /\ ToSet(Tail(queue)) \subseteq ToSet(queue)
      BY <1>1, <2>1, ToSetTail DEF Taken, Apart
    <2>3. Path(w)' = (written \o (now \o Carried(w))) \o Tail(queue)
      <3>1. Path(w)' = written \o ((now \o Carried(w)) \o queue')
        BY <1>8, <1>10, <2>1
      <3>2. QED
        <4>1. \A s \in Seq(Items) : written \o (s \o queue') = (written \o s) \o queue'
          BY <1>1, <1>9, ConcatAssoc
        <4>2. QED
          BY <1>6, <2>1, <3>1, <4>1
    <2>4. Follows((written \o (now \o Carried(w))) \o Tail(queue), sent, evicted \cup {Head(queue)})
      BY <1>1, <1>3, <1>6, <2>1, <2>2, FollowsEvict
    <2>5. ToSet(Rest(w)') \subseteq ToSet(Rest(w))
      <3>1. Rest(w)' = (now \o Carried(w)) \o queue' /\ Rest(w) = (now \o Carried(w)) \o queue
        BY <1>6, <1>10, <2>1
      <3>2. QED
        <4>1. \A s \in Seq(Items) : ToSet(s \o queue') = ToSet(s) \cup ToSet(queue')
          BY <1>9, ConcatSets
        <4>2. \A s \in Seq(Items) : ToSet(s \o queue) = ToSet(s) \cup ToSet(queue)
          BY <1>1, ConcatSets
        <4>3. ToSet(queue') \subseteq ToSet(queue)
          BY <2>1, <2>2
        <4>4. QED
          BY <1>6, <3>1, <4>1, <4>2, <4>3
    <2>6. QED
      BY <1>3, <1>4, <2>1, <2>3, <2>4, <2>5
  <1>14. ASSUME NEW i \in Items, WriteDirect(i)
         PROVE  ToSet(Rest(w))' \subseteq ToSet(sent)' /\ Follows(Path(w), sent, evicted)'
    <2>1. /\ written' = written \o <<i>> /\ UNCHANGED <<queue, wpc, batch, carry, sent, evicted>>
          /\ epc[i] = "direct"
      BY <1>14 DEF WriteDirect, WriteSucceeds, WriteFails, Deliver, Leave, workers
    <2>2. Rest(w)' = Rest(w)
      BY <1>6, <1>10, <2>1
    <2>3. i \notin ToSet(sent)
      BY <1>1, <2>1 DEF Taken
    <2>4. Follows((written \o <<i>>) \o Rest(w), sent, evicted)
      BY <1>1, <1>3, <1>5, <1>8, <2>3, FollowsDirect
    <2>5. QED
      BY <1>3, <1>4, <1>8, <2>1, <2>2, <2>4
  <1>15. ASSUME NEW v \in Workers, WorkerStep(v)
         PROVE  ToSet(Rest(w))' \subseteq ToSet(sent)' /\ Follows(Path(w), sent, evicted)'
    <2>1. v = w
      BY <1>2, <1>15
    <2>2. /\ Path(w)' = Path(w) /\ ToSet(Rest(w))' \subseteq ToSet(Rest(w))
          /\ UNCHANGED <<sent, evicted>>
      BY <1>1, <1>15, <2>1, WorkerPath
    <2>3. QED
      BY <1>3, <1>4, <2>2
  <1>16. QED
    BY <1>11, <1>12, <1>13, <1>14, <1>15, PathFrame

\* The queue has taken nothing.
LEMMA InitOrder ==
    ASSUME Init
    PROVE  Order
  <1>1. ToSet(sent) = {} /\ ToSet(queue) = {} /\ ToSet(written) = {} /\ evicted = {}
    BY ToSetSmall DEF Init
  <1>2. Taken
    BY <1>1 DEF Taken
  <1>3. ASSUME NEW w \in Workers PROVE Rest(w) = <<>> /\ Path(w) = <<>>
    <2>1. <<>> \in Seq(Items) /\ Carried(w) = <<>> /\ queue = <<>> /\ written = <<>>
          /\ wpc[w] = "next" /\ batch[w] = <<>>
      BY DEF Init, Carried
    <2>2. Rest(w) = <<>> \o (<<>> \o <<>>)
      BY <2>1 DEF Rest
    <2>3. Rest(w) = <<>>
      BY <2>1, <2>2, ConcatAssoc
    <2>4. QED
      BY <2>1, <2>3, ConcatAssoc DEF Path
  <1>4. ASSUME NEW w \in Workers, Workers = {w} PROVE InOrder
    <2>1. /\ ToSet(Rest(w)) = {} /\ Path(w) = <<>> /\ ToSet(Path(w)) = {}
          /\ sent = <<>> /\ DOMAIN sent = {}
      BY <1>3, ToSetSmall DEF Init
    <2>2. Follows(Path(w), sent, evicted)
      BY <1>1, <2>1 DEF Follows
    <2>3. QED
      BY <1>1, <1>4, <2>1, <2>2, OrderIs
  <1>5. InOrder
    BY <1>4 DEF InOrder
  <1>6. QED
    BY <1>2, <1>5 DEF Order

\* With one worker no item overtakes another between the queue and the sinks,
\* under every policy, whatever DropOldest throws away or SyncFallback writes past
\* the queue, and whether or not the next item fits the batch.
THEOREM KeepsOrder == Spec => []InOrder
  <1>1. Init => Order
    BY InitOrder
  <1>2. IInv /\ IInv' /\ Order /\ [Next]_vars => Order'
    <2>1. SUFFICES ASSUME IInv, IInv', Order, [Next]_vars PROVE Order'
      OBVIOUS
    <2>2. TypeOK'
      BY <2>1 DEF IInv
    <2>3. QED
      BY <2>1, <2>2, TakenStep, InOrderStep DEF Order
  <1>3. Order => InOrder
    BY DEF Order
  <1>4. QED
    BY <1>1, <1>2, <1>3, Inductive, PTL DEF Spec
=============================================================================
