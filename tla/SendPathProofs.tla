--------------------------- MODULE SendPathProofs ---------------------------
(***************************************************************************)
(* Proofs about SendPath for any number of terminals and chunks and every  *)
(* width of the serial number.                                             *)
(*                                                                         *)
(* Three arguments: chunks move between the pool, the streams, the send    *)
(* lists and the leaked ones in seven ways, each of which keeps one owner  *)
(* for each (second section); a connection whose list is not empty has a   *)
(* send under way, a kick to come, or an error behind it; and the numbers  *)
(* on a terminal's list continue where the kernel has got to, as only io   *)
(* ever sends to terminals (last section).                                 *)
(***************************************************************************)
EXTENDS SendPath, SequenceTheorems, TLAPS

-----------------------------------------------------------------------------
(* Helpers                                                                 *)

\* The names of threads and streams, and what they are not.
LEMMA Names ==
    /\ "io" \in Threads /\ "timer" \in Threads
    /\ \A t \in Threads : t = "io" \/ t = "timer"
    /\ "resp" \in Slots /\ "fwd" \in Slots /\ "msg" \in Slots
    /\ \A f \in Slots : f \in {"resp", "fwd", "msg"}
    /\ Center \in Conns /\ None \notin Conns /\ None \notin Chunks /\ None \notin Threads
    /\ \A c \in Terminals : c \in Conns
  BY NamesAssumption DEF Threads, Slots, Conns

\* m_serialNum wraps around.
LEMMA NextNumber ==
    ASSUME NEW n \in 0 .. SerialMod - 1
    PROVE  (n + 1) % SerialMod \in 0 .. SerialMod - 1
  BY NamesAssumption

\* do_error leaves c closed and the thread at error(), or done.
LEMMA DoErrorEffect ==
    ASSUME TypeOK, NEW t \in Threads, NEW c \in Conns, DoError(t, c)
    PROVE  /\ valid' \in [Conns -> BOOLEAN]
           /\ ~valid'[c]
           /\ \A d \in Conns : valid'[d] => valid[d]
           /\ \A d \in Conns \ {c} : valid'[d] = valid[d]
           /\ pc' \in [Threads -> Places]
           /\ pc'[t] \in {"idle", "notice", "remove"}
           /\ \A u \in Threads \ {t} : pc'[u] = pc[u]
<1>1. CASE valid[c]
  <2>1. PICK l \in {"idle", "notice", "remove"} : pc' = [pc EXCEPT ![t] = l]
    BY <1>1 DEF DoError, Goto
  <2>2. valid' = [valid EXCEPT ![c] = FALSE]
    BY <1>1 DEF DoError
  <2> QED
    BY <2>1, <2>2 DEF TypeOK, Places
<1>2. CASE ~valid[c]
  <2>1. valid' = valid /\ pc' = [pc EXCEPT ![t] = "idle"]
    BY <1>2 DEF DoError, Goto
  <2> QED
    BY <1>2, <2>1 DEF TypeOK, Places
<1> QED
  BY <1>1, <1>2

\* trySend() posts a send just if there is none and the list is not empty.
LEMMA PostEffect ==
    ASSUME TypeOK, NEW c \in Conns, Post(c)
    PROVE  /\ sending' \in [Conns -> BOOLEAN]
           /\ op' \in [Conns -> {"none", "posted", "done", "failed"}]
           /\ \A d \in Conns \ {c} : sending'[d] = sending[d] /\ op'[d] = op[d]
           /\ sending[c] \/ queue[c] = <<>> => sending'[c] = sending[c] /\ op'[c] = op[c]
           /\ ~sending[c] /\ queue[c] # <<>> => sending'[c] /\ op'[c] = "posted"
<1>1. CASE sending[c] \/ queue[c] = <<>>
  BY <1>1 DEF TypeOK, Post
<1>2. CASE ~sending[c] /\ queue[c] # <<>>
  BY <1>2 DEF TypeOK, Post
<1> QED
  BY <1>1, <1>2

-----------------------------------------------------------------------------
(* The owners of chunks                                                    *)

\* Chunks that move between the pool and the streams of one thread stay with one
\* owner when none of them is lost or doubled there.
LEMMA StreamsMove ==
    ASSUME OneOwner, AllAccounted, NEW t \in Threads,
           UNCHANGED <<queue, leaked>>,
           \A u \in Threads \ {t} : slot'[u] = slot[u],
           Held(t)' \cup free' = Held(t) \cup free,
           Held(t)' \cap free' = {},
           \A f, g \in Slots : f # g /\ slot'[t][f] # None => slot'[t][f] # slot'[t][g]
    PROVE  OneOwner' /\ AllAccounted'
<1>1. \A u \in Threads \ {t} : Held(u)' = Held(u)
  BY DEF Held
<1>2. \A c \in Conns : Queued(c)' = Queued(c)
  BY DEF Queued
<1>3. /\ free \cap leaked = {} /\ Held(t) \cap leaked = {}
      /\ \A u \in Threads \ {t} : Held(u) \cap (Held(t) \cup free \cup leaked) = {}
      /\ \A c \in Conns : /\ Queued(c) \cap (Held(t) \cup free \cup leaked) = {}
                          /\ \A u \in Threads : Queued(c) \cap Held(u) = {}
  BY DEF OneOwner, Threads
<1>4. OneOwner'
  <2>1. \A u \in Threads : Held(u)' \cap (free' \cup leaked') = {}
    BY <1>1, <1>3
  <2>2. Held("io")' \cap Held("timer")' = {}
    BY <1>1, <1>3 DEF Threads
  <2>3. \A u \in Threads : \A f, g \in Slots :
           f # g /\ slot'[u][f] # None => slot'[u][f] # slot'[u][g]
    BY DEF OneOwner
  <2>4. \A c \in Conns : /\ Queued(c)' \cap (free' \cup leaked') = {}
                         /\ \A u \in Threads : Queued(c)' \cap Held(u)' = {}
    BY <1>1, <1>2, <1>3
  <2>5. \A c \in Conns :
          /\ \A d \in Conns \ {c} : Queued(c)' \cap Queued(d)' = {}
          /\ \A i, j \in 1 .. Len(queue'[c]) :
                i # j => queue'[c][i].chunk # queue'[c][j].chunk
    BY <1>2 DEF OneOwner
  <2>6. free' \cap leaked' = {}
    BY <1>3
  <2> QED
    BY <2>1, <2>2, <2>3, <2>4, <2>5, <2>6 DEF OneOwner
<1>5. AllAccounted'
  <2>1. SUFFICES ASSUME NEW k \in Chunks, k \notin free' \cup leaked',
                        \A c \in Conns : k \notin Queued(c)'
                 PROVE  \E u \in Threads : k \in Held(u)'
    BY DEF AllAccounted
  <2>2. k \in free \/ \E u \in Threads : k \in Held(u)
    BY <1>2, <2>1 DEF AllAccounted
  <2> QED
    BY <1>1, <2>1, <2>2
<1> QED
  BY <1>4, <1>5

\* A chunk of the pool becomes that of an empty stream.
LEMMA TakeOwners ==
    ASSUME TypeOK, OneOwner, AllAccounted, NEW t \in Threads, NEW f \in Slots,
           Take(t, f), slot[t][f] = None, UNCHANGED <<queue, leaked>>
    PROVE  OneOwner' /\ AllAccounted'
<1>1. PICK k \in free : free' = free \ {k} /\ slot' = [slot EXCEPT ![t][f] = k]
  BY DEF Take
<1>2. k \in Chunks /\ k # None
  BY NamesAssumption DEF TypeOK
<1>3. /\ slot'[t][f] = k
      /\ \A g \in Slots \ {f} : slot'[t][g] = slot[t][g]
      /\ \A u \in Threads \ {t} : slot'[u] = slot[u]
  BY <1>1 DEF TypeOK
<1>4. Held(t)' = Held(t) \cup {k}
  BY <1>2, <1>3 DEF Held
<1>5. k \notin Held(t)
  BY DEF OneOwner
<1>6. \A g \in Slots : slot[t][g] # k
  BY <1>2, <1>5 DEF Held
<1>7. \A g, h \in Slots : g # h /\ slot'[t][g] # None => slot'[t][g] # slot'[t][h]
  BY <1>3, <1>6 DEF OneOwner
<1>8. Held(t) \cap free = {}
  BY DEF OneOwner
<1> QED
  BY <1>1, <1>3, <1>4, <1>5, <1>7, <1>8, StreamsMove

\* The chunk of a stream goes back to the pool.
LEMMA ReturnOwners ==
    ASSUME TypeOK, OneOwner, AllAccounted, NEW t \in Threads, NEW f \in Slots,
           Return(t, f), UNCHANGED <<queue, leaked>>
    PROVE  OneOwner' /\ AllAccounted'
<1>1. /\ free' = free \cup ({slot[t][f]} \ {None})
      /\ slot' = [slot EXCEPT ![t][f] = None]
  BY DEF Return
<1>2. /\ slot'[t][f] = None
      /\ \A g \in Slots \ {f} : slot'[t][g] = slot[t][g]
      /\ \A u \in Threads \ {t} : slot'[u] = slot[u]
  BY <1>1 DEF TypeOK
<1>3. \A g \in Slots \ {f} : slot[t][f] # None => slot[t][g] # slot[t][f]
  BY DEF OneOwner
<1>4. Held(t)' = Held(t) \ {slot[t][f]}
  BY <1>2, <1>3 DEF Held
<1>5. slot[t][f] # None => slot[t][f] \in Held(t)
  BY DEF Held
<1>9. None \notin Held(t)
  BY DEF Held
<1>6. Held(t) \cap free = {}
  BY DEF OneOwner
<1>7. \A g, h \in Slots : g # h /\ slot'[t][g] # None => slot'[t][g] # slot'[t][h]
  BY <1>2 DEF OneOwner
<1>8. Held(t)' \cup free' = Held(t) \cup free /\ Held(t)' \cap free' = {}
  BY <1>1, <1>4, <1>5, <1>9, <1>6
<1> QED
  BY <1>2, <1>7, <1>8, StreamsMove

\* The chunks of all streams of a thread go back to the pool.
LEMMA UnwindOwners ==
    ASSUME TypeOK, OneOwner, AllAccounted, NEW t \in Threads,
           Unwind(t), UNCHANGED <<queue, leaked>>
    PROVE  OneOwner' /\ AllAccounted'
<1>1. free' = free \cup Held(t) /\ slot' = [slot EXCEPT ![t] = NoSlots]
  BY DEF Unwind
<1>2. /\ \A f \in Slots : slot'[t][f] = None
      /\ \A u \in Threads \ {t} : slot'[u] = slot[u]
  BY <1>1 DEF TypeOK, NoSlots
<1>3. Held(t)' = {}
  BY <1>2 DEF Held
<1> QED
  BY <1>1, <1>2, <1>3, StreamsMove

\* The response becomes the message that is sent.
LEMMA ReplyOwners ==
    ASSUME TypeOK, OneOwner, AllAccounted,
           slot' = [slot EXCEPT !["io"] = [NoSlots EXCEPT !["msg"] = slot["io"]["resp"]]],
           slot["io"]["msg"] = None, slot["io"]["fwd"] = None,
           UNCHANGED <<free, queue, leaked>>
    PROVE  OneOwner' /\ AllAccounted'
<1>1. /\ "io" \in Threads
      /\ slot'["io"]["msg"] = slot["io"]["resp"]
      /\ slot'["io"]["resp"] = None /\ slot'["io"]["fwd"] = None
      /\ \A u \in Threads \ {"io"} : slot'[u] = slot[u]
  BY Names DEF TypeOK, NoSlots, Threads
<1>2. Held("io")' = Held("io")
  BY <1>1, Names DEF Held
<1>3. Held("io") \cap free = {}
  BY <1>1 DEF OneOwner
<1>4. \A f, g \in Slots : f # g /\ slot'["io"][f] # None => slot'["io"][f] # slot'["io"][g]
  BY <1>1, Names
<1> QED
  BY <1>1, <1>2, <1>3, <1>4, StreamsMove

\* Where the owners are untouched.
LEMMA SameOwners ==
    ASSUME OneOwner, AllAccounted, UNCHANGED <<free, slot, queue, leaked>>
    PROVE  OneOwner' /\ AllAccounted'
<1>1. /\ \A c \in Conns : Queued(c)' = Queued(c)
      /\ \A t \in Threads : Held(t)' = Held(t)
  BY DEF Queued, Held
<1>2. OneOwner'
  <2>1. /\ \A t \in Threads : Held(t)' \cap (free' \cup leaked') = {}
        /\ \A t \in Threads : \A c \in Conns : Queued(c)' \cap Held(t)' = {}
        /\ Held("io")' \cap Held("timer")' = {}
    BY <1>1 DEF OneOwner, Threads
  <2>2. \A c \in Conns :
          /\ Queued(c)' \cap (free' \cup leaked') = {}
          /\ \A d \in Conns \ {c} : Queued(c)' \cap Queued(d)' = {}
          /\ \A i, j \in 1 .. Len(queue'[c]) :
                i # j => queue'[c][i].chunk # queue'[c][j].chunk
    BY <1>1 DEF OneOwner
  <2>3. \A t \in Threads : \A f, g \in Slots :
           f # g /\ slot'[t][f] # None => slot'[t][f] # slot'[t][g]
    BY DEF OneOwner
  <2>4. free' \cap leaked' = {}
    BY DEF OneOwner
  <2> QED
    BY <2>1, <2>2, <2>3, <2>4 DEF OneOwner
<1>3. AllAccounted'
  BY <1>1 DEF AllAccounted
<1> QED
  BY <1>2, <1>3

\* The destroyed list's chunks are leaked.
LEMMA DestroyOwners ==
    ASSUME TypeOK, OneOwner, AllAccounted, NEW c \in Conns,
           leaked' = leaked \cup Queued(c), queue' = [queue EXCEPT ![c] = <<>>],
           UNCHANGED <<free, slot>>
    PROVE  OneOwner' /\ AllAccounted'
<1>1. /\ queue'[c] = <<>>
      /\ \A d \in Conns \ {c} : queue'[d] = queue[d]
  BY DEF TypeOK
<1>2. /\ Queued(c)' = {}
      /\ \A d \in Conns \ {c} : Queued(d)' = Queued(d)
      /\ \A t \in Threads : Held(t)' = Held(t)
  BY <1>1 DEF Queued, Held
<1>3. OneOwner'
  <2>1. /\ \A t \in Threads : Held(t)' \cap (free' \cup leaked') = {}
        /\ \A t \in Threads : \A d \in Conns : Queued(d)' \cap Held(t)' = {}
        /\ Held("io")' \cap Held("timer")' = {}
    BY <1>2 DEF OneOwner, Threads
  <2>2. \A d \in Conns :
          /\ Queued(d)' \cap (free' \cup leaked') = {}
          /\ \A e \in Conns \ {d} : Queued(d)' \cap Queued(e)' = {}
    BY <1>2 DEF OneOwner
  <2>3. \A d \in Conns : \A i, j \in 1 .. Len(queue'[d]) :
           i # j => queue'[d][i].chunk # queue'[d][j].chunk
    BY <1>1 DEF OneOwner
  <2>4. \A t \in Threads : \A f, g \in Slots :
           f # g /\ slot'[t][f] # None => slot'[t][f] # slot'[t][g]
    BY DEF OneOwner
  <2>5. free' \cap leaked' = {}
    BY DEF OneOwner
  <2> QED
    BY <2>1, <2>2, <2>3, <2>4, <2>5 DEF OneOwner
<1>4. AllAccounted'
  BY <1>2 DEF AllAccounted
<1> QED
  BY <1>3, <1>4

\* The chunk of the stream "msg" becomes the last one of a send list.
LEMMA PushOwners ==
    ASSUME TypeOK, OneOwner, AllAccounted, NEW t \in Threads, NEW c \in Conns,
           NEW m \in Messages, m.chunk = slot[t]["msg"], m.chunk # None,
           queue' = [queue EXCEPT ![c] = Append(queue[c], m)],
           slot' = [slot EXCEPT ![t]["msg"] = None],
           UNCHANGED <<free, leaked>>
    PROVE  OneOwner' /\ AllAccounted'
<1>1. /\ queue'[c] = Append(queue[c], m) /\ queue[c] \in Seq(Messages)
      /\ \A d \in Conns \ {c} : queue'[d] = queue[d]
  BY DEF TypeOK
<1>2. /\ Len(queue'[c]) = Len(queue[c]) + 1 /\ Len(queue[c]) \in Nat
      /\ \A i \in 1 .. Len(queue[c]) : queue'[c][i] = queue[c][i]
      /\ queue'[c][Len(queue[c]) + 1] = m
  BY <1>1
<1>3. Queued(c)' = Queued(c) \cup {m.chunk}
  BY <1>2 DEF Queued
<1>4. \A d \in Conns \ {c} : Queued(d)' = Queued(d)
  BY <1>1 DEF Queued
<1>5. /\ slot'[t]["msg"] = None
      /\ \A f \in Slots \ {"msg"} : slot'[t][f] = slot[t][f]
      /\ \A u \in Threads \ {t} : slot'[u] = slot[u]
  BY Names DEF TypeOK
<1>6. Held(t)' = Held(t) \ {m.chunk} /\ m.chunk \in Held(t)
  <2>1. \A f \in Slots \ {"msg"} : slot[t][f] # m.chunk
    BY Names DEF OneOwner
  <2> QED
    BY <1>5, <2>1, Names DEF Held
<1>7. \A u \in Threads \ {t} : Held(u)' = Held(u)
  BY <1>5 DEF Held
<1>8. /\ m.chunk \notin free \cup leaked
      /\ \A u \in Threads \ {t} : m.chunk \notin Held(u)
      /\ \A d \in Conns : m.chunk \notin Queued(d)
  BY <1>6 DEF OneOwner, Threads
<1>9. OneOwner'
  <2>1. /\ \A u \in Threads : Held(u)' \cap (free' \cup leaked') = {}
        /\ Held("io")' \cap Held("timer")' = {}
    BY <1>6, <1>7 DEF OneOwner, Threads
  <2>2. \A d \in Conns :
          /\ Queued(d)' \cap (free' \cup leaked') = {}
          /\ \A u \in Threads : Queued(d)' \cap Held(u)' = {}
          /\ \A e \in Conns \ {d} : Queued(d)' \cap Queued(e)' = {}
    BY <1>3, <1>4, <1>6, <1>7, <1>8 DEF OneOwner
  <2>3. \A d \in Conns : \A i, j \in 1 .. Len(queue'[d]) :
           i # j => queue'[d][i].chunk # queue'[d][j].chunk
    <3>1. \A i \in 1 .. Len(queue[c]) : queue[c][i].chunk # m.chunk
      BY <1>8 DEF Queued
    <3>2. \A i, j \in 1 .. Len(queue'[c]) :
             i # j => queue'[c][i].chunk # queue'[c][j].chunk
      BY <1>2, <3>1 DEF OneOwner
    <3> QED
      BY <1>1, <3>2 DEF OneOwner
  <2>4. \A u \in Threads : \A f, g \in Slots :
           f # g /\ slot'[u][f] # None => slot'[u][f] # slot'[u][g]
    BY <1>5 DEF OneOwner
  <2>5. free' \cap leaked' = {}
    BY DEF OneOwner
  <2> QED
    BY <2>1, <2>2, <2>3, <2>4, <2>5 DEF OneOwner
<1>10. AllAccounted'
  BY <1>3, <1>4, <1>6, <1>7 DEF AllAccounted
<1> QED
  BY <1>9, <1>10

\* The chunk of the message that was sent goes back to the pool.
LEMMA PopOwners ==
    ASSUME TypeOK, OneOwner, AllAccounted, NEW c \in Conns, queue[c] # <<>>,
           queue' = [queue EXCEPT ![c] = Tail(queue[c])],
           free' = free \cup {Head(queue[c]).chunk},
           UNCHANGED <<slot, leaked>>
    PROVE  OneOwner' /\ AllAccounted'
<1> DEFINE k == Head(queue[c]).chunk
           n == Len(queue[c])
<1>1. /\ queue'[c] = Tail(queue[c]) /\ queue[c] \in Seq(Messages)
      /\ \A d \in Conns \ {c} : queue'[d] = queue[d]
  BY DEF TypeOK
<1>2. /\ n \in Nat /\ 1 \in 1 .. n /\ k = queue[c][1].chunk
      /\ Len(queue'[c]) = n - 1
      /\ \A i \in 1 .. n - 1 : queue'[c][i] = queue[c][i + 1]
  <2>1. n \in Nat \ {0}
    BY <1>1, EmptySeq
  <2>2. 1 \in 1 .. n
    BY <2>1
  <2>3. Head(queue[c]) = queue[c][1]
    BY <1>1
  <2>4. /\ Len(queue'[c]) = n - 1
        /\ \A i \in 1 .. n - 1 : queue'[c][i] = queue[c][i + 1]
    <3>1. /\ Len(Tail(queue[c])) = Len(queue[c]) - 1
          /\ \A i \in 1 .. Len(Tail(queue[c])) : Tail(queue[c])[i] = queue[c][i + 1]
      BY <1>1, HeadTailProperties
    <3> QED
      BY <1>1, <3>1
  <2> QED
    BY <2>1, <2>2, <2>3, <2>4
<1> HIDE DEF k, n
<1>3. \A i, j \in 1 .. n : i # j => queue[c][i].chunk # queue[c][j].chunk
  BY DEF OneOwner, n
<1>4. k \in Queued(c)
  BY <1>2 DEF Queued, n
<1>5. Queued(c)' = Queued(c) \ {k}
  <2>1. Queued(c)' \subseteq Queued(c) \ {k}
    <3>1. SUFFICES ASSUME NEW i \in 1 .. n - 1
                   PROVE  queue[c][i + 1].chunk \in Queued(c) \ {k}
      BY <1>2 DEF Queued
    <3>2. i + 1 \in 1 .. n /\ i + 1 # 1
      BY <1>2
    <3> QED
      BY <1>2, <1>3, <3>2 DEF Queued, n
  <2>2. Queued(c) \ {k} \subseteq Queued(c)'
    <3>1. SUFFICES ASSUME NEW i \in 1 .. n, queue[c][i].chunk # k
                   PROVE  queue[c][i].chunk \in Queued(c)'
      BY DEF Queued, n
    <3>2. i - 1 \in 1 .. n - 1 /\ (i - 1) + 1 = i
      BY <1>2, <3>1
    <3>3. queue'[c][i - 1] = queue[c][i]
      BY <1>2, <3>2
    <3> QED
      BY <1>2, <3>2, <3>3 DEF Queued
  <2> QED
    BY <2>1, <2>2
<1>6. /\ \A d \in Conns \ {c} : Queued(d)' = Queued(d)
      /\ \A u \in Threads : Held(u)' = Held(u)
  BY <1>1 DEF Queued, Held
<1>7. free' = free \cup {k}
  BY DEF k
<1>8. OneOwner'
  <2>1. /\ \A u \in Threads : Held(u)' \cap (free' \cup leaked') = {}
        /\ Held("io")' \cap Held("timer")' = {}
    BY <1>4, <1>6, <1>7 DEF OneOwner, Threads
  <2>2. \A d \in Conns :
          /\ Queued(d)' \cap (free' \cup leaked') = {}
          /\ \A u \in Threads : Queued(d)' \cap Held(u)' = {}
          /\ \A e \in Conns \ {d} : Queued(d)' \cap Queued(e)' = {}
    BY <1>4, <1>5, <1>6, <1>7 DEF OneOwner
  <2>3. \A d \in Conns : \A i, j \in 1 .. Len(queue'[d]) :
           i # j => queue'[d][i].chunk # queue'[d][j].chunk
    <3>1. \A i, j \in 1 .. n - 1 : i # j => queue'[c][i].chunk # queue'[c][j].chunk
      <4>1. \A i \in 1 .. n - 1 : i + 1 \in 1 .. n
        BY <1>2
      <4> QED
        BY <1>2, <1>3, <4>1
    <3> QED
      BY <1>1, <1>2, <3>1 DEF OneOwner
  <2>4. \A u \in Threads : \A f, g \in Slots :
           f # g /\ slot'[u][f] # None => slot'[u][f] # slot'[u][g]
    BY DEF OneOwner
  <2>5. free' \cap leaked' = {}
    BY <1>4, <1>7 DEF OneOwner
  <2> QED
    BY <2>1, <2>2, <2>3, <2>4, <2>5 DEF OneOwner
<1>9. AllAccounted'
  BY <1>5, <1>6, <1>7 DEF AllAccounted
<1> QED
  BY <1>8, <1>9

-----------------------------------------------------------------------------
(* Errors                                                                  *)

\* A thread that had nothing to do begins error(): its stack is still empty.
LEMMA DoErrorStack ==
    ASSUME IInv, NEW t \in Threads, NEW c \in Conns, pc[t] = "idle", DoError(t, c),
           UNCHANGED <<slot, job, dest>>
    PROVE  StackOK'
<1>1. /\ pc'[t] \in {"idle", "notice", "remove"}
      /\ \A u \in Threads \ {t} : pc'[u] = pc[u]
  BY DoErrorEffect DEF IInv
<1>2. pc'["timer"] \notin {"handle", "reply"}
  BY <1>1, Names DEF IInv, StackOK
<1>3. OnStack(t)'
  BY <1>1 DEF IInv, StackOK, OnStack, Sending
<1>4. \A u \in Threads \ {t} : OnStack(u)'
  BY <1>1 DEF IInv, StackOK, OnStack
<1> QED
  BY <1>2, <1>3, <1>4 DEF IInv, StackOK

\* Closing a connection, and ending its send, forgets no message of a valid one.
LEMMA DoErrorConns ==
    ASSUME IInv, NEW t \in Threads, NEW c \in Conns, pc[t] = "idle", DoError(t, c),
           op' = op \/ op' = [op EXCEPT ![c] = "none"],
           UNCHANGED <<queue, sending, alive, inMap, job, dest, aborted>>
    PROVE  ReachableIsAlive' /\ SendingOK' /\ FrontInFlight' /\ NoLostWakeup'
<1>1. /\ ~valid'[c]
      /\ \A d \in Conns : valid'[d] => valid[d]
      /\ \A u \in Threads : pc[u] = "kick" => pc'[u] = "kick"
  BY DoErrorEffect DEF IInv
<1>2. \A d \in Conns : op'[d] = op[d] \/ (op'[d] = "none" /\ d = c)
  BY DEF IInv, TypeOK
<1>3. ReachableIsAlive'
  BY <1>1, <1>2 DEF IInv, ReachableIsAlive
<1>4. SendingOK' /\ FrontInFlight'
  BY <1>1, <1>2 DEF IInv, SendingOK, FrontInFlight
<1>5. NoLostWakeup'
  BY <1>1, <1>2 DEF IInv, NoLostWakeup
<1> QED
  BY <1>3, <1>4, <1>5

\* An exception out of a handler: the stack of io is empty, its connection closed.
LEMMA ThrowEffect ==
    ASSUME IInv, NEW t \in Threads, job[t] # None, Throw(t)
    PROVE  /\ t = "io" /\ job[t] \in Conns
           /\ free' \subseteq Chunks
           /\ slot' \in [Threads -> [Slots -> Chunks \cup {None}]]
           /\ \A f \in Slots : slot'["io"][f] = None
           /\ slot'["timer"] = slot["timer"]
           /\ job' \in [Threads -> Conns \cup {None}]
           /\ job'["io"] = None /\ job'["timer"] = job["timer"]
           /\ valid' \in [Conns -> BOOLEAN]
           /\ \A c \in Conns : valid'[c] => valid[c]
           /\ pc' \in [Threads -> Places]
           /\ pc'["io"] \in {"idle", "notice", "remove"}
           /\ pc'["timer"] = pc["timer"]
<1>1. t = "io" /\ job[t] \in Conns /\ TypeOK
  BY Names DEF IInv, TypeOK, StackOK
<1>2. /\ valid' \in [Conns -> BOOLEAN]
      /\ \A c \in Conns : valid'[c] => valid[c]
      /\ pc' \in [Threads -> Places]
      /\ pc'["io"] \in {"idle", "notice", "remove"}
      /\ pc'["timer"] = pc["timer"]
  BY <1>1, Names, DoErrorEffect DEF Throw
<1>3. /\ job' \in [Threads -> Conns \cup {None}]
      /\ job'["io"] = None /\ job'["timer"] = job["timer"]
  BY <1>1, Names DEF Throw, TypeOK
<1>4. free' \subseteq Chunks
  BY <1>1, Names DEF TypeOK, Throw, Unwind, Held
<1>5. /\ slot' = [slot EXCEPT ![t] = NoSlots]
      /\ NoSlots \in [Slots -> Chunks \cup {None}]
      /\ \A f \in Slots : NoSlots[f] = None
  BY DEF Throw, Unwind, NoSlots
<1>6. /\ slot' \in [Threads -> [Slots -> Chunks \cup {None}]]
      /\ \A f \in Slots : slot'["io"][f] = None
      /\ slot'["timer"] = slot["timer"]
  BY <1>1, <1>5, Names DEF TypeOK
<1> QED
  BY <1>1, <1>2, <1>3, <1>4, <1>6

\* ... which keeps the invariant, wherever the exception comes from.
LEMMA ThrowKeeps ==
    ASSUME IInv, NEW t \in Threads, job[t] # None, Throw(t),
           UNCHANGED <<queue, sending, op, alive, sent, inMap, num, leaked, aborted>>,
           serial' \in [Conns -> 0 .. SerialMod - 1],
           mapLock' \in Threads \cup {None},
           dest' \in [Threads -> Conns \cup {None}],
           dest'["io"] = None, dest'["timer"] = dest["timer"], pc["io"] # "kick"
    PROVE  IInv'
<1>1. TypeOK'
  BY ThrowEffect DEF IInv, TypeOK
<1>2. StackOK'
  <2>1. pc'["timer"] \notin {"handle", "reply"} /\ job'["timer"] = None
    BY ThrowEffect DEF IInv, StackOK
  <2>2. OnStack("io")'
    BY ThrowEffect, Names DEF OnStack, Sending
  <2>3. OnStack("timer")'
    BY ThrowEffect, Names DEF IInv, StackOK, OnStack
  <2> QED
    BY <2>1, <2>2, <2>3, Names DEF StackOK
<1>3. ReachableIsAlive'
  BY ThrowEffect, Names DEF IInv, ReachableIsAlive
<1>4. SendingOK' /\ FrontInFlight'
  BY ThrowEffect DEF IInv, SendingOK, FrontInFlight
<1>5. NoLostWakeup'
  <2>1. \A c \in Conns : valid'[c] => valid[c]
    BY ThrowEffect
  <2>2. \A u \in Threads : pc[u] = "kick" => pc'[u] = "kick" /\ dest'[u] = dest[u]
    BY ThrowEffect, Names
  <2> QED
    BY <2>1, <2>2 DEF IInv, NoLostWakeup
<1>6. OneOwner' /\ AllAccounted'
  BY UnwindOwners DEF IInv, Throw
<1> QED
  BY <1>1, <1>2, <1>3, <1>4, <1>5, <1>6 DEF IInv

-----------------------------------------------------------------------------
(* The invariant holds at first                                            *)

\* Every chunk is in the pool and nobody is anywhere.
LEMMA InitInv ==
    ASSUME Init
    PROVE  IInv
<1>1. \A t \in Threads : Held(t) = {}
  BY DEF Init, Held, NoSlots
<1>2. \A c \in Conns : Queued(c) = {}
  BY DEF Init, Queued
<1>3. TypeOK
  <2>1. 0 \in 0 .. SerialMod - 1 /\ <<>> \in Seq(Messages)
    BY NamesAssumption
  <2>2. NoSlots \in [Slots -> Chunks \cup {None}] /\ "idle" \in Places
    BY DEF NoSlots, Places
  <2> QED
    BY <2>1, <2>2 DEF Init, TypeOK
<1>4. StackOK
  BY Names DEF Init, StackOK, OnStack, NoSlots, Sending
<1>5. ReachableIsAlive /\ SendingOK
  BY Names DEF Init, ReachableIsAlive, SendingOK
<1>6. FrontInFlight /\ NoLostWakeup
  BY DEF Init, FrontInFlight, NoLostWakeup
<1>7. OneOwner /\ AllAccounted
  BY <1>1, <1>2, Names DEF Init, OneOwner, AllAccounted, NoSlots
<1> QED
  BY <1>3, <1>4, <1>5, <1>6, <1>7 DEF IInv

-----------------------------------------------------------------------------
(* Every step keeps it                                                     *)

\* The chunk of the response goes from the pool to its stream.
LEMMA BeginHandleKeeps ==
    ASSUME IInv, NEW c \in Conns, BeginHandle(c)
    PROVE  IInv'
<1>1. TypeOK'
  BY Names DEF IInv, TypeOK, BeginHandle, Goto, Take, connVars, Places
<1>2. StackOK'
  BY Names DEF IInv, StackOK, OnStack, TypeOK, BeginHandle, Goto, Take, Idle,
     Sending
<1>3. ReachableIsAlive'
  BY DEF IInv, ReachableIsAlive, BeginHandle, connVars
<1>4. SendingOK' /\ FrontInFlight'
  BY DEF IInv, SendingOK, FrontInFlight, BeginHandle, connVars
<1>5. NoLostWakeup'
  BY DEF IInv, NoLostWakeup, BeginHandle, Goto, Idle, connVars
<1>6. OneOwner' /\ AllAccounted'
  <2>1. slot["io"]["resp"] = None
    BY Names DEF IInv, StackOK, OnStack, BeginHandle, Idle, At, Sending
  <2> QED
    BY <2>1, Names, TakeOwners DEF IInv, BeginHandle, connVars
<1> QED
  BY <1>1, <1>2, <1>3, <1>4, <1>5, <1>6 DEF IInv

\* Nothing but m_valid and the place of io changes.
LEMMA BeginFailsKeeps ==
    ASSUME IInv, NEW c \in Conns, BeginFails(c)
    PROVE  IInv'
<1>1. TypeOK'
  BY DoErrorEffect, Names DEF IInv, TypeOK, StackOK, OnStack, BeginFails
<1>2. StackOK'
  BY Names, DoErrorStack DEF BeginFails, Idle
<1>3. ReachableIsAlive' /\ SendingOK' /\ FrontInFlight' /\ NoLostWakeup'
  BY Names, DoErrorConns DEF BeginFails, Idle
<1>4. OneOwner' /\ AllAccounted'
  BY SameOwners DEF IInv, BeginFails, connVars
<1> QED
  BY <1>1, <1>2, <1>3, <1>4 DEF IInv

\* The chunk of the stream to the center goes from the pool to it.
LEMMA HandleReportKeeps ==
    ASSUME IInv, HandleReport
    PROVE  IInv'
<1>1. TypeOK'
  BY Names DEF IInv, TypeOK, HandleReport, Goto, Take, connVars, Places
<1>2. StackOK'
  BY DEF IInv, StackOK, OnStack, TypeOK, HandleReport, Goto, Take, At, Sending
<1>3. ReachableIsAlive'
  BY DEF IInv, ReachableIsAlive, HandleReport, connVars
<1>4. SendingOK' /\ FrontInFlight'
  BY DEF IInv, SendingOK, FrontInFlight, HandleReport, connVars
<1>5. NoLostWakeup'
  BY DEF IInv, NoLostWakeup, HandleReport, Goto, At, connVars
<1>6. OneOwner' /\ AllAccounted'
  <2>1. slot["io"]["fwd"] = None
    BY Names DEF IInv, StackOK, OnStack, HandleReport, Idle, At, Sending
  <2> QED
    BY <2>1, Names, TakeOwners DEF IInv, HandleReport, connVars
<1> QED
  BY <1>1, <1>2, <1>3, <1>4, <1>5, <1>6 DEF IInv

\* The terminal that is sent to is alive, the map held it.
LEMMA HandleForwardKeeps ==
    ASSUME IInv, NEW c \in Terminals, HandleForward(c)
    PROVE  IInv'
<1>1. TypeOK'
  BY Names DEF IInv, TypeOK, HandleForward, Goto, Take, connVars, Places
<1>2. StackOK'
  BY Names DEF IInv, StackOK, OnStack, TypeOK, HandleForward, Goto, Take, Sending
<1>3. ReachableIsAlive'
  BY DEF IInv, ReachableIsAlive, HandleForward, connVars
<1>4. SendingOK' /\ FrontInFlight'
  BY DEF IInv, SendingOK, FrontInFlight, HandleForward, connVars
<1>5. NoLostWakeup'
  BY DEF IInv, NoLostWakeup, HandleForward, Goto, At, connVars
<1>6. OneOwner' /\ AllAccounted'
  <2>1. slot["io"]["msg"] = None
    BY Names DEF IInv, StackOK, OnStack, HandleForward, Idle, At, Sending
  <2> QED
    BY <2>1, Names, TakeOwners DEF IInv, HandleForward, connVars
<1> QED
  BY <1>1, <1>2, <1>3, <1>4, <1>5, <1>6 DEF IInv

\* Only the place of io changes.
LEMMA HandleLocallyKeeps ==
    ASSUME IInv, HandleLocally
    PROVE  IInv'
<1>1. TypeOK'
  BY Names DEF IInv, TypeOK, HandleLocally, Goto, connVars, Places
<1>2. StackOK'
  BY DEF IInv, StackOK, OnStack, HandleLocally, Goto, At, Sending
<1>3. ReachableIsAlive'
  BY DEF IInv, ReachableIsAlive, HandleLocally, connVars
<1>4. SendingOK' /\ FrontInFlight'
  BY DEF IInv, SendingOK, FrontInFlight, HandleLocally, connVars
<1>5. NoLostWakeup'
  BY DEF IInv, NoLostWakeup, HandleLocally, Goto, At, connVars
<1>6. OneOwner' /\ AllAccounted'
  BY SameOwners DEF IInv, HandleLocally, connVars
<1> QED
  BY <1>1, <1>2, <1>3, <1>4, <1>5, <1>6 DEF IInv

\* The exception gives back every chunk on the stack of io.
LEMMA HandleFailsKeeps ==
    ASSUME IInv, HandleFails
    PROVE  IInv'
<1>1. /\ pc["io"] = "handle" /\ Throw("io")
      /\ UNCHANGED <<queue, sending, op, serial, alive, inMap, mapLock, dest, num, sent,
                     leaked, aborted>>
  BY DEF HandleFails, At
<1>2. job["io"] # None /\ dest["io"] = None
  BY <1>1, Names DEF IInv, StackOK, OnStack, Sending
<1> QED
  BY <1>1, <1>2, Names, ThrowKeeps DEF IInv, TypeOK

\* The exception gives back every chunk on the stack of io.
LEMMA HandleOverflowsKeeps ==
    ASSUME IInv, HandleOverflows
    PROVE  IInv'
<1>1. /\ pc["io"] = "forward" /\ job["io"] # None /\ Throw("io")
      /\ UNCHANGED <<queue, sending, op, serial, alive, inMap, mapLock, dest, num, sent,
                     leaked, aborted>>
  BY DEF HandleOverflows, At
<1>2. dest["io"] = None
  BY <1>1, Names DEF IInv, StackOK, OnStack, Sending
<1> QED
  BY <1>1, <1>2, Names, ThrowKeeps DEF IInv, TypeOK

\* The chunk of the response becomes that of the message.
LEMMA ReplyKeeps ==
    ASSUME IInv, Reply
    PROVE  IInv'
<1>1. TypeOK'
  BY Names DEF IInv, TypeOK, Reply, Goto, NoSlots, connVars, Places
<1>2. StackOK'
  BY Names DEF IInv, StackOK, OnStack, TypeOK, Reply, Goto, NoSlots, At, Sending
<1>3. ReachableIsAlive'
  BY DEF IInv, ReachableIsAlive, Reply, connVars
<1>4. SendingOK' /\ FrontInFlight'
  BY DEF IInv, SendingOK, FrontInFlight, Reply, connVars
<1>5. NoLostWakeup'
  BY DEF IInv, NoLostWakeup, Reply, Goto, At, connVars
<1>6. OneOwner' /\ AllAccounted'
  <2>1. slot["io"]["msg"] = None /\ slot["io"]["fwd"] = None
    BY Names DEF IInv, StackOK, OnStack, Reply, At, Sending
  <2> QED
    BY <2>1, ReplyOwners DEF IInv, Reply, connVars
<1> QED
  BY <1>1, <1>2, <1>3, <1>4, <1>5, <1>6 DEF IInv

\* The chunk of the response goes back.
LEMMA NoReplyKeeps ==
    ASSUME IInv, NoReply
    PROVE  IInv'
<1>1. TypeOK'
  BY Names DEF IInv, TypeOK, NoReply, Goto, Return, connVars, Places
<1>2. StackOK'
  BY Names DEF IInv, StackOK, OnStack, TypeOK, NoReply, Goto, Return, At, Sending
<1>3. ReachableIsAlive'
  BY DEF IInv, ReachableIsAlive, NoReply, connVars
<1>4. SendingOK' /\ FrontInFlight'
  BY DEF IInv, SendingOK, FrontInFlight, NoReply, connVars
<1>5. NoLostWakeup'
  BY DEF IInv, NoLostWakeup, NoReply, Goto, At, connVars
<1>6. OneOwner' /\ AllAccounted'
  BY Names, ReturnOwners DEF IInv, NoReply, connVars
<1> QED
  BY <1>1, <1>2, <1>3, <1>4, <1>5, <1>6 DEF IInv

\* The chunk of the notice goes from the pool to its stream.
LEMMA NoticeKeeps ==
    ASSUME IInv, NEW t \in Threads, Notice(t)
    PROVE  IInv'
<1>1. TypeOK'
  BY Names DEF IInv, TypeOK, Notice, Goto, Take, connVars, Places
<1>2. StackOK'
  BY DEF IInv, StackOK, OnStack, TypeOK, Notice, Goto, Take, At, Sending
<1>3. ReachableIsAlive'
  BY DEF IInv, ReachableIsAlive, Notice, connVars
<1>4. SendingOK' /\ FrontInFlight'
  BY DEF IInv, SendingOK, FrontInFlight, Notice, connVars
<1>5. NoLostWakeup'
  BY DEF IInv, NoLostWakeup, Notice, Goto, At, connVars
<1>6. OneOwner' /\ AllAccounted'
  <2>1. slot[t]["fwd"] = None
    BY Names DEF IInv, StackOK, OnStack, Notice, Idle, At, Sending
  <2> QED
    BY <2>1, Names, TakeOwners DEF IInv, Notice, connVars
<1> QED
  BY <1>1, <1>2, <1>3, <1>4, <1>5, <1>6 DEF IInv

\* The process ends as it is.
LEMMA NoticeFailsKeeps ==
    ASSUME IInv, NEW t \in Threads, NoticeFails(t)
    PROVE  IInv'
<1>1. TypeOK'
  BY DEF IInv, TypeOK, NoticeFails, connVars
<1>2. StackOK'
  BY DEF IInv, StackOK, OnStack, NoticeFails
<1>3. ReachableIsAlive'
  BY DEF IInv, ReachableIsAlive, NoticeFails, connVars
<1>4. SendingOK' /\ FrontInFlight'
  BY DEF IInv, SendingOK, FrontInFlight, NoticeFails, connVars
<1>5. NoLostWakeup'
  BY DEF IInv, NoLostWakeup, NoticeFails
<1>6. OneOwner' /\ AllAccounted'
  BY SameOwners DEF IInv, NoticeFails, connVars
<1> QED
  BY <1>1, <1>2, <1>3, <1>4, <1>5, <1>6 DEF IInv

\* The copy takes a chunk; the center in the map is alive.
LEMMA CopyKeeps ==
    ASSUME IInv, NEW t \in Threads, Copy(t)
    PROVE  IInv'
<1>1. TypeOK'
  BY Names DEF IInv, TypeOK, Copy, Goto, Take, connVars, Places
<1>2. StackOK'
  BY Names DEF IInv, StackOK, OnStack, TypeOK, Copy, Goto, Take, Sending
<1>3. ReachableIsAlive'
  BY DEF IInv, ReachableIsAlive, Copy, connVars
<1>4. SendingOK' /\ FrontInFlight'
  BY DEF IInv, SendingOK, FrontInFlight, Copy, connVars
<1>5. NoLostWakeup'
  BY DEF IInv, NoLostWakeup, Copy, Goto, At, connVars
<1>6. OneOwner' /\ AllAccounted'
  <2>1. slot[t]["msg"] = None
    BY Names DEF IInv, StackOK, OnStack, Copy, Idle, At, Sending
  <2> QED
    BY <2>1, Names, TakeOwners DEF IInv, Copy, connVars
<1> QED
  BY <1>1, <1>2, <1>3, <1>4, <1>5, <1>6 DEF IInv

\* Only the place of the thread changes.
LEMMA CopyNoneKeeps ==
    ASSUME IInv, NEW t \in Threads, CopyNone(t)
    PROVE  IInv'
<1>1. TypeOK'
  BY DEF IInv, TypeOK, CopyNone, Goto, connVars, Places
<1>2. StackOK'
  BY DEF IInv, StackOK, OnStack, CopyNone, Goto, At, Sending
<1>3. ReachableIsAlive'
  BY DEF IInv, ReachableIsAlive, CopyNone, connVars
<1>4. SendingOK' /\ FrontInFlight'
  BY DEF IInv, SendingOK, FrontInFlight, CopyNone, connVars
<1>5. NoLostWakeup'
  BY DEF IInv, NoLostWakeup, CopyNone, Goto, At, connVars
<1>6. OneOwner' /\ AllAccounted'
  BY SameOwners DEF IInv, CopyNone, connVars
<1> QED
  BY <1>1, <1>2, <1>3, <1>4, <1>5, <1>6 DEF IInv

\* The exception ends the handler, or nothing changes any more.
LEMMA CopyFailsKeeps ==
    ASSUME IInv, NEW t \in Threads, CopyFails(t)
    PROVE  IInv'
<1>1. CASE job[t] # None
  <2>1. t = "io"
    BY <1>1, Names DEF IInv, StackOK
  <2>2. /\ pc["io"] = "forward" /\ Throw("io")
        /\ UNCHANGED <<queue, sending, op, serial, alive, inMap, mapLock, dest, num, sent,
                       leaked, aborted>>
    BY <1>1, <2>1 DEF CopyFails, At
  <2>3. dest["io"] = None
    BY <2>2, Names DEF IInv, StackOK, OnStack, Sending
  <2> QED
    BY <1>1, <2>1, <2>2, <2>3, Names, ThrowKeeps DEF IInv, TypeOK
<1>2. CASE job[t] = None
  <2>1. /\ aborted' = TRUE
        /\ UNCHANGED <<free, connVars, inMap, mapLock, pc, slot, job, dest, num, leaked>>
    BY <1>2 DEF CopyFails, connVars
  <2>2. TypeOK' /\ StackOK' /\ ReachableIsAlive' /\ SendingOK' /\ FrontInFlight'
    BY <2>1 DEF IInv, TypeOK, StackOK, OnStack, ReachableIsAlive, SendingOK,
       FrontInFlight, connVars
  <2>3. NoLostWakeup'
    BY <2>1 DEF NoLostWakeup
  <2>4. OneOwner' /\ AllAccounted'
    BY <2>1, SameOwners DEF IInv, connVars
  <2> QED
    BY <2>2, <2>3, <2>4 DEF IInv
<1> QED
  BY <1>1, <1>2

\* The chunk of the stream that was copied goes back.
LEMMA ForwardedKeeps ==
    ASSUME IInv, NEW t \in Threads, Forwarded(t)
    PROVE  IInv'
<1>1. TypeOK'
  BY Names DEF IInv, TypeOK, Forwarded, Goto, Return, connVars, Places
<1>2. StackOK'
  BY Names DEF IInv, StackOK, OnStack, TypeOK, Forwarded, Goto, Return, At, Sending
<1>3. ReachableIsAlive'
  BY DEF IInv, ReachableIsAlive, Forwarded, connVars
<1>4. SendingOK' /\ FrontInFlight'
  BY DEF IInv, SendingOK, FrontInFlight, Forwarded, connVars
<1>5. NoLostWakeup'
  BY DEF IInv, NoLostWakeup, Forwarded, Goto, At, connVars
<1>6. OneOwner' /\ AllAccounted'
  BY Names, ReturnOwners DEF IInv, Forwarded, connVars
<1> QED
  BY <1>1, <1>2, <1>3, <1>4, <1>5, <1>6 DEF IInv

\* Only the map and the place of the thread change.
LEMMA RemoveKeeps ==
    ASSUME IInv, NEW t \in Threads, Remove(t)
    PROVE  IInv'
<1>1. TypeOK'
  <2>1. pc' \in [Threads -> Places]
    BY DEF IInv, TypeOK, Remove, Goto, Places
  <2> QED
    BY <2>1 DEF IInv, TypeOK, Remove, connVars
<1>2. StackOK'
  BY DEF IInv, StackOK, OnStack, Remove, Goto, At, Sending
<1>3. ReachableIsAlive'
  BY DEF IInv, ReachableIsAlive, Remove, connVars
<1>4. SendingOK' /\ FrontInFlight'
  BY DEF IInv, SendingOK, FrontInFlight, Remove, connVars
<1>5. NoLostWakeup'
  BY DEF IInv, NoLostWakeup, Remove, Goto, At, connVars
<1>6. OneOwner' /\ AllAccounted'
  BY SameOwners DEF IInv, Remove, connVars
<1> QED
  BY <1>1, <1>2, <1>3, <1>4, <1>5, <1>6 DEF IInv

\* The number is one of those that serial holds.
LEMMA CountKeeps ==
    ASSUME IInv, NEW t \in Threads, Count(t)
    PROVE  IInv'
<1>1. TypeOK'
  BY DEF IInv, TypeOK, StackOK, OnStack, Count, Goto, At, connVars, Sending, Places
<1>2. StackOK'
  BY DEF IInv, StackOK, OnStack, Count, Goto, At, Sending
<1>3. ReachableIsAlive'
  BY DEF IInv, ReachableIsAlive, Count, connVars
<1>4. SendingOK' /\ FrontInFlight'
  BY DEF IInv, SendingOK, FrontInFlight, Count, connVars
<1>5. NoLostWakeup'
  BY DEF IInv, NoLostWakeup, Count, Goto, At, connVars
<1>6. OneOwner' /\ AllAccounted'
  BY SameOwners DEF IInv, Count, connVars
<1> QED
  BY <1>1, <1>2, <1>3, <1>4, <1>5, <1>6 DEF IInv

\* The next number is in range, whatever the other thread wrote meanwhile.
LEMMA NumberKeeps ==
    ASSUME IInv, NEW t \in Threads, Number(t)
    PROVE  IInv'
<1>1. TypeOK'
  <2>1. (num[t] + 1) % SerialMod \in 0 .. SerialMod - 1
    BY NextNumber DEF IInv, TypeOK
  <2>2. serial' \in [Conns -> 0 .. SerialMod - 1]
    BY <2>1 DEF IInv, TypeOK, Number
  <2>3. pc' \in [Threads -> Places]
    BY DEF IInv, TypeOK, Number, Goto, Places
  <2> QED
    BY <2>2, <2>3 DEF IInv, TypeOK, Number
<1>2. StackOK'
  BY DEF IInv, StackOK, OnStack, Number, Goto, At, Sending
<1>3. ReachableIsAlive'
  BY DEF IInv, ReachableIsAlive, Number
<1>4. SendingOK' /\ FrontInFlight'
  BY DEF IInv, SendingOK, FrontInFlight, Number
<1>5. NoLostWakeup'
  BY DEF IInv, NoLostWakeup, Number, Goto, At
<1>6. OneOwner' /\ AllAccounted'
  BY SameOwners DEF IInv, Number, connVars
<1> QED
  BY <1>1, <1>2, <1>3, <1>4, <1>5, <1>6 DEF IInv

\* The exception gives back every chunk on the stack of io.
LEMMA SerializeFailsKeeps ==
    ASSUME IInv, NEW t \in Threads, SerializeFails(t)
    PROVE  IInv'
<1>1. /\ t = "io" /\ pc["io"] = "number" /\ job[t] # None /\ Throw(t)
      /\ UNCHANGED <<queue, sending, op, alive, sent, inMap, num, leaked, aborted>>
      /\ mapLock' = None /\ dest' = [dest EXCEPT ![t] = None]
  BY Names DEF IInv, StackOK, SerializeFails, At
<1>2. serial' \in [Conns -> 0 .. SerialMod - 1]
  <2>1. (num[t] + 1) % SerialMod \in 0 .. SerialMod - 1
    BY NextNumber DEF IInv, TypeOK
  <2> QED
    BY <2>1 DEF IInv, TypeOK, SerializeFails
<1>3. /\ dest' \in [Threads -> Conns \cup {None}]
      /\ dest'["io"] = None /\ dest'["timer"] = dest["timer"]
  BY <1>1, Names DEF IInv, TypeOK
<1> QED
  BY <1>1, <1>2, <1>3, ThrowKeeps

\* The chunk goes from the stream to the end of the list; a kick follows.
LEMMA PushKeeps ==
    ASSUME IInv, NEW t \in Threads, Push(t)
    PROVE  IInv'
<1> DEFINE m == [chunk |-> slot[t]["msg"], num |-> num[t]]
<1>1. pc[t] = "push" /\ dest[t] \in Conns
  BY DEF IInv, TypeOK, StackOK, OnStack, Sending, Push, At
<1>2. slot[t]["msg"] # None
  BY <1>1 DEF IInv, StackOK, OnStack, Sending
<1>3. m \in Messages /\ m.chunk = slot[t]["msg"]
  BY <1>2, Names DEF IInv, TypeOK, Messages
<1>4. queue' = [queue EXCEPT ![dest[t]] = Append(@, m)]
  BY DEF Push
<1> HIDE DEF m
<1>5. /\ slot' = [slot EXCEPT ![t]["msg"] = None]
      /\ pc' = [pc EXCEPT ![t] = "kick"]
      /\ UNCHANGED <<free, sending, op, serial, valid, alive, sent, inMap, mapLock,
                     job, dest, num, leaked, aborted>>
  BY DEF Push, Goto
<1>6. queue[dest[t]] \in Seq(Messages) /\ Append(queue[dest[t]], m) # <<>>
  <2>1. queue[dest[t]] \in Seq(Messages)
    BY <1>1 DEF IInv, TypeOK
  <2> QED
    BY <1>3, <2>1
<1>7. /\ queue' \in [Conns -> Seq(Messages)]
      /\ queue'[dest[t]] # <<>>
      /\ \A c \in Conns \ {dest[t]} : queue'[c] = queue[c]
  BY <1>1, <1>3, <1>4, <1>6 DEF IInv, TypeOK
<1>8. pc' \in [Threads -> Places]
  BY <1>5 DEF IInv, TypeOK, Places
<1>9. TypeOK'
  BY <1>5, <1>7, <1>8, Names DEF IInv, TypeOK
<1>10. StackOK'
  <2>1. /\ slot'[t]["msg"] = None
        /\ \A f \in Slots \ {"msg"} : slot'[t][f] = slot[t][f]
        /\ \A u \in Threads \ {t} : slot'[u] = slot[u]
    BY <1>5, Names DEF IInv, TypeOK
  <2>2. pc'[t] = "kick" /\ \A u \in Threads \ {t} : pc'[u] = pc[u]
    BY <1>5 DEF IInv, TypeOK
  <2>3. pc'["timer"] \notin {"handle", "reply"}
    BY <2>2, Names DEF IInv, StackOK
  <2>4. OnStack(t)'
    BY <1>1, <1>5, <2>1, <2>2, Names DEF IInv, StackOK, OnStack, Sending
  <2>5. \A u \in Threads \ {t} : OnStack(u)'
    BY <1>5, <2>1, <2>2 DEF IInv, StackOK, OnStack
  <2> QED
    BY <1>5, <2>3, <2>4, <2>5 DEF IInv, StackOK
<1>11. ReachableIsAlive'
  BY <1>1, <1>5, <1>7, Names DEF IInv, ReachableIsAlive
<1>12. SendingOK' /\ FrontInFlight'
  BY <1>5, <1>7 DEF IInv, SendingOK, FrontInFlight
<1>13. NoLostWakeup'
  <2>1. pc'[t] = "kick" /\ \A u \in Threads : pc[u] = "kick" => pc'[u] = "kick"
    BY <1>5 DEF IInv, TypeOK
  <2> QED
    BY <1>5, <1>7, <2>1 DEF IInv, NoLostWakeup
<1>14. OneOwner' /\ AllAccounted'
  BY <1>1, <1>2, <1>3, <1>4, <1>5, PushOwners DEF IInv, TypeOK
<1> QED
  BY <1>9, <1>10, <1>11, <1>12, <1>13, <1>14 DEF IInv

\* If nothing is sent and the list is not empty, a send is posted; if one is said
\* to be sent, there is one or the connection is closed (SendingOK).
LEMMA KickKeeps ==
    ASSUME IInv, NEW t \in Threads, Kick(t)
    PROVE  IInv'
<1>1. dest[t] \in Conns /\ pc[t] = "kick" /\ Post(dest[t]) /\ TypeOK
  BY DEF IInv, TypeOK, StackOK, OnStack, Sending, Kick, At
<1>2. /\ UNCHANGED <<free, queue, serial, valid, alive, sent, inMap, slot, job, num,
                     leaked, aborted>>
      /\ dest' = [dest EXCEPT ![t] = None]
      /\ mapLock' \in Threads \cup {None}
  BY <1>1 DEF Kick, TypeOK
<1>3. PICK l \in {"forwarded", "reply", "idle"} :
         /\ pc' = [pc EXCEPT ![t] = l]
         /\ l = "reply" => job[t] # None
         /\ l = "idle" => job[t] = None
         /\ l # "forwarded" => slot[t]["fwd"] = None
  BY <1>1 DEF Kick, Goto
<1>4. /\ pc' \in [Threads -> Places] /\ dest' \in [Threads -> Conns \cup {None}]
      /\ pc'[t] = l /\ dest'[t] = None
      /\ \A u \in Threads \ {t} : pc'[u] = pc[u] /\ dest'[u] = dest[u]
  <2>1. l \in Places
    BY DEF Places
  <2> QED
    BY <1>1, <1>2, <1>3, <2>1 DEF TypeOK
<1>5. /\ sending' \in [Conns -> BOOLEAN]
      /\ op' \in [Conns -> {"none", "posted", "done", "failed"}]
      /\ \A c \in Conns : \/ sending'[c] = sending[c] /\ op'[c] = op[c]
                          \/ sending'[c] /\ op'[c] = "posted" /\ queue[c] # <<>>
      /\ \A c \in Conns : op'[c] # "none" => op[c] # "none" \/ c = dest[t]
  BY <1>1, PostEffect
<1>6. TypeOK'
  BY <1>1, <1>2, <1>4, <1>5 DEF TypeOK
<1>7. StackOK'
  <2>1. pc'["timer"] \notin {"handle", "reply"}
    BY <1>2, <1>3, <1>4, Names DEF IInv, StackOK
  <2>2. OnStack(t)'
    BY <1>1, <1>2, <1>3, <1>4 DEF IInv, StackOK, OnStack, Sending
  <2>3. \A u \in Threads \ {t} : OnStack(u)'
    BY <1>2, <1>4 DEF IInv, StackOK, OnStack
  <2> QED
    BY <1>2, <2>1, <2>2, <2>3 DEF IInv, StackOK
<1>8. ReachableIsAlive'
  <2>1. alive[dest[t]]
    BY <1>1, Names DEF IInv, ReachableIsAlive
  <2>2. \A u \in Threads : dest'[u] # None => dest'[u] = dest[u]
    BY <1>4
  <2> QED
    BY <1>2, <1>5, <2>1, <2>2 DEF IInv, ReachableIsAlive
<1>9. SendingOK' /\ FrontInFlight'
  BY <1>2, <1>5 DEF IInv, SendingOK, FrontInFlight
<1>10. NoLostWakeup'
  <2>1. SUFFICES ASSUME NEW c \in Conns, valid[c], queue[c] # <<>>, ~aborted,
                        op'[c] = "none"
                 PROVE  \E u \in Threads : pc'[u] = "kick" /\ dest'[u] = c
    BY <1>2 DEF NoLostWakeup
  <2>2. op[c] = "none"
    BY <1>5, <2>1
  <2>3. PICK u \in Threads : pc[u] = "kick" /\ dest[u] = c
    BY <2>1, <2>2 DEF IInv, NoLostWakeup
  <2>4. c # dest[t]
    BY <1>1, <2>1, <2>2, PostEffect DEF IInv, SendingOK
  <2> QED
    BY <1>4, <2>3, <2>4
<1>11. OneOwner' /\ AllAccounted'
  BY <1>2, SameOwners DEF IInv
<1> QED
  BY <1>6, <1>7, <1>8, <1>9, <1>10, <1>11 DEF IInv

\* The send is done, but still occupies the front of the list.
LEMMA TransmitKeeps ==
    ASSUME IInv, NEW c \in Conns, Transmit(c)
    PROVE  IInv'
<1>1. TypeOK'
  <2>1. (sent[c] + 1) % SerialMod \in 0 .. SerialMod - 1
    BY NextNumber DEF IInv, TypeOK
  <2>2. sent' \in [Conns -> 0 .. SerialMod - 1]
    BY <2>1 DEF IInv, TypeOK, Transmit
  <2>3. op' \in [Conns -> {"none", "posted", "done", "failed"}]
    BY DEF IInv, TypeOK, Transmit
  <2> QED
    BY <2>2, <2>3 DEF IInv, TypeOK, Transmit
<1>2. StackOK'
  BY DEF IInv, StackOK, OnStack, Transmit
<1>3. ReachableIsAlive'
  BY DEF IInv, ReachableIsAlive, Transmit
<1>4. SendingOK' /\ FrontInFlight'
  BY DEF IInv, SendingOK, FrontInFlight, Transmit
<1>5. NoLostWakeup'
  BY DEF IInv, NoLostWakeup, Transmit
<1>6. OneOwner' /\ AllAccounted'
  BY SameOwners DEF IInv, Transmit, connVars
<1> QED
  BY <1>1, <1>2, <1>3, <1>4, <1>5, <1>6 DEF IInv

\* The send has failed, but still occupies the front of the list.
LEMMA TransmitFailsKeeps ==
    ASSUME IInv, NEW c \in Conns, TransmitFails(c)
    PROVE  IInv'
<1>1. TypeOK'
  BY DEF IInv, TypeOK, TransmitFails
<1>2. StackOK'
  BY DEF IInv, StackOK, OnStack, TransmitFails
<1>3. ReachableIsAlive'
  BY DEF IInv, ReachableIsAlive, TransmitFails
<1>4. SendingOK' /\ FrontInFlight'
  BY DEF IInv, SendingOK, FrontInFlight, TransmitFails
<1>5. NoLostWakeup'
  BY DEF IInv, NoLostWakeup, TransmitFails
<1>6. OneOwner' /\ AllAccounted'
  BY SameOwners DEF IInv, TransmitFails, connVars
<1> QED
  BY <1>1, <1>2, <1>3, <1>4, <1>5, <1>6 DEF IInv

\* The front of the list goes back to the pool; a kick follows.
LEMMA SendDoneKeeps ==
    ASSUME IInv, NEW c \in Conns, SendDone(c)
    PROVE  IInv'
<1>1. TypeOK'
  <2>1. queue[c] \in Seq(Messages) /\ queue[c] # <<>>
    BY DEF IInv, TypeOK, FrontInFlight, SendDone
  <2>2. Head(queue[c]) \in Messages /\ Tail(queue[c]) \in Seq(Messages)
    BY <2>1
  <2>3. Head(queue[c]).chunk \in Chunks
    BY <2>2 DEF Messages
  <2>4. /\ free' = free \cup {Head(queue[c]).chunk}
        /\ queue' = [queue EXCEPT ![c] = Tail(queue[c])]
    BY DEF SendDone, IInv, TypeOK
  <2>5. free' \subseteq Chunks /\ queue' \in [Conns -> Seq(Messages)]
    BY <2>2, <2>3, <2>4 DEF IInv, TypeOK
  <2> QED
    BY <2>5, Names DEF IInv, TypeOK, Places, SendDone, Goto
<1>2. StackOK'
  BY Names DEF IInv, StackOK, OnStack, TypeOK, SendDone, Goto, Idle, Sending
<1>3. ReachableIsAlive'
  BY DEF IInv, ReachableIsAlive, SendDone
<1>4. SendingOK' /\ FrontInFlight'
  BY DEF IInv, SendingOK, FrontInFlight, TypeOK, SendDone
<1>5. NoLostWakeup'
  BY Names DEF IInv, NoLostWakeup, TypeOK, SendDone, Goto, Idle
<1>6. OneOwner' /\ AllAccounted'
  <2>1. queue[c] # <<>>
    BY DEF IInv, FrontInFlight, SendDone
  <2> QED
    BY <2>1, PopOwners DEF IInv, TypeOK, SendDone
<1> QED
  BY <1>1, <1>2, <1>3, <1>4, <1>5, <1>6 DEF IInv

\* m_isSending stays set, for a connection that is closed now.
LEMMA SendFailedKeeps ==
    ASSUME IInv, NEW c \in Conns, SendFailed(c)
    PROVE  IInv'
<1>1. TypeOK'
  BY DoErrorEffect, Names DEF IInv, TypeOK, StackOK, OnStack, SendFailed
<1>2. StackOK'
  BY Names, DoErrorStack DEF SendFailed, Idle
<1>3. ReachableIsAlive' /\ SendingOK' /\ FrontInFlight' /\ NoLostWakeup'
  BY Names, DoErrorConns DEF SendFailed, Idle
<1>4. OneOwner' /\ AllAccounted'
  BY SameOwners DEF IInv, SendFailed, connVars
<1> QED
  BY <1>1, <1>2, <1>3, <1>4 DEF IInv

\* Nothing but m_valid and the place of the thread changes.
LEMMA CloseKeeps ==
    ASSUME IInv, NEW t \in Threads, NEW c \in Conns, Close(t, c)
    PROVE  IInv'
<1>1. TypeOK'
  BY DoErrorEffect DEF IInv, TypeOK, Close
<1>2. StackOK'
  BY DoErrorStack DEF Close, Idle
<1>3. ReachableIsAlive' /\ SendingOK' /\ FrontInFlight' /\ NoLostWakeup'
  BY DoErrorConns DEF Close, Idle
<1>4. OneOwner' /\ AllAccounted'
  BY SameOwners DEF IInv, Close, connVars
<1> QED
  BY <1>1, <1>2, <1>3, <1>4 DEF IInv

\* Nobody refers to the connection and no send is under way.
LEMMA DestroyKeeps ==
    ASSUME IInv, NEW c \in Conns, Destroy(c)
    PROVE  IInv'
<1>1. TypeOK'
  <2>1. Queued(c) \subseteq Chunks
    <3>1. queue[c] \in Seq(Messages)
      BY DEF IInv, TypeOK
    <3>2. \A i \in 1 .. Len(queue[c]) : queue[c][i] \in Messages
      BY <3>1
    <3> QED
      BY <3>2 DEF Queued, Messages
  <2>2. queue' \in [Conns -> Seq(Messages)]
    <3>1. <<>> \in Seq(Messages)
      OBVIOUS
    <3> QED
      BY <3>1 DEF Destroy, IInv, TypeOK
  <2> QED
    BY <2>1, <2>2 DEF IInv, TypeOK, Destroy
<1>2. StackOK'
  BY DEF IInv, StackOK, OnStack, Destroy
<1>3. ReachableIsAlive'
  BY DEF IInv, ReachableIsAlive, TypeOK, Destroy
<1>4. SendingOK' /\ FrontInFlight'
  BY DEF IInv, SendingOK, FrontInFlight, Destroy
<1>5. NoLostWakeup'
  BY DEF IInv, NoLostWakeup, Destroy
<1>6. OneOwner' /\ AllAccounted'
  BY DestroyOwners DEF IInv, Destroy
<1> QED
  BY <1>1, <1>2, <1>3, <1>4, <1>5, <1>6 DEF IInv

\* A destroyed connection left no list and no send.
LEMMA ReconnectKeeps ==
    ASSUME IInv, NEW c \in Conns, Reconnect(c)
    PROVE  IInv'
<1>1. TypeOK'
  BY NamesAssumption DEF IInv, TypeOK, Reconnect
<1>2. StackOK'
  BY DEF IInv, StackOK, OnStack, Reconnect
<1>3. ReachableIsAlive'
  BY DEF IInv, ReachableIsAlive, TypeOK, Reconnect
<1>4. SendingOK' /\ FrontInFlight'
  BY DEF IInv, SendingOK, FrontInFlight, TypeOK, ReachableIsAlive, Reconnect
<1>5. NoLostWakeup'
  BY DEF IInv, NoLostWakeup, ReachableIsAlive, Reconnect
<1>6. OneOwner' /\ AllAccounted'
  BY SameOwners DEF IInv, Reconnect, connVars
<1> QED
  BY <1>1, <1>2, <1>3, <1>4, <1>5, <1>6 DEF IInv

\* No step at all keeps it too.
LEMMA StutterKeeps ==
    ASSUME IInv, UNCHANGED vars
    PROVE  IInv'
<1>1. TypeOK' /\ StackOK' /\ ReachableIsAlive'
  BY DEF vars, IInv, TypeOK, StackOK, OnStack, ReachableIsAlive
<1>2. SendingOK' /\ FrontInFlight' /\ NoLostWakeup'
  BY DEF vars, IInv, SendingOK, FrontInFlight, NoLostWakeup
<1>3. OneOwner' /\ AllAccounted'
  BY SameOwners DEF vars, IInv
<1> QED
  BY <1>1, <1>2, <1>3 DEF IInv

\* One case for each action of Next.
LEMMA StepKeeps ==
    ASSUME IInv, [Next]_vars
    PROVE  IInv'
<1>1. ASSUME NEW t \in Threads, ThreadStep(t) PROVE IInv'
  BY <1>1, NoticeKeeps, NoticeFailsKeeps, CopyKeeps, CopyNoneKeeps, CopyFailsKeeps,
     ForwardedKeeps, RemoveKeeps, CountKeeps, NumberKeeps, SerializeFailsKeeps,
     PushKeeps, KickKeeps DEF ThreadStep
<1>2. ASSUME HandleStep PROVE IInv'
  BY <1>2, HandleReportKeeps, HandleFailsKeeps, HandleOverflowsKeeps,
     HandleLocallyKeeps, ReplyKeeps, NoReplyKeeps, HandleForwardKeeps DEF HandleStep
<1>3. ASSUME NEW c \in Conns, BeginHandle(c) \/ BeginFails(c) PROVE IInv'
  BY <1>3, BeginHandleKeeps, BeginFailsKeeps
<1>4. ASSUME NEW c \in Conns, Transmit(c) \/ TransmitFails(c) \/ Completion(c) PROVE IInv'
  BY <1>4, TransmitKeeps, TransmitFailsKeeps, SendDoneKeeps, SendFailedKeeps
     DEF Completion
<1>5. ASSUME NEW c \in Conns, Destroy(c) \/ Reconnect(c) PROVE IInv'
  BY <1>5, DestroyKeeps, ReconnectKeeps
<1>6. ASSUME NEW t \in Threads, NEW c \in Conns, Close(t, c) PROVE IInv'
  BY <1>6, CloseKeeps
<1>7. ASSUME UNCHANGED vars PROVE IInv'
  BY <1>7, StutterKeeps
<1> QED
  BY <1>1, <1>2, <1>3, <1>4, <1>5, <1>6, <1>7 DEF Next

-----------------------------------------------------------------------------
(* What follows from it                                                    *)

\* The inductive invariant is one.
THEOREM Invariance == Spec => []IInv
<1>1. Init => IInv
  BY InitInv
<1>2. IInv /\ [Next]_vars => IInv'
  BY StepKeeps
<1> QED
  BY <1>1, <1>2, PTL DEF Spec

\* Every variable keeps its shape.
THEOREM TypeCorrect == Spec => []TypeOK
<1>1. IInv => TypeOK
  BY DEF IInv
<1> QED
  BY <1>1, Invariance, PTL

\* A chunk of g_memoryPool has one owner: the streams that take, move and return
\* chunks, the send lists and the pool never share one.
THEOREM ChunksHaveOneOwner == Spec => []OneOwner
<1>1. IInv => OneOwner
  BY DEF IInv
<1> QED
  BY <1>1, Invariance, PTL

\* ... and none gets lost but in the list of a destroyed connection, whichever
\* exception ends a handler.
THEOREM ChunksAreAccounted == Spec => []AllAccounted
<1>1. IInv => AllAccounted
  BY DEF IInv
<1> QED
  BY <1>1, Invariance, PTL

\* The memory that async_send reads is the front of m_sendList, which stays there
\* until the completion.
THEOREM SendsTheFront == Spec => []FrontInFlight
<1>1. IInv => FrontInFlight
  BY DEF IInv
<1> QED
  BY <1>1, Invariance, PTL

\* No message waits on the list of a valid connection without a send under way or
\* a trySend() to come.
THEOREM NothingForgotten == Spec => []NoLostWakeup
<1>1. IInv => NoLostWakeup
  BY DEF IInv
<1> QED
  BY <1>1, Invariance, PTL


-----------------------------------------------------------------------------
(* The serial numbers of a terminal                                        *)

\* The number after n: m_serialNum wraps around.
After(n) == (n + 1) % SerialMod

\* The messages of q carry consecutive numbers, and next is the one to come.
Numbered(q, next) ==
    \A i \in 1 .. Len(q) : (IF i = Len(q) THEN next ELSE q[i + 1].num) = After(q[i].num)

\* The number of the first message of q, or of the one to come.
Front(q, next) == IF q = <<>> THEN next ELSE q[1].num

\* The number that the next message to be pushed for c will carry.
Ahead(c) == IF pc["io"] = "push" /\ dest["io"] = c THEN num["io"] ELSE serial[c]

\* timer is in trySend() of the center only; so is who has a report to pass on.
OnlyCenter ==
    /\ pc["timer"] \in Sending => dest["timer"] = Center
    /\ \A t \in Threads : slot[t]["fwd"] # None /\ pc[t] \in Sending => dest[t] = Center

\* The increment of m_serialNum is not disturbed.
Counting(c) ==
    dest["io"] = c => /\ pc["io"] = "number" => num["io"] = serial[c]
                      /\ pc["io"] = "push" => serial[c] = After(num["io"])

\* The list continues where the kernel has got to, and serial where the list ends.
Consecutive(c) ==
    /\ Numbered(queue[c], Ahead(c))
    /\ sent[c] = IF op[c] = "done" THEN After(Front(queue[c], Ahead(c)))
                                   ELSE Front(queue[c], Ahead(c))

Right(c) == alive[c] => Counting(c) /\ Consecutive(c)

SerialInv ==
    /\ OnlyCenter
    /\ \A c \in Terminals : Right(c)

\* A message pushed with the number to come continues the list.
LEMMA AppendNumbered ==
    ASSUME NEW q \in Seq(Messages), NEW m \in Messages, Numbered(q, m.num)
    PROVE  /\ Numbered(Append(q, m), After(m.num))
           /\ Front(Append(q, m), After(m.num)) = Front(q, m.num)
<1> DEFINE r == Append(q, m)
<1>1. /\ Len(r) = Len(q) + 1 /\ Len(q) \in Nat
      /\ r[Len(q) + 1] = m
      /\ \A i \in 1 .. Len(q) : r[i] = q[i]
      /\ r # <<>>
  OBVIOUS
<1> HIDE DEF r
<1>2. Numbered(r, After(m.num))
  <2> SUFFICES ASSUME NEW i \in 1 .. Len(r)
               PROVE  (IF i = Len(r) THEN After(m.num) ELSE r[i + 1].num) = After(r[i].num)
    BY DEF Numbered
  <2>1. CASE i = Len(r)
    BY <1>1, <2>1
  <2>2. CASE i = Len(q)
    BY <1>1, <2>2 DEF Numbered
  <2>3. CASE i \in 1 .. Len(q) - 1
    <3>1. i + 1 \in 1 .. Len(q) /\ i \in 1 .. Len(q) /\ i # Len(q) /\ i # Len(r)
      BY <1>1, <2>3
    <3>2. r[i + 1] = q[i + 1] /\ r[i] = q[i]
      BY <1>1, <3>1
    <3> QED
      BY <3>1, <3>2 DEF Numbered
  <2> QED
    BY <1>1, <2>1, <2>2, <2>3
<1>3. Front(r, After(m.num)) = Front(q, m.num)
  <2>1. CASE q = <<>>
    BY <1>1, <2>1 DEF Front
  <2>2. CASE q # <<>>
    BY <1>1, <2>2 DEF Front
  <2> QED
    BY <2>1, <2>2
<1> QED
  BY <1>2, <1>3 DEF r

\* Without its first message the list begins one number later.
LEMMA TailNumbered ==
    ASSUME NEW q \in Seq(Messages), q # <<>>, NEW next, Numbered(q, next)
    PROVE  Numbered(Tail(q), next) /\ Front(Tail(q), next) = After(q[1].num)
<1> DEFINE r == Tail(q)
<1>1. /\ Len(r) = Len(q) - 1 /\ Len(q) \in Nat \ {0} /\ Len(r) \in Nat
      /\ \A i \in 1 .. Len(r) : r[i] = q[i + 1]
      /\ r = <<>> <=> Len(q) = 1
  <2>1. Len(q) \in Nat \ {0}
    OBVIOUS
  <2>2. r \in Seq(Messages) /\ Len(r) = Len(q) - 1
    OBVIOUS
  <2>3. \A i \in 1 .. Len(r) : r[i] = q[i + 1]
    BY <2>1, <2>2
  <2> HIDE DEF r
  <2>4. r = <<>> <=> Len(r) = 0
    BY <2>2, EmptySeq
  <2> QED
    BY <2>1, <2>2, <2>3, <2>4
<1> HIDE DEF r
<1>2. Numbered(r, next)
  <2> SUFFICES ASSUME NEW i \in 1 .. Len(r)
               PROVE  (IF i = Len(r) THEN next ELSE r[i + 1].num) = After(r[i].num)
    BY DEF Numbered
  <2>1. i + 1 \in 1 .. Len(q) /\ (i + 1 = Len(q) <=> i = Len(r))
    BY <1>1
  <2>2. (IF i + 1 = Len(q) THEN next ELSE q[i + 1 + 1].num) = After(q[i + 1].num)
    BY <2>1 DEF Numbered
  <2>3. i # Len(r) => r[i + 1] = q[i + 1 + 1]
    BY <1>1
  <2> QED
    BY <1>1, <2>1, <2>2, <2>3
<1>3. Front(r, next) = After(q[1].num)
  <2>1. 1 \in 1 .. Len(q)
    BY <1>1
  <2>2. (IF 1 = Len(q) THEN next ELSE q[1 + 1].num) = After(q[1].num)
    BY <2>1 DEF Numbered
  <2>3. r # <<>> => r[1] = q[1 + 1]
    BY <1>1
  <2> QED
    BY <1>1, <2>2, <2>3 DEF Front
<1> QED
  BY <1>2, <1>3 DEF r

\* Nothing that the numbers of c depend on changes.
LEMMA Untouched ==
    ASSUME NEW c \in Terminals, Right(c),
           queue'[c] = queue[c], serial'[c] = serial[c], sent'[c] = sent[c],
           alive'[c] => alive[c], op'[c] = "done" <=> op[c] = "done",
           \/ pc'["io"] = pc["io"] /\ dest'["io"] = dest["io"] /\ num'["io"] = num["io"]
           \/ pc["io"] # "push" /\ pc'["io"] \notin {"number", "push"}
    PROVE  Right(c)'
<1>1. Ahead(c)' = Ahead(c)
  BY DEF Ahead
<1>2. alive[c] => Counting(c)'
  BY DEF Right, Counting
<1> QED
  BY <1>1, <1>2 DEF Right, Consecutive

\* A step of t, outside the two places between reading m_serialNum and pushing,
\* that leaves the numbers alone.
LEMMA Aside ==
    ASSUME SerialInv, NEW t \in Threads,
           pc[t] # "push", pc'[t] \notin {"number", "push"},
           \A u \in Threads \ {t} : /\ pc'[u] = pc[u] /\ dest'[u] = dest[u]
                                    /\ slot'[u]["fwd"] = slot[u]["fwd"],
           pc'[t] \in Sending => \/ dest'[t] = Center
                                 \/ t = "io" /\ slot'[t]["fwd"] = None,
           UNCHANGED <<queue, sent, num, alive>>,
           \A c \in Terminals : /\ serial'[c] = serial[c]
                                /\ op'[c] = "done" <=> op[c] = "done"
    PROVE  SerialInv'
<1>1. OnlyCenter'
  BY Names DEF SerialInv, OnlyCenter
<1>2. \/ pc'["io"] = pc["io"] /\ dest'["io"] = dest["io"]
      \/ pc["io"] # "push" /\ pc'["io"] \notin {"number", "push"}
  BY Names
<1>3. \A c \in Terminals : Right(c)'
  BY <1>2, Untouched DEF SerialInv
<1> QED
  BY <1>1, <1>3 DEF SerialInv

\* do_error by a thread that has nothing to do
LEMMA DoErrorAside ==
    ASSUME IInv, SerialInv, NEW t \in Threads, NEW c \in Conns, pc[t] = "idle",
           DoError(t, c), UNCHANGED <<queue, serial, sent, num, alive, dest, slot>>,
           \A d \in Conns : op'[d] = "done" <=> op[d] = "done"
    PROVE  SerialInv'
<1>1. /\ pc'[t] \in {"idle", "notice", "remove"}
      /\ \A u \in Threads \ {t} : pc'[u] = pc[u]
  BY DoErrorEffect DEF IInv
<1> QED
  BY <1>1, Aside, Names DEF Sending

\* An exception out of a handler, whose connection fails
LEMMA ThrowAside ==
    ASSUME IInv, SerialInv, NEW t \in Threads, job[t] # None, Throw(t), pc[t] # "push",
           UNCHANGED <<queue, sent, num, alive, op>>,
           \A c \in Terminals : serial'[c] = serial[c], dest'["timer"] = dest["timer"]
    PROVE  SerialInv'
<1>1. /\ t = "io" /\ pc'["io"] \in {"idle", "notice", "remove"}
      /\ pc'["timer"] = pc["timer"] /\ slot'["timer"] = slot["timer"]
  BY ThrowEffect
<1> QED
  BY <1>1, Aside, Names DEF Sending

LEMMA InitSerials ==
    ASSUME Init
    PROVE  SerialInv
  BY Names, NamesAssumption
     DEF Init, SerialInv, OnlyCenter, Right, Counting, Consecutive, Numbered, Front,
         Ahead, Sending, NoSlots

\* What a thread does before and after trySend().
LEMMA StreamStepSerials ==
    ASSUME IInv, SerialInv, NEW t \in Threads,
           \/ Notice(t) \/ NoticeFails(t) \/ CopyNone(t) \/ Forwarded(t) \/ Remove(t)
    PROVE  SerialInv'
<1>1. CASE Notice(t)
  BY <1>1, Aside, Names DEF IInv, TypeOK, Notice, Take, Goto, At, Sending, connVars
<1>2. CASE NoticeFails(t)
  BY <1>2, Aside, Names DEF IInv, TypeOK, StackOK, OnStack, NoticeFails, At, Sending, connVars
<1>3. CASE CopyNone(t)
  BY <1>3, Aside, Names DEF IInv, TypeOK, CopyNone, Goto, At, Sending, connVars
<1>4. CASE Forwarded(t)
  BY <1>4, Aside, Names DEF IInv, TypeOK, Forwarded, Return, Goto, At, Sending, connVars
<1>5. CASE Remove(t)
  BY <1>5, Aside, Names DEF IInv, TypeOK, Remove, Goto, At, Sending, connVars
<1> QED
  BY <1>1, <1>2, <1>3, <1>4, <1>5

\* A message for the center is copied, or cannot be.
LEMMA CopySerials ==
    ASSUME IInv, SerialInv, NEW t \in Threads, Copy(t) \/ CopyFails(t)
    PROVE  SerialInv'
<1>1. CASE Copy(t)
  BY <1>1, Aside, Names DEF IInv, TypeOK, Copy, Take, Goto, At, Sending, connVars
<1>2. CASE CopyFails(t) /\ job[t] # None
  BY <1>2, ThrowAside, Names DEF CopyFails, At
<1>3. CASE CopyFails(t) /\ job[t] = None
  BY <1>3, Aside, Names DEF IInv, TypeOK, CopyFails, At, Sending
<1> QED
  BY <1>1, <1>2, <1>3

\* A message is handled; what is passed on to a terminal or answered is sent by
\* io, which has no report in hand then.
LEMMA HandleSerials ==
    ASSUME IInv, SerialInv, HandleStep
    PROVE  SerialInv'
<1>1. CASE HandleReport
  BY <1>1, Aside, Names DEF IInv, TypeOK, HandleReport, Take, Goto, At, Sending, connVars
<1>2. CASE HandleFails \/ HandleOverflows
  <2>1. job["io"] # None
    BY <1>2, Names DEF IInv, StackOK, OnStack, HandleFails, HandleOverflows, At
  <2> QED
    BY <1>2, <2>1, ThrowAside, Names DEF HandleFails, HandleOverflows, At
<1>3. CASE HandleLocally
  BY <1>3, Aside, Names DEF IInv, TypeOK, HandleLocally, Goto, At, Sending, connVars
<1>4. CASE Reply
  BY <1>4, Aside, Names DEF IInv, TypeOK, Reply, NoSlots, Goto, At, Sending, connVars
<1>5. CASE NoReply
  BY <1>5, Aside, Names DEF IInv, TypeOK, NoReply, Return, Goto, At, Sending, connVars
<1>6. ASSUME NEW c \in Terminals, HandleForward(c) PROVE SerialInv'
  <2>1. slot["io"]["fwd"] = None
    BY <1>6, Names DEF IInv, StackOK, OnStack, HandleForward, At, Sending
  <2>2. /\ pc["io"] = "handle" /\ pc'["io"] = "count" /\ slot'["io"]["fwd"] = None
        /\ pc'["timer"] = pc["timer"] /\ dest'["timer"] = dest["timer"]
        /\ slot'["timer"] = slot["timer"]
    BY <1>6, <2>1, Names DEF IInv, TypeOK, HandleForward, Take, Goto, At
  <2> QED
    BY <1>6, <2>2, Aside, Names DEF HandleForward, connVars
<1> QED
  BY <1>1, <1>2, <1>3, <1>4, <1>5, <1>6 DEF HandleStep

\* A message begins, or finds no chunk; a connection fails or is closed.
LEMMA ConnSerials ==
    ASSUME IInv, SerialInv, NEW c \in Conns,
           \/ BeginHandle(c) \/ BeginFails(c) \/ SendFailed(c)
           \/ \E t \in Threads : Close(t, c)
    PROVE  SerialInv'
<1>1. CASE BeginHandle(c)
  BY <1>1, Aside, Names DEF IInv, TypeOK, BeginHandle, Take, Goto, Idle, Sending, connVars
<1>2. CASE BeginFails(c)
  BY <1>2, DoErrorAside, Names DEF BeginFails, Idle
<1>3. CASE SendFailed(c)
  <2>1. \A d \in Conns : op'[d] = "done" <=> op[d] = "done"
    BY <1>3 DEF IInv, TypeOK, SendFailed
  <2> QED
    BY <1>3, <2>1, DoErrorAside, Names DEF SendFailed, Idle
<1>4. ASSUME NEW t \in Threads, Close(t, c) PROVE SerialInv'
  BY <1>4, DoErrorAside DEF Close, Idle
<1> QED
  BY <1>1, <1>2, <1>3, <1>4

\* trySend() reads m_serialNum ...
LEMMA CountSerials ==
    ASSUME IInv, SerialInv, NEW t \in Threads, Count(t)
    PROVE  SerialInv'
<1>1. /\ pc[t] = "count" /\ pc' = [pc EXCEPT ![t] = "number"]
      /\ num' = [num EXCEPT ![t] = serial[dest[t]]]
      /\ UNCHANGED <<connVars, slot, dest>>
  BY DEF Count, Goto, At
<1>2. OnlyCenter'
  BY <1>1, Names DEF IInv, TypeOK, SerialInv, OnlyCenter, Sending
<1>3. ASSUME NEW c \in Terminals PROVE Right(c)'
  <2>1. Right(c)
    BY DEF SerialInv
  <2>2. CASE t = "timer"
    BY <1>1, <2>1, <2>2, Untouched, Names DEF IInv, TypeOK, connVars
  <2>3. CASE t = "io"
    <3>1. Ahead(c)' = Ahead(c) /\ Counting(c)'
      BY <1>1, <2>3, Names DEF IInv, TypeOK, Ahead, Counting, connVars
    <3> QED
      BY <1>1, <2>1, <3>1 DEF Right, Consecutive, connVars
  <2> QED
    BY <2>2, <2>3, Names
<1> QED
  BY <1>2, <1>3 DEF SerialInv

\* ... and writes it back: for a terminal nobody else has counted meanwhile.
LEMMA NumberSerials ==
    ASSUME IInv, SerialInv, NEW t \in Threads, Number(t)
    PROVE  SerialInv'
<1>1. /\ pc[t] = "number" /\ pc' = [pc EXCEPT ![t] = "push"]
      /\ serial' = [serial EXCEPT ![dest[t]] = After(num[t])]
      /\ UNCHANGED <<queue, op, alive, sent, slot, dest, num>>
  BY DEF Number, Goto, At, After
<1>2. OnlyCenter'
  BY <1>1, Names DEF IInv, TypeOK, SerialInv, OnlyCenter, Sending
<1>3. ASSUME NEW c \in Terminals PROVE Right(c)'
  <2>1. Right(c)
    BY DEF SerialInv
  <2>2. CASE t = "timer"
    <3>1. dest[t] = Center /\ c # Center
      BY <1>1, <2>2, NamesAssumption DEF SerialInv, OnlyCenter, Sending
    <3>2. serial'[c] = serial[c] /\ pc'["io"] = pc["io"]
      BY <1>1, <2>2, <3>1, Names DEF IInv, TypeOK
    <3> QED
      BY <1>1, <2>1, <3>2, Untouched
  <2>3. CASE t = "io" /\ dest["io"] # c
    <3>1. serial'[c] = serial[c]
      BY <1>1, <2>3, Names DEF IInv, TypeOK
    <3>2. Ahead(c)' = Ahead(c) /\ Counting(c)'
      BY <1>1, <2>3, <3>1 DEF Ahead, Counting
    <3> QED
      BY <1>1, <2>1, <3>2 DEF Right, Consecutive
  <2>4. CASE t = "io" /\ dest["io"] = c
    <3>1. serial'[c] = After(num["io"]) /\ pc'["io"] = "push"
      BY <1>1, <2>4, Names DEF IInv, TypeOK
    <3>2. alive[c] => Ahead(c)' = Ahead(c)
      BY <1>1, <2>1, <2>4, <3>1 DEF Right, Ahead, Counting
    <3>3. Counting(c)'
      BY <1>1, <2>4, <3>1 DEF Counting
    <3> QED
      BY <1>1, <2>1, <3>2, <3>3 DEF Right, Consecutive
  <2> QED
    BY <2>2, <2>3, <2>4, Names
<1> QED
  BY <1>2, <1>3 DEF SerialInv

\* Only a number of the center's connection is lost with an exception.
LEMMA SerializeFailsSerials ==
    ASSUME IInv, SerialInv, NEW t \in Threads, SerializeFails(t)
    PROVE  SerialInv'
<1>1. t = "io" /\ pc["io"] = "number" /\ job[t] # None
  BY Names DEF IInv, StackOK, SerializeFails, At
<1>2. dest["io"] = Center
  BY <1>1, Names DEF SerialInv, OnlyCenter, SerializeFails, Sending
<1>3. \A c \in Terminals : serial'[c] = serial[c]
  BY <1>1, <1>2, NamesAssumption, Names DEF IInv, TypeOK, SerializeFails
<1>4. dest'["timer"] = dest["timer"]
  BY <1>1, Names DEF IInv, TypeOK, SerializeFails
<1> QED
  BY <1>1, <1>3, <1>4, ThrowAside DEF SerializeFails

\* The message that is pushed carries the number to come.
LEMMA PushSerials ==
    ASSUME IInv, SerialInv, NEW t \in Threads, Push(t)
    PROVE  SerialInv'
<1> DEFINE m == [chunk |-> slot[t]["msg"], num |-> num[t]]
<1>1. /\ pc[t] = "push" /\ pc' = [pc EXCEPT ![t] = "kick"]
      /\ queue' = [queue EXCEPT ![dest[t]] = Append(@, m)]
      /\ slot' = [slot EXCEPT ![t]["msg"] = None]
      /\ UNCHANGED <<op, serial, alive, sent, dest, num>>
  BY DEF Push, Goto, At
<1>2. m \in Messages /\ m.num = num[t]
  <2>1. slot[t]["msg"] # None
    BY <1>1 DEF IInv, StackOK, OnStack, Sending
  <2> QED
    BY <2>1, Names DEF IInv, TypeOK, Messages
<1> HIDE DEF m
<1>3. OnlyCenter'
  BY <1>1, Names DEF IInv, TypeOK, SerialInv, OnlyCenter, Sending
<1>4. ASSUME NEW c \in Terminals PROVE Right(c)'
  <2>1. Right(c) /\ c \in Conns
    BY Names DEF SerialInv
  <2>2. CASE dest[t] # c
    <3>1. queue'[c] = queue[c]
      BY <1>1, <2>1, <2>2 DEF IInv, TypeOK
    <3>2. t # "io" => pc'["io"] = pc["io"]
      <4>1. pc \in [Threads -> Places]
        BY DEF IInv, TypeOK
      <4> QED
        BY <1>1, <4>1, Names
    <3>3. dest["io"] = c => pc'["io"] = pc["io"]
      BY <2>2, <3>2
    <3>4. Ahead(c)' = Ahead(c) /\ (Counting(c) => Counting(c)')
      <4>1. dest'["io"] = dest["io"] /\ num'["io"] = num["io"] /\ serial'[c] = serial[c]
        BY <1>1
      <4>2. CASE dest["io"] = c
        BY <3>3, <4>1, <4>2 DEF Ahead, Counting
      <4>3. CASE dest["io"] # c
        BY <4>1, <4>3 DEF Ahead, Counting
      <4> QED
        BY <4>2, <4>3
    <3> QED
      BY <1>1, <2>1, <3>1, <3>4 DEF Right, Consecutive
  <2>3. CASE dest[t] = c
    <3>1. t = "io"
      BY <1>1, <2>3, NamesAssumption, Names DEF SerialInv, OnlyCenter, Sending
    <3>2. queue[c] \in Seq(Messages) /\ queue'[c] = Append(queue[c], m)
      BY <1>1, <2>1, <2>3 DEF IInv, TypeOK
    <3>3. SUFFICES ASSUME alive[c] PROVE Counting(c)' /\ Consecutive(c)'
      BY <1>1 DEF Right
    <3>4. Ahead(c) = m.num /\ serial[c] = After(m.num)
      BY <1>1, <1>2, <2>1, <2>3, <3>1, <3>3 DEF Right, Ahead, Counting
    <3>5. pc'["io"] = "kick"
      BY <1>1, <3>1, Names DEF IInv, TypeOK
    <3>6. Ahead(c)' = After(m.num) /\ Counting(c)'
      BY <1>1, <3>4, <3>5 DEF Ahead, Counting
    <3>7. Numbered(queue[c], m.num)
      BY <2>1, <3>3, <3>4 DEF Right, Consecutive
    <3>8. /\ Numbered(queue'[c], Ahead(c)')
          /\ Front(queue'[c], Ahead(c)') = Front(queue[c], Ahead(c))
      BY <1>2, <3>2, <3>4, <3>6, <3>7, AppendNumbered
    <3> QED
      BY <1>1, <2>1, <3>3, <3>6, <3>8 DEF Right, Consecutive
  <2> QED
    BY <2>2, <2>3
<1> QED
  BY <1>3, <1>4 DEF SerialInv

\* A posted send carries no number of its own.
LEMMA KickSerials ==
    ASSUME IInv, SerialInv, NEW t \in Threads, Kick(t)
    PROVE  SerialInv'
<1>1. dest[t] \in Conns /\ pc[t] = "kick" /\ Post(dest[t]) /\ TypeOK
  BY DEF IInv, TypeOK, StackOK, OnStack, Sending, Kick, At
<1>2. \A c \in Conns : op'[c] = "done" <=> op[c] = "done"
  BY <1>1, PostEffect DEF IInv, FrontInFlight
<1>3. pc'[t] \in {"forwarded", "reply", "idle"} /\ \A u \in Threads \ {t} : pc'[u] = pc[u]
  BY <1>1 DEF TypeOK, Kick, Goto
<1>4. /\ UNCHANGED <<queue, serial, sent, num, alive, slot>>
      /\ \A u \in Threads \ {t} : dest'[u] = dest[u]
  BY <1>1 DEF TypeOK, Kick
<1> QED
  BY <1>1, <1>2, <1>3, <1>4, Aside, Names DEF Sending

\* The kernel takes the front of the list.
LEMMA TransmitSerials ==
    ASSUME IInv, SerialInv, NEW d \in Conns, Transmit(d) \/ TransmitFails(d)
    PROVE  SerialInv'
<1>1. UNCHANGED <<queue, serial, alive, pc, slot, dest, num>>
  BY DEF Transmit, TransmitFails
<1>2. OnlyCenter'
  BY <1>1 DEF SerialInv, OnlyCenter
<1>3. ASSUME NEW c \in Terminals PROVE Right(c)'
  <2>1. Right(c) /\ c \in Conns
    BY Names DEF SerialInv
  <2>2. CASE c = d /\ Transmit(d)
    <3>1. sent'[c] = After(sent[c]) /\ op[c] = "posted" /\ op'[c] = "done"
      BY <2>1, <2>2 DEF IInv, TypeOK, Transmit, After
    <3>2. Ahead(c)' = Ahead(c) /\ (Counting(c) => Counting(c)')
      BY <1>1 DEF Ahead, Counting
    <3> QED
      BY <1>1, <2>1, <3>1, <3>2 DEF Right, Consecutive
  <2>3. CASE c # d \/ TransmitFails(d)
    <3>1. sent'[c] = sent[c] /\ (op'[c] = "done" <=> op[c] = "done")
      BY <2>1, <2>3 DEF IInv, TypeOK, Transmit, TransmitFails
    <3> QED
      BY <1>1, <2>1, <3>1, Untouched
  <2> QED
    BY <2>2, <2>3
<1> QED
  BY <1>2, <1>3 DEF SerialInv

\* The list goes on with the number that the kernel waits for.
LEMMA SendDoneSerials ==
    ASSUME IInv, SerialInv, NEW d \in Conns, SendDone(d)
    PROVE  SerialInv'
<1>1. /\ pc["io"] = "idle" /\ pc' = [pc EXCEPT !["io"] = "kick"]
      /\ op[d] = "done" /\ op' = [op EXCEPT ![d] = "none"]
      /\ queue' = [queue EXCEPT ![d] = Tail(@)]
      /\ dest' = [dest EXCEPT !["io"] = d]
      /\ UNCHANGED <<serial, alive, sent, slot, num>>
  BY DEF SendDone, Goto, Idle
<1>2. pc'["io"] = "kick" /\ pc'["timer"] = pc["timer"] /\ dest'["timer"] = dest["timer"]
  BY <1>1, Names DEF IInv, TypeOK
<1>3. OnlyCenter'
  <2>1. slot["io"]["fwd"] = None
    BY <1>1, Names DEF IInv, StackOK, OnStack, Sending
  <2> QED
    BY <1>1, <1>2, <2>1, Names DEF SerialInv, OnlyCenter
<1>4. ASSUME NEW c \in Terminals PROVE Right(c)'
  <2>1. Right(c) /\ c \in Conns
    BY Names DEF SerialInv
  <2>2. Ahead(c)' = Ahead(c) /\ Counting(c)'
    BY <1>1, <1>2 DEF Ahead, Counting
  <2>3. CASE c # d
    <3>1. queue'[c] = queue[c] /\ op'[c] = op[c]
      BY <1>1, <2>1, <2>3 DEF IInv, TypeOK
    <3> QED
      BY <1>1, <2>1, <2>2, <3>1 DEF Right, Consecutive
  <2>4. CASE c = d
    <3>1. queue[c] # <<>> /\ queue[c] \in Seq(Messages)
      BY <1>1, <2>1, <2>4 DEF IInv, TypeOK, FrontInFlight
    <3>2. queue'[c] = Tail(queue[c]) /\ op'[c] = "none"
      BY <1>1, <2>1, <2>4 DEF IInv, TypeOK
    <3>3. SUFFICES ASSUME alive[c] PROVE Consecutive(c)'
      BY <1>1, <2>2 DEF Right
    <3>4. sent[c] = After(queue[c][1].num)
      BY <1>1, <2>1, <2>4, <3>1, <3>3 DEF Right, Consecutive, Front
    <3>5. /\ Numbered(queue'[c], Ahead(c))
          /\ Front(queue'[c], Ahead(c)) = After(queue[c][1].num)
      BY <2>1, <3>1, <3>2, <3>3, TailNumbered DEF Right, Consecutive
    <3> QED
      BY <1>1, <2>2, <3>2, <3>4, <3>5 DEF Consecutive
  <2> QED
    BY <2>3, <2>4
<1> QED
  BY <1>3, <1>4 DEF SerialInv

\* A connection is destroyed, or another one begins at 0.
LEMMA LifeSerials ==
    ASSUME IInv, SerialInv, NEW d \in Conns, Destroy(d) \/ Reconnect(d)
    PROVE  SerialInv'
<1>1. UNCHANGED <<op, pc, slot, dest, num>>
  BY DEF Destroy, Reconnect
<1>2. OnlyCenter'
  BY <1>1 DEF SerialInv, OnlyCenter
<1>3. ASSUME NEW c \in Terminals PROVE Right(c)'
  <2>1. Right(c) /\ c \in Conns
    BY Names DEF SerialInv
  <2>2. CASE c = d /\ Destroy(d)
    BY <2>1, <2>2 DEF IInv, TypeOK, Destroy, Right
  <2>3. CASE c = d /\ Reconnect(d)
    <3>1. queue[c] = <<>> /\ op[c] = "none" /\ pc["io"] = "idle" /\ queue' = queue
      BY <2>1, <2>3 DEF IInv, ReachableIsAlive, Reconnect, Idle
    <3>2. serial'[c] = 0 /\ sent'[c] = 0
      BY <2>1, <2>3 DEF IInv, TypeOK, Reconnect
    <3>3. Ahead(c)' = 0 /\ Counting(c)'
      BY <1>1, <3>1, <3>2 DEF Ahead, Counting
    <3> QED
      BY <1>1, <3>1, <3>2, <3>3 DEF Right, Consecutive, Numbered, Front
  <2>4. CASE c # d
    <3>1. /\ queue'[c] = queue[c] /\ serial'[c] = serial[c] /\ sent'[c] = sent[c]
          /\ alive'[c] = alive[c]
      BY <2>1, <2>4 DEF IInv, TypeOK, Destroy, Reconnect
    <3> QED
      BY <1>1, <2>1, <3>1, Untouched
  <2> QED
    BY <2>2, <2>3, <2>4
<1> QED
  BY <1>2, <1>3 DEF SerialInv

\* One case for each action of Next.
LEMMA StepSerials ==
    ASSUME IInv, SerialInv, [Next]_vars
    PROVE  SerialInv'
<1>1. ASSUME NEW t \in Threads, ThreadStep(t) PROVE SerialInv'
  BY <1>1, StreamStepSerials, CopySerials, CountSerials, NumberSerials,
     SerializeFailsSerials, PushSerials, KickSerials DEF ThreadStep
<1>2. ASSUME NEW c \in Conns,
             BeginHandle(c) \/ BeginFails(c) \/ (\E t \in Threads : Close(t, c))
      PROVE  SerialInv'
  BY <1>2, ConnSerials
<1>3. ASSUME NEW c \in Conns, Transmit(c) \/ TransmitFails(c) \/ Completion(c)
      PROVE  SerialInv'
  BY <1>3, TransmitSerials, SendDoneSerials, ConnSerials DEF Completion
<1>4. ASSUME NEW c \in Conns, Destroy(c) \/ Reconnect(c) PROVE SerialInv'
  BY <1>4, LifeSerials
<1>5. CASE UNCHANGED vars
  BY <1>5 DEF vars, SerialInv, OnlyCenter, Right, Counting, Consecutive, Ahead
<1> QED
  BY <1>1, <1>2, <1>3, <1>4, <1>5, HandleSerials DEF Next

\* A terminal's messages are sent with consecutive numbers from 0 on, for every
\* width of m_serialNum, although two threads increment such counters.
THEOREM NumbersInOrder == Spec => []TerminalSerials
<1>1. Init => SerialInv
  BY InitSerials
<1>2. IInv /\ SerialInv /\ [Next]_vars => SerialInv'
  BY StepSerials
<1>3. IInv /\ SerialInv => TerminalSerials
  <2> SUFFICES ASSUME IInv, SerialInv, NEW c \in Terminals, op[c] = "posted"
               PROVE  Head(queue[c]).num = sent[c]
    BY DEF TerminalSerials
  <2>1. c \in Conns /\ Right(c)
    BY Names DEF SerialInv
  <2>2. alive[c] /\ queue[c] # <<>>
    BY <2>1 DEF IInv, ReachableIsAlive, FrontInFlight
  <2>3. queue[c] \in Seq(Messages)
    BY <2>1 DEF IInv, TypeOK
  <2>4. sent[c] = queue[c][1].num
    BY <2>1, <2>2 DEF Right, Consecutive, Front
  <2> QED
    BY <2>2, <2>3, <2>4
<1> QED
  BY <1>1, <1>2, <1>3, Invariance, PTL DEF Spec
=============================================================================
