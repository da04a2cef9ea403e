---------------------------- MODULE InputProofs ----------------------------
(***************************************************************************)
(* Input, for any number of tasks, streams, elements and interrupts.       *)
(* First streams, events and waiting readers: who owns a stream, whose     *)
(* event a reader waits for, and that each task sees a mailbox of its own. *)
(* Then the ring, what pushing and popping do to Contents, and the worker  *)
(* of the interrupts: that it never sleeps on work and that every step of  *)
(* it is a step of IntQueue or a stutter.                                  *)
(***************************************************************************)
EXTENDS InputManager, IntWorker, FiniteSetTheorems, SequenceTheorems, TLAPS

\* Every stream in use has one user, which is what its count says.
Owned ==
  /\ \A t, u \in Tasks : sids[t] # None /\ sids[t] = sids[u] => t = u
  /\ \A t \in Tasks : sids[t] # None => sids[t] \in active
  /\ \A s \in active : \E t \in Tasks : sids[t] = s
  /\ \A s \in Sid : refs[s] = IF s \in active THEN 1 ELSE 0

\* A task is inside a call only with a stream, and asleep only at its yield.
Placed ==
  /\ \A t \in Tasks : pc[t] \notin {"none", "run", "dead"} => sids[t] # None
  /\ \A t \in Tasks : pc[t] = "none" => sids[t] = None
  /\ \A t \in waiting : pc[t] = "yield"

\* A pop begun has something to pop, and has copied it.
Popping ==
  \A t \in Tasks : pc[t] = "advance" =>
    queue[sids[t]] # <<>> /\ copied[t] = Head(queue[sids[t]])

\* Whoever has no stream has read nothing.
Unread == \A t \in Tasks : sids[t] = None => last[t] = None

InputInv ==
  /\ TypeOK /\ Owned /\ EventsLive /\ WaitersFound /\ Placed
  /\ PolledReadReturns /\ Popping /\ Unread

---------------------------------------------------------------------------
(* Facts about sequences and about the choice of a stream.                 *)

LEMMA NoneSid == None \notin Sid
BY InputAssumption DEF Sid

LEMMA HeadTail ==
  ASSUME NEW S, NEW q \in Seq(S), q # <<>>
  PROVE  Head(q) \in S /\ Tail(q) \in Seq(S)
OBVIOUS

LEMMA Appended ==
  ASSUME NEW S, NEW q \in Seq(S), NEW x \in S
  PROVE  /\ Append(q, x) \in Seq(S)
         /\ Append(q, x) # <<>>
         /\ q # <<>> => Head(Append(q, x)) = Head(q)
<1>1. Append(q, x) \in Seq(S) /\ Len(Append(q, x)) = Len(q) + 1 OBVIOUS
<1>2. ASSUME q # <<>> PROVE Head(Append(q, x)) = Head(q)
  <2>1. Len(q) >= 1 BY <1>2
  <2>2. Append(q, x)[1] = q[1] BY <2>1
  <2> QED BY <1>1, <2>1, <2>2
<1> QED BY <1>1, <1>2

\* A task starts without a stream if none is free; otherwise with one that
\* nobody uses, and an event that is not allocated.
LEMMA Registered ==
  ASSUME TypeOK, NEW t \in Tasks, register_to_new_stream(t)
  PROVE  \/ /\ sids' = [sids EXCEPT ![t] = None]
            /\ UNCHANGED <<streams, events>>
         \/ \E s \in Sid \ active, e \in Events \ live :
              /\ active' = active \union {s}
              /\ event' = [event EXCEPT ![s] = e]
              /\ queue' = [queue EXCEPT ![s] = <<>>]
              /\ live' = live \union {e}
              /\ listed' = [listed EXCEPT ![e] = {}]
              /\ refs' = [refs EXCEPT ![s] = 1]
              /\ sids' = [sids EXCEPT ![t] = s]
<1>1. CASE _find_free_stream = {} BY <1>1 DEF register_to_new_stream
<1>2. CASE _find_free_stream # {}
  <2>1. PICK s \in _find_free_stream, e \in Events \ live :
          /\ _input_stream_init_default(s, e)
          /\ refs' = [refs EXCEPT ![s] = 1]
          /\ sids' = [sids EXCEPT ![t] = s]
    BY <1>2 DEF register_to_new_stream
  <2>2. s \in Sid \ active BY DEF _find_free_stream
  <2>3. live \ {} = live OBVIOUS
  <2> QED BY <2>1, <2>2, <2>3 DEF _input_stream_init_default
<1> QED BY <1>1, <1>2

LEMMA OthersKeepSids ==
  ASSUME TypeOK, NEW t \in Tasks, register_to_new_stream(t)
  PROVE  \A u \in Tasks \ {t} : sids'[u] = sids[u]
<1>1. \E x \in Sid \union {None} : sids' = [sids EXCEPT ![t] = x] BY Registered
<1> QED BY <1>1 DEF TypeOK

\* The last user of a stream takes it with him, and a stream has one user.
LEMMA Unregistered ==
  ASSUME TypeOK, Owned, NEW t \in Tasks, Unregister(t)
  PROVE  /\ sids' = [sids EXCEPT ![t] = None]
         /\ \/ /\ sids[t] = None
               /\ UNCHANGED <<streams, events>>
            \/ /\ sids[t] \in active
               /\ active' = active \ {sids[t]}
               /\ event' = [event EXCEPT ![sids[t]] = None]
               /\ queue' = [queue EXCEPT ![sids[t]] = <<>>]
               /\ live' = live \ {event[sids[t]]}
               /\ listed' = [listed EXCEPT ![event[sids[t]]] = {}]
               /\ refs' = [refs EXCEPT ![sids[t]] = 0]
<1>1. sids' = [sids EXCEPT ![t] = None] BY DEF Unregister
<1>2. CASE sids[t] \notin active BY <1>1, <1>2 DEF Unregister, unregister_from_stream, Owned
<1>3. CASE sids[t] \in active
  <2>1. unregister_from_stream(sids[t], t) BY <1>3 DEF Unregister
  <2>2. refs[sids[t]] = 1 BY <1>3 DEF Owned, TypeOK
  <2>3. refs' = [refs EXCEPT ![sids[t]] = 0] BY <2>1, <2>2 DEF unregister_from_stream
  <2> QED BY <1>1, <1>3, <2>1, <2>2, <2>3 DEF unregister_from_stream
<1> QED BY <1>2, <1>3

---------------------------------------------------------------------------
(* The invariant, conjunct by conjunct.                                    *)

LEMMA TypeStep == InputInv /\ [Next]_vars => TypeOK'
<1> SUFFICES ASSUME InputInv, [Next]_vars PROVE TypeOK' OBVIOUS
<1> USE InputAssumption DEF InputInv, TypeOK, streams, events, Place, Tasks
<1>1. CASE AddInput
  BY <1>1 DEF AddInput, input_manager_add_input_el, PushedBy
<1>2. ASSUME NEW t \in Tasks, Spawn(t) PROVE TypeOK'
  <2>1. pc' \in [Tasks -> Place] BY <1>2 DEF Spawn
  <2>2. CASE sids' = [sids EXCEPT ![t] = None] /\ UNCHANGED <<streams, events>>
    BY <1>2, <2>1, <2>2 DEF Spawn
  <2>3. ASSUME NEW s \in Sid \ active, NEW e \in Events \ live,
               active' = active \union {s},
               event' = [event EXCEPT ![s] = e],
               queue' = [queue EXCEPT ![s] = <<>>],
               live' = live \union {e},
               listed' = [listed EXCEPT ![e] = {}],
               refs' = [refs EXCEPT ![s] = 1],
               sids' = [sids EXCEPT ![t] = s]
        PROVE  TypeOK'
    <3>1. active' \subseteq Sid /\ live' \subseteq Events BY <2>3
    <3>2. queue' \in [Sid -> Seq(Keys)] BY <2>3
    <3>3. /\ event' \in [Sid -> Events \union {None}] /\ refs' \in [Sid -> Nat]
          /\ sids' \in [Tasks -> Sid \union {None}]
      BY <2>3
    <3>4. listed' \in [Events -> SUBSET Tasks] BY <2>3
    <3> QED BY <1>2, <2>1, <3>1, <3>2, <3>3, <3>4 DEF Spawn
  <2> QED BY <1>2, <2>2, <2>3, Registered DEF Spawn
<1>3. ASSUME NEW t \in Tasks, Exit(t) PROVE TypeOK'
  BY <1>3 DEF Exit
<1>4. ASSUME NEW t \in Tasks, Unregister(t) PROVE TypeOK'
  <2>1. /\ pc' \in [Tasks -> Place] /\ last' \in [Tasks -> Keys \union {None}]
        /\ UNCHANGED <<waiting, held, copied, parity>>
    BY <1>4 DEF Unregister
  <2>2. sids' \in [Tasks -> Sid \union {None}] BY <1>4, Unregistered
  <2>3. CASE UNCHANGED <<streams, events>>
    BY <2>1, <2>2, <2>3
  <2>4. CASE ~ UNCHANGED <<streams, events>>
    <3>1. /\ sids[t] \in active
          /\ active' = active \ {sids[t]}
          /\ event' = [event EXCEPT ![sids[t]] = None]
          /\ queue' = [queue EXCEPT ![sids[t]] = <<>>]
          /\ live' = live \ {event[sids[t]]}
          /\ listed' = [listed EXCEPT ![event[sids[t]]] = {}]
          /\ refs' = [refs EXCEPT ![sids[t]] = 0]
      BY <1>4, <2>4, Unregistered
    <3>2. queue' \in [Sid -> Seq(Keys)] BY <3>1
    <3>3. event' \in [Sid -> Events \union {None}] /\ refs' \in [Sid -> Nat] BY <3>1
    <3>4. listed' \in [Events -> SUBSET Tasks] BY <3>1
    <3> QED BY <2>1, <2>2, <3>1, <3>2, <3>3, <3>4
  <2> QED BY <2>3, <2>4
<1>5. ASSUME NEW t \in Tasks, Call(t) PROVE TypeOK'
  <2>1. pc' \in [Tasks -> Place] BY <1>5 DEF Call, sys_read, sys_poll, terminal_get_input_line, Goto
  <2>2. UNCHANGED <<streams, events, sids, waiting, held, copied, last, parity>>
    BY <1>5 DEF Call
  <2> QED BY <2>1, <2>2
<1>6. ASSUME NEW t \in Tasks, ReadPolled(t) PROVE TypeOK'
  BY <1>6 DEF ReadPolled, Goto
<1>7. ASSUME NEW t \in Tasks, Get(t) PROVE TypeOK'
  <2>1. sids[t] \in active /\ queue[sids[t]] # <<>> => Head(queue[sids[t]]) \in Keys
    BY HeadTail
  <2>2. pc' \in [Tasks -> Place] BY <1>7 DEF Get, Goto
  <2>3. copied' \in [Tasks -> Keys \union {None}] BY <1>7, <2>1 DEF Get
  <2> QED BY <1>7, <2>2, <2>3 DEF Get
<1>8. ASSUME NEW t \in Tasks, Advance(t) PROVE TypeOK'
  <2>1. sids[t] \in Sid /\ queue[sids[t]] # <<>> BY <1>8 DEF Advance, Runs, Popping, Placed
  <2>2. Tail(queue[sids[t]]) \in Seq(Keys) BY <2>1, HeadTail
  <2>3. queue' \in [Sid -> Seq(Keys)]
    <3>1. queue' = [queue EXCEPT ![sids[t]] = Tail(queue[sids[t]])] BY <1>8 DEF Advance
    <3> HIDE DEF Tasks, Place
    <3> QED BY <2>1, <2>2, <3>1
  <2>4. pc' \in [Tasks -> Place] BY <1>8 DEF Advance, Goto
  <2>5. last' \in [Tasks -> Keys \union {None}] /\ copied' \in [Tasks -> Keys \union {None}]
    BY <1>8 DEF Advance
  <2>6. UNCHANGED <<active, event, refs, events, sids, waiting, held, parity>>
    BY <1>8 DEF Advance
  <2> QED BY <2>3, <2>4, <2>5, <2>6
<1>9. ASSUME NEW t \in Tasks, Wait(t) PROVE TypeOK'
  <2>1. sids[t] \in active => event[sids[t]] \in Events
    BY DEF EventsLive
  <2>2. pc' \in [Tasks -> Place] BY <1>9 DEF Wait, Goto
  <2>3. held' \in [Tasks -> Events \union {None}] BY <1>9, <2>1 DEF Wait
  <2> QED BY <1>9, <2>2, <2>3 DEF Wait
<1>10. ASSUME NEW t \in Tasks, Add(t) PROVE TypeOK'
  BY <1>10 DEF Add, Goto, Runs, EventsLive
<1>11. ASSUME NEW t \in Tasks, Woken(t) PROVE TypeOK'
  BY <1>11 DEF Woken, Goto
<1>12. CASE UNCHANGED vars BY <1>12 DEF vars
<1> QED
  BY <1>1, <1>2, <1>3, <1>4, <1>5, <1>6, <1>7, <1>8, <1>9, <1>10, <1>11, <1>12 DEF Next, Reading

\* Only creation and destruction touch the streams and who uses them.
LEMMA StreamsStay ==
  ASSUME [Next]_vars, \A t \in Tasks : ~ Spawn(t) /\ ~ Unregister(t)
  PROVE  UNCHANGED <<active, event, refs, live, sids>>
BY DEF Next, Reading, vars, streams, events, AddInput, Exit, Call, ReadPolled, Get, Advance,
       Wait, Add, Woken

LEMMA OwnedStep == InputInv /\ [Next]_vars => Owned'
<1> SUFFICES ASSUME InputInv, [Next]_vars PROVE Owned' OBVIOUS
<1> USE InputAssumption DEF InputInv
<1>1. ASSUME NEW t \in Tasks, Spawn(t) PROVE Owned'
  <2>1. sids[t] = None BY <1>1 DEF Spawn, Placed
  <2>2. CASE sids' = [sids EXCEPT ![t] = None] /\ UNCHANGED <<streams, events>>
    <3>1. sids' = sids BY <2>1, <2>2 DEF TypeOK
    <3> QED BY <2>2, <3>1 DEF Owned, streams
  <2>3. ASSUME NEW s \in Sid \ active,
               active' = active \union {s},
               refs' = [refs EXCEPT ![s] = 1],
               sids' = [sids EXCEPT ![t] = s]
        PROVE  Owned'
    <3>1. \A u \in Tasks : sids[u] # s BY DEF Owned, TypeOK, Sid
    <3>2. \A u \in Tasks : sids'[u] = IF u = t THEN s ELSE sids[u] BY <2>3 DEF TypeOK
    <3>3. \A r \in Sid : refs'[r] = IF r = s THEN 1 ELSE refs[r] BY <2>3 DEF TypeOK
    <3>4. \A u, v \in Tasks : sids'[u] # None /\ sids'[u] = sids'[v] => u = v
      BY <3>1, <3>2 DEF Owned
    <3>5. \A u \in Tasks : sids'[u] # None => sids'[u] \in active'
      BY <2>3, <3>2 DEF Owned
    <3>6. \A r \in active' : \E u \in Tasks : sids'[u] = r
      BY <2>1, <2>3, <3>2 DEF Owned, TypeOK, Sid
    <3>7. \A r \in Sid : refs'[r] = IF r \in active' THEN 1 ELSE 0
      BY <2>3, <3>3 DEF Owned
    <3> QED BY <3>4, <3>5, <3>6, <3>7 DEF Owned
  <2> QED BY <1>1, <2>2, <2>3, Registered DEF Spawn
<1>2. ASSUME NEW t \in Tasks, Unregister(t) PROVE Owned'
  <2>1. sids' = [sids EXCEPT ![t] = None] BY <1>2, Unregistered
  <2>2. \A u \in Tasks : sids'[u] = IF u = t THEN None ELSE sids[u] BY <2>1 DEF TypeOK
  <2>3. CASE sids[t] = None /\ UNCHANGED streams
    <3>1. \A u \in Tasks : sids'[u] = sids[u] BY <2>2, <2>3
    <3> QED BY <2>3, <3>1 DEF Owned, streams
  <2>4. CASE /\ sids[t] \in active
             /\ active' = active \ {sids[t]}
             /\ refs' = [refs EXCEPT ![sids[t]] = 0]
    <3>1. \A r \in Sid : refs'[r] = IF r = sids[t] THEN 0 ELSE refs[r] BY <2>4 DEF TypeOK
    <3>0. sids[t] # None BY <2>4, NoneSid DEF TypeOK
    <3>2. \A u \in Tasks \ {t} : sids[u] # sids[t] BY <3>0 DEF Owned
    <3>3. \A u, v \in Tasks : sids'[u] # None /\ sids'[u] = sids'[v] => u = v
      BY <2>2 DEF Owned
    <3>4. \A u \in Tasks : sids'[u] # None => sids'[u] \in active'
      BY <2>2, <2>4, <3>2 DEF Owned
    <3>5. \A r \in active' : \E u \in Tasks : sids'[u] = r
      <4> TAKE r \in active'
      <4>1. PICK u \in Tasks : sids[u] = r BY <2>4 DEF Owned
      <4> QED BY <2>2, <2>4, <4>1
    <3>6. \A r \in Sid : refs'[r] = IF r \in active' THEN 1 ELSE 0
      BY <2>4, <3>1 DEF Owned
    <3> QED BY <3>3, <3>4, <3>5, <3>6 DEF Owned
  <2> QED BY <1>2, <2>3, <2>4, Unregistered
<1>3. CASE \A t \in Tasks : ~ Spawn(t) /\ ~ Unregister(t)
  BY <1>3, StreamsStay DEF Owned
<1> QED BY <1>1, <1>2, <1>3

LEMMA PlacedStep == InputInv /\ [Next]_vars => Placed'
<1> SUFFICES ASSUME InputInv, [Next]_vars PROVE Placed' OBVIOUS
<1> USE InputAssumption DEF InputInv, Placed
<1>1. CASE AddInput
  BY <1>1 DEF AddInput, input_manager_add_input_el
<1>2. ASSUME NEW t \in Tasks, Spawn(t) PROVE Placed'
  <2>1. \A u \in Tasks : pc'[u] = IF u = t THEN "run" ELSE pc[u] BY <1>2 DEF Spawn, TypeOK
  <2>2. \A u \in Tasks \ {t} : sids'[u] = sids[u] BY <1>2, OthersKeepSids DEF Spawn
  <2>3. waiting' = waiting /\ t \notin waiting BY <1>2 DEF Spawn
  <2> QED BY <2>1, <2>2, <2>3 DEF TypeOK
<1>3. ASSUME NEW t \in Tasks, Unregister(t) PROVE Placed'
  <2>1. \A u \in Tasks : pc'[u] = IF u = t THEN "none" ELSE pc[u] BY <1>3 DEF Unregister, TypeOK
  <2>2. \A u \in Tasks : sids'[u] = IF u = t THEN None ELSE sids[u] BY <1>3 DEF Unregister, TypeOK
  <2>3. waiting' = waiting /\ t \notin waiting BY <1>3 DEF Unregister
  <2> QED BY <2>1, <2>2, <2>3 DEF TypeOK
<1>4. ASSUME NEW t \in Tasks, NEW place,
             pc' = [pc EXCEPT ![t] = place],
             place # "none",
             place \in {"run", "dead"} \/ sids[t] # None,
             UNCHANGED sids,
             \/ waiting' = waiting /\ t \notin waiting
             \/ waiting' = waiting \union {t} /\ place = "yield"
      PROVE  Placed'
  <2>1. \A u \in Tasks : pc'[u] = IF u = t THEN place ELSE pc[u] BY <1>4 DEF TypeOK
  <2> QED BY <1>4, <2>1 DEF TypeOK
<1>5. ASSUME NEW t \in Tasks, Exit(t) PROVE Placed'
  BY <1>4, <1>5 DEF Exit
<1>6. ASSUME NEW t \in Tasks, Call(t) PROVE Placed'
  BY <1>4, <1>6 DEF Call, sys_read, sys_poll, terminal_get_input_line, Goto, Runs
<1>7. ASSUME NEW t \in Tasks, Reading(t) PROVE Placed'
  <2>1. sids[t] # None BY <1>7 DEF Reading, ReadPolled, Get, Advance, Wait, Add, Woken, Runs
  <2>2. CASE ReadPolled(t) BY <1>4, <2>1, <2>2 DEF ReadPolled, Goto, Runs
  <2>3. CASE Get(t) BY <1>4, <2>1, <2>3 DEF Get, Goto, Runs
  <2>4. CASE Advance(t) BY <1>4, <2>1, <2>4 DEF Advance, Goto, Runs
  <2>5. CASE Wait(t) BY <1>4, <2>1, <2>5 DEF Wait, Goto, Runs
  <2>6. CASE Add(t) BY <1>4, <2>1, <2>6 DEF Add, Goto, Runs
  <2>7. CASE Woken(t) BY <1>4, <2>1, <2>7 DEF Woken, Goto, Runs
  <2> QED BY <1>7, <2>2, <2>3, <2>4, <2>5, <2>6, <2>7 DEF Reading
<1>8. CASE UNCHANGED vars BY <1>8 DEF vars
<1> QED BY <1>1, <1>2, <1>3, <1>5, <1>6, <1>7, <1>8 DEF Next

LEMMA EventsStep == InputInv /\ [Next]_vars => EventsLive'
<1> SUFFICES ASSUME InputInv, [Next]_vars PROVE EventsLive' OBVIOUS
<1> USE InputAssumption DEF InputInv
<1>1. ASSUME NEW t \in Tasks, Spawn(t) PROVE EventsLive'
  <2>1. \A u \in Tasks : pc'[u] = "add" => pc[u] = "add" /\ u # t
    BY <1>1 DEF Spawn, TypeOK
  <2>2. held' = held BY <1>1 DEF Spawn
  <2>3. CASE sids' = [sids EXCEPT ![t] = None] /\ UNCHANGED <<streams, events>>
    BY <2>1, <2>2, <2>3 DEF EventsLive, TypeOK, streams, events
  <2>4. ASSUME NEW s \in Sid \ active, NEW e \in Events \ live,
               active' = active \union {s},
               event' = [event EXCEPT ![s] = e],
               live' = live \union {e},
               sids' = [sids EXCEPT ![t] = s]
        PROVE  EventsLive'
    <3>1. \A r \in Sid : event'[r] = IF r = s THEN e ELSE event[r] BY <2>4 DEF TypeOK
    <3>2. \A u \in Tasks : pc[u] = "add" => sids[u] \in active BY DEF Placed, Owned
    <3>3. \A u \in Tasks : pc'[u] = "add" => held'[u] \in live' /\ held'[u] = event'[sids'[u]]
      BY <2>1, <2>2, <2>4, <3>1, <3>2 DEF EventsLive, TypeOK
    <3>4. live' = {event'[r] : r \in active'} BY <2>4, <3>1 DEF EventsLive, TypeOK
    <3>5. \A r \in active : event[r] \in live BY DEF EventsLive
    <3>6. \A q, r \in active' : event'[q] = event'[r] => q = r
      BY <2>4, <3>1, <3>5 DEF EventsLive, TypeOK
    <3> QED BY <3>3, <3>4, <3>6 DEF EventsLive
  <2> QED BY <1>1, <2>3, <2>4, Registered DEF Spawn
<1>2. ASSUME NEW t \in Tasks, Unregister(t) PROVE EventsLive'
  <2>1. \A u \in Tasks : pc'[u] = "add" => pc[u] = "add" /\ u # t
    BY <1>2 DEF Unregister, TypeOK
  <2>2. held' = held BY <1>2 DEF Unregister
  <2>3. \A u \in Tasks \ {t} : sids'[u] = sids[u] BY <1>2 DEF Unregister, TypeOK
  <2>4. CASE UNCHANGED <<streams, events>>
    BY <2>1, <2>2, <2>3, <2>4 DEF EventsLive, streams, events
  <2>5. CASE /\ sids[t] \in active
             /\ active' = active \ {sids[t]}
             /\ event' = [event EXCEPT ![sids[t]] = None]
             /\ live' = live \ {event[sids[t]]}
    <3>1. \A r \in Sid : event'[r] = IF r = sids[t] THEN None ELSE event[r] BY <2>5 DEF TypeOK
    <3>2. \A r \in active' : event'[r] = event[r] /\ event[r] # event[sids[t]]
      BY <2>5, <3>1 DEF EventsLive, TypeOK
    <3>3. ASSUME NEW u \in Tasks, pc'[u] = "add"
          PROVE  held'[u] \in live' /\ held'[u] = event'[sids'[u]]
      <4>1. pc[u] = "add" /\ u # t BY <2>1, <3>3
      <4>2. sids[u] \in active /\ sids[u] # None BY <4>1 DEF Placed, Owned
      <4>3. sids[u] # sids[t] BY <4>1, <4>2 DEF Owned
      <4>4. sids[u] \in active' BY <2>5, <4>2, <4>3
      <4> QED BY <2>2, <2>3, <2>5, <3>2, <4>1, <4>4 DEF EventsLive
    <3>4. live' = {event'[r] : r \in active'} BY <2>5, <3>2 DEF EventsLive
    <3>5. \A q, r \in active' : event'[q] = event'[r] => q = r
      BY <2>5, <3>2 DEF EventsLive
    <3> QED BY <3>3, <3>4, <3>5 DEF EventsLive
  <2> QED BY <1>2, <2>4, <2>5, Unregistered
<1>3. ASSUME UNCHANGED <<active, event, live, sids>>,
             \A u \in Tasks : pc'[u] = "add" =>
               \/ pc[u] = "add" /\ held'[u] = held[u]
               \/ sids[u] \in active /\ held'[u] = event[sids[u]]
      PROVE  EventsLive'
  BY <1>3 DEF EventsLive
<1>4. ASSUME NEW t \in Tasks, Wait(t) PROVE EventsLive'
  <2>1. UNCHANGED <<active, event, live, sids>> BY <1>4 DEF Wait, streams, events
  <2>2. \A u \in Tasks \ {t} : pc'[u] = pc[u] /\ held'[u] = held[u]
    BY <1>4 DEF Wait, Goto, TypeOK
  <2>3. pc'[t] = "add" => sids[t] \in active /\ held'[t] = event[sids[t]]
    BY <1>4 DEF Wait, Goto, TypeOK
  <2> QED BY <1>3, <2>1, <2>2, <2>3
<1>5. ASSUME NEW t \in Tasks, Add(t) PROVE EventsLive'
  <2>1. UNCHANGED <<active, event, live, sids>> BY <1>5 DEF Add, streams
  <2>2. \A u \in Tasks : pc'[u] = "add" => pc[u] = "add" /\ held'[u] = held[u]
    BY <1>5 DEF Add, Goto, TypeOK
  <2> QED BY <1>3, <2>1, <2>2
<1>6. ASSUME NEW t \in Tasks,
             Exit(t) \/ Call(t) \/ ReadPolled(t) \/ Get(t) \/ Advance(t) \/ Woken(t)
      PROVE  EventsLive'
  <2>1. UNCHANGED <<active, event, live, sids, held>>
    BY <1>6 DEF Exit, Call, ReadPolled, Get, Advance, Woken, streams, events
  <2>2. \A u \in Tasks : pc'[u] = "add" => pc[u] = "add"
    <3>1. \E place \in Place \ {"add"} : pc' = [pc EXCEPT ![t] = place]
      <4>1. CASE Call(t)
        BY <4>1 DEF Call, sys_read, sys_poll, terminal_get_input_line, Goto, Place
      <4>2. CASE ~ Call(t)
        BY <1>6, <4>2 DEF Exit, ReadPolled, Get, Advance, Woken, Goto, Place
      <4> QED BY <4>1, <4>2
    <3> QED BY <3>1 DEF TypeOK
  <2> QED BY <1>3, <2>1, <2>2
<1>7. CASE AddInput BY <1>3, <1>7 DEF AddInput
<1>8. CASE UNCHANGED vars BY <1>3, <1>8 DEF vars, streams, events
<1> QED BY <1>1, <1>2, <1>4, <1>5, <1>6, <1>7, <1>8 DEF Next, Reading

LEMMA WaitersStep == InputInv /\ [Next]_vars => WaitersFound'
<1> SUFFICES ASSUME InputInv, [Next]_vars PROVE WaitersFound' OBVIOUS
<1> USE InputAssumption DEF InputInv
<1>1. ASSUME NEW t \in Tasks, Spawn(t) PROVE WaitersFound'
  <2>1. waiting' = waiting /\ t \notin waiting BY <1>1 DEF Spawn, Placed
  <2>2. sids[t] = None BY <1>1 DEF Spawn, Placed
  <2>3. CASE sids' = [sids EXCEPT ![t] = None] /\ UNCHANGED <<streams, events>>
    <3>1. sids' = sids BY <2>2, <2>3 DEF TypeOK
    <3> QED BY <2>1, <2>3, <3>1 DEF WaitersFound, streams, events
  <2>4. ASSUME NEW s \in Sid \ active, NEW e \in Events \ live,
               active' = active \union {s},
               event' = [event EXCEPT ![s] = e],
               listed' = [listed EXCEPT ![e] = {}],
               sids' = [sids EXCEPT ![t] = s]
        PROVE  WaitersFound'
    <3> SUFFICES ASSUME NEW u \in Tasks, NEW r \in active'
                 PROVE  u \in listed'[event'[r]] <=> u \in waiting' /\ sids'[u] = r
      BY DEF WaitersFound
    <3>1. sids'[u] = IF u = t THEN s ELSE sids[u] BY <2>4 DEF TypeOK
    <3>2. CASE r = s
      <4>1. listed'[event'[r]] = {} BY <2>4, <3>2 DEF TypeOK
      <4>2. sids[u] # s BY NoneSid DEF Owned, TypeOK
      <4> QED BY <2>1, <3>1, <3>2, <4>1, <4>2
    <3>3. CASE r # s
      <4>1. r \in active /\ event[r] \in live BY <2>4, <3>3 DEF EventsLive
      <4>2. event'[r] = event[r] BY <2>4, <3>3, <4>1 DEF TypeOK
      <4>3. listed'[event[r]] = listed[event[r]] BY <2>4, <4>1 DEF TypeOK
      <4>4. u \in listed[event[r]] <=> u \in waiting /\ sids[u] = r BY <4>1 DEF WaitersFound
      <4> QED BY <2>1, <3>1, <3>3, <4>2, <4>3, <4>4
    <3> QED BY <3>2, <3>3
  <2> QED BY <1>1, <2>3, <2>4, Registered DEF Spawn
<1>2. ASSUME NEW t \in Tasks, Unregister(t) PROVE WaitersFound'
  <2>1. waiting' = waiting /\ t \notin waiting BY <1>2 DEF Unregister, Placed
  <2>2. \A u \in Tasks \ {t} : sids'[u] = sids[u] BY <1>2 DEF Unregister, TypeOK
  <2>3. CASE UNCHANGED <<streams, events>>
    BY <2>1, <2>2, <2>3 DEF WaitersFound, streams, events
  <2>4. CASE /\ sids[t] \in active
             /\ active' = active \ {sids[t]}
             /\ event' = [event EXCEPT ![sids[t]] = None]
             /\ listed' = [listed EXCEPT ![event[sids[t]]] = {}]
    <3> SUFFICES ASSUME NEW u \in Tasks, NEW r \in active'
                 PROVE  u \in listed'[event'[r]] <=> u \in waiting' /\ sids'[u] = r
      BY DEF WaitersFound
    <3>1. r \in active /\ r # sids[t] BY <2>4
    <3>2. event'[r] = event[r] BY <2>4, <3>1 DEF TypeOK
    <3>3. event[r] # event[sids[t]] /\ event[r] \in Events BY <2>4, <3>1 DEF EventsLive, TypeOK
    <3>4. listed'[event[r]] = listed[event[r]] BY <2>4, <3>3 DEF TypeOK
    <3>5. u \in listed[event[r]] <=> u \in waiting /\ sids[u] = r BY <3>1 DEF WaitersFound
    <3> QED BY <2>1, <2>2, <3>1, <3>2, <3>4, <3>5
  <2> QED BY <1>2, <2>3, <2>4, Unregistered
<1>3. ASSUME NEW t \in Tasks, Add(t) PROVE WaitersFound'
  <2>1. held[t] = event[sids[t]] /\ held[t] \in Events BY <1>3 DEF Add, Runs, EventsLive, TypeOK
  <2>2. sids[t] \in active BY <1>3 DEF Add, Runs, Placed, Owned
  <2>3. UNCHANGED <<active, event, sids>> BY <1>3 DEF Add, streams
  <2>4. waiting' = waiting \union {t} BY <1>3 DEF Add
  <2>5. \A e \in Events : listed'[e] = IF e = held[t] THEN listed[e] \union {t} ELSE listed[e]
    BY <1>3 DEF Add, TypeOK
  <2> SUFFICES ASSUME NEW u \in Tasks, NEW r \in active
               PROVE  u \in listed'[event[r]] <=> u \in waiting' /\ sids[u] = r
    BY <2>3 DEF WaitersFound
  <2>6. event[r] \in Events BY DEF EventsLive, TypeOK
  <2>7. event[r] = held[t] <=> r = sids[t] BY <2>1, <2>2 DEF EventsLive
  <2>8. u \in listed[event[r]] <=> u \in waiting /\ sids[u] = r BY DEF WaitersFound
  <2>9. CASE r = sids[t]
    <3>1. listed'[event[r]] = listed[event[r]] \union {t} BY <2>5, <2>6, <2>7, <2>9
    <3> QED BY <2>4, <2>8, <2>9, <3>1
  <2>10. CASE r # sids[t]
    <3>1. listed'[event[r]] = listed[event[r]] BY <2>5, <2>6, <2>7, <2>10
    <3> QED BY <2>4, <2>8, <2>10, <3>1
  <2> QED BY <2>9, <2>10
<1>4. CASE AddInput
  <2>1. UNCHANGED <<active, event, sids>> BY <1>4 DEF AddInput
  <2>2. /\ waiting' = waiting \ UNION {listed[event[s]] : s \in active}
        /\ \A s \in active : listed'[event[s]] = {}
    <3>1. PICK k \in Keys : input_manager_add_input_el(k) BY <1>4 DEF AddInput
    <3>2. \A s \in active : event[s] \in Events BY DEF EventsLive, TypeOK
    <3> QED BY <3>1, <3>2 DEF input_manager_add_input_el
  <2>3. \A u \in waiting : \E s \in active : u \in listed[event[s]]
    BY DEF WaitersFound, Placed, Owned, TypeOK
  <2>4. waiting' = {} BY <2>2, <2>3
  <2> QED BY <2>1, <2>2, <2>4 DEF WaitersFound
<1>5. CASE UNCHANGED <<active, event, listed, waiting, sids>>
  BY <1>5 DEF WaitersFound
<1>6. ASSUME NEW t \in Tasks,
             Exit(t) \/ Call(t) \/ ReadPolled(t) \/ Get(t) \/ Advance(t) \/ Wait(t) \/ Woken(t)
      PROVE  WaitersFound'
  BY <1>5, <1>6 DEF Exit, Call, ReadPolled, Get, Advance, Wait, Woken, streams, events
<1>7. CASE UNCHANGED vars BY <1>5, <1>7 DEF vars, streams, events
<1> QED BY <1>1, <1>2, <1>3, <1>4, <1>6, <1>7 DEF Next, Reading

\* Only the bottom half, creation, destruction and the pop change a ring.
LEMMA FedStep == InputInv /\ [Next]_vars => PolledReadReturns' /\ Popping'
<1> SUFFICES ASSUME InputInv, [Next]_vars PROVE PolledReadReturns' /\ Popping' OBVIOUS
<1> USE InputAssumption DEF InputInv, PolledReadReturns, Popping
<1>0. \A t \in Tasks : pc[t] \in {"polled", "advance"} => sids[t] \in active /\ sids[t] \in Sid
  BY DEF Placed, Owned, TypeOK
<1>1. ASSUME NEW t \in Tasks, UNCHANGED <<sids, copied>>,
             \A u \in Tasks : pc'[u] \in {"polled", "advance"} => pc'[u] = pc[u],
             \A u \in Tasks : pc[u] \in {"polled", "advance"} => queue'[sids[u]] = queue[sids[u]]
      PROVE  PolledReadReturns' /\ Popping'
  BY <1>1
<1>2. CASE AddInput
  <2>1. PICK k \in Keys : queue' = PushedBy(k)
    BY <1>2 DEF AddInput, input_manager_add_input_el
  <2>2. UNCHANGED <<pc, sids, copied>> BY <1>2 DEF AddInput
  <2>3. ASSUME NEW s \in Sid, queue[s] # <<>>
        PROVE  queue'[s] # <<>> /\ Head(queue'[s]) = Head(queue[s])
    <3>1. queue[s] \in Seq(Keys) BY DEF TypeOK
    <3>2. queue'[s] = queue[s] \/ queue'[s] = Append(queue[s], k) BY <2>1 DEF PushedBy
    <3>3. Append(queue[s], k) # <<>> /\ Head(Append(queue[s], k)) = Head(queue[s])
      BY <2>3, <3>1, Appended
    <3> QED BY <2>3, <3>2, <3>3
  <2> QED BY <1>0, <2>2, <2>3
<1>3. ASSUME NEW t \in Tasks, Spawn(t) PROVE PolledReadReturns' /\ Popping'
  <2>1. \A u \in Tasks : pc'[u] = IF u = t THEN "run" ELSE pc[u] BY <1>3 DEF Spawn, TypeOK
  <2>2. copied' = copied /\ \A u \in Tasks \ {t} : sids'[u] = sids[u]
    BY <1>3, Registered DEF Spawn, TypeOK
  <2>3. \A s \in active : queue'[s] = queue[s]
    BY <1>3, Registered DEF Spawn, TypeOK, streams
  <2> QED BY <1>0, <2>1, <2>2, <2>3
<1>4. ASSUME NEW t \in Tasks, Unregister(t) PROVE PolledReadReturns' /\ Popping'
  <2>1. \A u \in Tasks : pc'[u] = IF u = t THEN "none" ELSE pc[u]
    BY <1>4 DEF Unregister, TypeOK
  <2>2. \A u \in Tasks \ {t} : sids'[u] = sids[u] /\ copied'[u] = copied[u]
    BY <1>4 DEF Unregister, TypeOK
  <2>3. ASSUME NEW u \in Tasks \ {t}, sids[u] \in active
        PROVE  queue'[sids[u]] = queue[sids[u]]
    <3>1. sids[u] # sids[t] BY <2>3, NoneSid DEF Owned, TypeOK
    <3> QED BY <1>4, <2>3, <3>1, Unregistered DEF TypeOK, streams
  <2> QED BY <1>0, <2>1, <2>2, <2>3
<1>5. ASSUME NEW t \in Tasks, Call(t) PROVE PolledReadReturns' /\ Popping'
  <2>1. UNCHANGED <<queue, sids, copied>> BY <1>5 DEF Call, streams
  <2>2. \A u \in Tasks \ {t} : pc'[u] = pc[u]
    BY <1>5 DEF Call, sys_read, sys_poll, terminal_get_input_line, Goto, TypeOK
  <2>3. pc'[t] # "advance" /\ (pc'[t] = "polled" => queue[sids[t]] # <<>>)
    BY <1>5 DEF Call, sys_read, sys_poll, terminal_get_input_line, Goto, TypeOK
  <2> QED BY <2>1, <2>2, <2>3
<1>6. ASSUME NEW t \in Tasks, Get(t) PROVE PolledReadReturns' /\ Popping'
  <2>1. UNCHANGED <<queue, sids>> BY <1>6 DEF Get, streams
  <2>2. \A u \in Tasks \ {t} : pc'[u] = pc[u] /\ copied'[u] = copied[u]
    BY <1>6 DEF Get, Goto, TypeOK
  <2>3. /\ pc'[t] # "polled"
        /\ pc'[t] = "advance" => queue[sids[t]] # <<>> /\ copied'[t] = Head(queue[sids[t]])
    BY <1>6 DEF Get, Goto, TypeOK
  <2> QED BY <2>1, <2>2, <2>3
<1>7. ASSUME NEW t \in Tasks, Advance(t) PROVE PolledReadReturns' /\ Popping'
  <2>1. UNCHANGED sids BY <1>7 DEF Advance
  <2>2. \A u \in Tasks \ {t} : pc'[u] = pc[u] /\ copied'[u] = copied[u]
    BY <1>7 DEF Advance, Goto, TypeOK
  <2>3. pc'[t] \in {"get", "run"} /\ pc[t] = "advance" BY <1>7 DEF Advance, Goto, Runs, TypeOK
  <2>4. \A u \in Tasks \ {t} : sids[u] # None => sids[u] # sids[t] BY DEF Owned
  <2>5. \A s \in Sid \ {sids[t]} : queue'[s] = queue[s] BY <1>7 DEF Advance, TypeOK
  <2>6. \A u \in Tasks \ {t} : pc[u] \in {"polled", "advance"} => queue'[sids[u]] = queue[sids[u]]
    BY <1>0, <2>4, <2>5, NoneSid
  <2> QED BY <2>1, <2>2, <2>3, <2>6
<1>8. ASSUME NEW t \in Tasks,
             Exit(t) \/ ReadPolled(t) \/ Wait(t) \/ Add(t) \/ Woken(t)
      PROVE  PolledReadReturns' /\ Popping'
  <2>1. UNCHANGED <<queue, sids, copied>>
    BY <1>8 DEF Exit, ReadPolled, Wait, Add, Woken, streams
  <2>2. \A u \in Tasks : pc'[u] \in {"polled", "advance"} => pc'[u] = pc[u]
    BY <1>8 DEF Exit, ReadPolled, Wait, Add, Woken, Goto, TypeOK
  <2> QED BY <1>1, <2>1, <2>2
<1>9. CASE UNCHANGED vars BY <1>9 DEF vars, streams
<1> QED BY <1>2, <1>3, <1>4, <1>5, <1>6, <1>7, <1>8, <1>9 DEF Next, Reading

LEMMA UnreadStep == InputInv /\ [Next]_vars => Unread'
<1> SUFFICES ASSUME InputInv, [Next]_vars PROVE Unread' OBVIOUS
<1> USE InputAssumption DEF InputInv, Unread
<1>1. CASE UNCHANGED <<sids, last>> BY <1>1
<1>2. ASSUME NEW t \in Tasks, Spawn(t) PROVE Unread'
  <2>1. last' = last /\ sids[t] = None BY <1>2 DEF Spawn, Placed
  <2>2. \A u \in Tasks \ {t} : sids'[u] = sids[u] BY <1>2, OthersKeepSids DEF Spawn
  <2> QED BY <2>1, <2>2
<1>3. ASSUME NEW t \in Tasks, Unregister(t) PROVE Unread'
  BY <1>3 DEF Unregister, TypeOK
<1>4. ASSUME NEW t \in Tasks, Advance(t) PROVE Unread'
  <2>1. sids[t] # None BY <1>4 DEF Advance, Runs, Placed
  <2> QED BY <1>4, <2>1 DEF Advance, TypeOK
<1>5. CASE AddInput BY <1>1, <1>5 DEF AddInput
<1>6. ASSUME NEW t \in Tasks,
             Exit(t) \/ Call(t) \/ ReadPolled(t) \/ Get(t) \/ Wait(t) \/ Add(t) \/ Woken(t)
      PROVE  Unread'
  BY <1>1, <1>6 DEF Exit, Call, ReadPolled, Get, Wait, Add, Woken
<1>7. CASE UNCHANGED vars BY <1>1, <1>7 DEF vars
<1> QED BY <1>2, <1>3, <1>4, <1>5, <1>6, <1>7 DEF Next, Reading

LEMMA InputInit == Init => InputInv
<1> SUFFICES ASSUME Init PROVE InputInv OBVIOUS
<1> USE InputAssumption
<1>0. 0 \in Sid BY DEF Sid
<1>1. TypeOK BY <1>0 DEF Init, TypeOK, Place, Tasks
<1>2. Owned BY <1>0 DEF Init, Owned, Tasks
<1>3. EventsLive BY <1>0 DEF Init, EventsLive, Tasks
<1>4. WaitersFound BY <1>0 DEF Init, WaitersFound, Tasks
<1>5. Placed BY DEF Init, Placed, Tasks
<1>6. PolledReadReturns /\ Popping /\ Unread
  BY DEF Init, PolledReadReturns, Popping, Unread, Tasks
<1> QED BY <1>1, <1>2, <1>3, <1>4, <1>5, <1>6 DEF InputInv

LEMMA InputInvariant == Spec => []InputInv
<1>1. InputInv /\ [Next]_vars => InputInv'
  BY TypeStep, OwnedStep, EventsStep, WaitersStep, PlacedStep, FedStep, UnreadStep DEF InputInv
<1> QED BY <1>1, InputInit, PTL DEF Spec

\* Counts of a stream's users and its flag agree, whoever comes and goes.
THEOREM StreamsCounted == Spec => []RefsMatchUsers
<1>1. InputInv => RefsMatchUsers
  <2> SUFFICES ASSUME InputInv, NEW s \in Sid
               PROVE  refs[s] = Cardinality(Users(s)) /\ (s \in active <=> Users(s) # {})
    BY DEF RefsMatchUsers
  <2>1. s \in active <=> Users(s) # {}
    BY NoneSid DEF InputInv, Owned, Users, TypeOK
  <2>2. CASE Users(s) = {}
    BY <2>1, <2>2, FS_EmptySet DEF InputInv, Owned
  <2>3. CASE Users(s) # {}
    <3>1. PICK t \in Tasks : sids[t] = s BY <2>3 DEF Users
    <3>2. Users(s) = {t} BY <3>1, NoneSid DEF InputInv, Owned, Users
    <3>3. Cardinality({t}) = 1 BY FS_Singleton
    <3> QED BY <2>1, <2>3, <3>2, <3>3 DEF InputInv, Owned
  <2> QED BY <2>2, <2>3
<1> QED BY <1>1, InputInvariant, PTL

\* The event a task has fetched without a lock is still that of its stream.
THEOREM EventsStayLive == Spec => []EventsLive
<1>1. InputInv => EventsLive BY DEF InputInv
<1> QED BY <1>1, InputInvariant, PTL

\* The next key finds every waiting task, and touches no other.
THEOREM NextKeyWakes == Spec => []WaitersFound
<1>1. InputInv => WaitersFound BY DEF InputInv
<1> QED BY <1>1, InputInvariant, PTL

\* A read that follows a successful sys_poll does not wait.
THEOREM PolledReads == Spec => []PolledReadReturns
<1>1. InputInv => PolledReadReturns BY DEF InputInv
<1> QED BY <1>1, InputInvariant, PTL

---------------------------------------------------------------------------
(* Streams implement mailboxes.                                            *)

\* The mailboxes, when every stream named is active.
LEMMA Mailboxes ==
  ASSUME InputInv
  PROVE  /\ Open = {t \in Tasks : sids[t] # None}
         /\ Mailbox = [t \in Tasks |-> IF sids[t] # None THEN queue[sids[t]] ELSE <<>>]
<1>1. \A t \in Tasks : sids[t] \in active <=> sids[t] # None
  BY NoneSid DEF InputInv, Owned, TypeOK
<1>2. Open = {t \in Tasks : sids[t] # None} BY <1>1 DEF Open
<1>3. \A t \in Tasks : t \in Open <=> sids[t] # None BY <1>2
<1> QED BY <1>2, <1>3 DEF Mailbox

LEMMA MailboxesNext ==
  ASSUME InputInv'
  PROVE  /\ Open' = {t \in Tasks : sids'[t] # None}
         /\ Mailbox' = [t \in Tasks |-> IF sids'[t] # None THEN queue'[sids'[t]] ELSE <<>>]
<1>1. \A t \in Tasks : sids'[t] \in active' <=> sids'[t] # None
  BY NoneSid DEF InputInv, Owned, TypeOK
<1>2. Open' = {t \in Tasks : sids'[t] # None} BY <1>1 DEF Open
<1>3. \A t \in Tasks : t \in Open' <=> sids'[t] # None BY <1>2
<1> QED BY <1>2, <1>3 DEF Mailbox

LEMMA ChannelInit == Init => Channel!Init
<1> SUFFICES ASSUME Init PROVE Channel!Init OBVIOUS
<1>1. InputInv BY InputInit
<1>2. \A t \in Tasks : sids[t] = IF t = Terminal THEN 0 ELSE None BY DEF Init
<1>3. 0 # None /\ 0 \in Sid BY InputAssumption DEF Sid
<1>4. Open = {Terminal} BY <1>1, <1>2, <1>3, Mailboxes DEF Tasks
<1>5. Mailbox = [t \in Tasks |-> <<>>] BY <1>1, <1>2, <1>3, Mailboxes DEF Init
<1> QED BY <1>4, <1>5 DEF Init, Channel!Init

LEMMA ChannelStep ==
  InputInv /\ InputInv' /\ [Next]_vars => [Channel!Next]_(Channel!vars)
<1> SUFFICES ASSUME InputInv, InputInv', [Next]_vars
             PROVE  Channel!Next \/ UNCHANGED Channel!vars
  OBVIOUS
<1> USE InputAssumption
<1>1. ASSUME UNCHANGED <<sids, queue, last, parity>> PROVE UNCHANGED Channel!vars
  <2>1. Open' = Open /\ Mailbox' = Mailbox BY <1>1, Mailboxes, MailboxesNext
  <2> QED BY <1>1, <2>1 DEF Channel!vars
<1>2. ASSUME NEW k \in Keys, input_manager_add_input_el(k), AddInput PROVE Channel!Key(k)
  <2>1. sids' = sids /\ last' = last /\ parity' = 1 - parity BY <1>2 DEF AddInput
  <2>2. \A s \in active : queue'[s] = IF Len(queue[s]) < Capacity
                                      THEN Append(queue[s], k) ELSE queue[s]
    BY <1>2 DEF input_manager_add_input_el, PushedBy, InputInv, TypeOK
  <2>3. Open' = Open BY <2>1, Mailboxes, MailboxesNext
  <2>4. \A t \in Tasks : sids[t] # None => sids[t] \in active BY DEF InputInv, Owned
  <2>5. Mailbox' = [t \in Tasks |-> IF t \in Open /\ Len(Mailbox[t]) < Capacity
                                    THEN Append(Mailbox[t], k) ELSE Mailbox[t]]
    <3>1. Mailbox' = [t \in Tasks |-> IF sids[t] # None THEN queue'[sids[t]] ELSE <<>>]
      BY <2>1, MailboxesNext
    <3>2. \A t \in Tasks : /\ t \in Open <=> sids[t] # None
                          /\ Mailbox[t] = IF sids[t] # None THEN queue[sids[t]] ELSE <<>>
      BY Mailboxes
    <3>3. \A t \in Tasks : (IF sids[t] # None THEN queue'[sids[t]] ELSE <<>>) =
            (IF t \in Open /\ Len(Mailbox[t]) < Capacity
             THEN Append(Mailbox[t], k) ELSE Mailbox[t])
      BY <2>2, <2>4, <3>2
    <3> QED BY <3>1, <3>3
  <2> QED BY <2>1, <2>3, <2>5 DEF Channel!Key
<1>3. ASSUME NEW t \in Tasks, Spawn(t) PROVE Channel!Open(t) \/ UNCHANGED Channel!vars
  <2>1. sids[t] = None BY <1>3 DEF Spawn, InputInv, Placed
  <2>2. last' = last /\ parity' = parity BY <1>3 DEF Spawn
  <2>3. CASE sids' = [sids EXCEPT ![t] = None] /\ UNCHANGED <<streams, events>>
    <3>1. sids' = sids BY <2>1, <2>3 DEF InputInv, TypeOK
    <3> QED BY <1>1, <2>2, <2>3, <3>1 DEF streams
  <2>4. ASSUME NEW s \in Sid \ active,
               queue' = [queue EXCEPT ![s] = <<>>],
               sids' = [sids EXCEPT ![t] = s]
        PROVE  Channel!Open(t)
    <3>1. \A u \in Tasks : sids'[u] = IF u = t THEN s ELSE sids[u]
      BY <2>4 DEF InputInv, TypeOK
    <3>2. s # None BY NoneSid
    <3>3. Open' = Open \union {t} /\ t \notin Open
      BY <2>1, <3>1, <3>2, Mailboxes, MailboxesNext
    <3>4. \A u \in Tasks : sids[u] # None => queue'[sids[u]] = queue[sids[u]]
      BY <2>4 DEF InputInv, TypeOK, Owned
    <3>5. queue'[s] = <<>> BY <2>4 DEF InputInv, TypeOK
    <3>6. Mailbox' = Mailbox
      BY <2>1, <3>1, <3>2, <3>4, <3>5, Mailboxes, MailboxesNext
    <3> QED BY <2>2, <3>3, <3>6 DEF Channel!Open
  <2> QED BY <1>3, <2>3, <2>4, Registered DEF Spawn, InputInv
<1>4. ASSUME NEW t \in Tasks, Unregister(t) PROVE Channel!Close(t) \/ UNCHANGED Channel!vars
  <2>1. last' = [last EXCEPT ![t] = None] /\ parity' = parity BY <1>4 DEF Unregister
  <2>2. \A u \in Tasks : sids'[u] = IF u = t THEN None ELSE sids[u]
    BY <1>4 DEF Unregister, InputInv, TypeOK
  <2>3. CASE sids[t] = None /\ UNCHANGED <<streams, events>>
    <3>1. sids' = sids BY <1>4, <2>3 DEF Unregister, InputInv, TypeOK
    <3>2. last' = last BY <2>1, <2>3 DEF InputInv, TypeOK, Unread
    <3> QED BY <1>1, <2>1, <2>3, <3>1, <3>2 DEF streams
  <2>4. CASE sids[t] \in active /\ queue' = [queue EXCEPT ![sids[t]] = <<>>]
    <3>1. sids[t] # None BY <2>4, NoneSid DEF InputInv, TypeOK
    <3>2. Open' = Open \ {t} /\ t \in Open BY <2>2, <3>1, Mailboxes, MailboxesNext
    <3>3. \A u \in Tasks \ {t} : sids[u] # None => queue'[sids[u]] = queue[sids[u]]
      BY <2>4, <3>1 DEF InputInv, TypeOK, Owned
    <3>4. Mailbox' = [Mailbox EXCEPT ![t] = <<>>]
      BY <2>2, <3>3, Mailboxes, MailboxesNext
    <3> QED BY <2>1, <3>2, <3>4 DEF Channel!Close
  <2> QED BY <1>4, <2>3, <2>4, Unregistered DEF InputInv
<1>5. ASSUME NEW t \in Tasks, Advance(t) PROVE Channel!Read(t)
  <2>1. sids' = sids /\ parity' = parity BY <1>5 DEF Advance
  <2>2. sids[t] # None /\ sids[t] \in active BY <1>5 DEF Advance, Runs, InputInv, Placed, Owned
  <2>3. queue[sids[t]] # <<>> /\ copied[t] = Head(queue[sids[t]])
    BY <1>5 DEF Advance, Runs, InputInv, Popping
  <2>4. t \in Open /\ Mailbox[t] = queue[sids[t]] /\ Open' = Open
    BY <2>1, <2>2, Mailboxes, MailboxesNext
  <2>5. last' = [last EXCEPT ![t] = Head(Mailbox[t])] BY <1>5, <2>3, <2>4 DEF Advance
  <2>6. \A s \in Sid : queue'[s] = IF s = sids[t] THEN Tail(queue[s]) ELSE queue[s]
    BY <1>5 DEF Advance, InputInv, TypeOK
  <2>7. \A u \in Tasks \ {t} : sids[u] # None => queue'[sids[u]] = queue[sids[u]]
    BY <2>6 DEF InputInv, TypeOK, Owned
  <2>8. queue'[sids[t]] = Tail(Mailbox[t]) BY <2>2, <2>4, <2>6 DEF InputInv, TypeOK
  <2>9. Mailbox' = [Mailbox EXCEPT ![t] = Tail(@)]
    BY <2>1, <2>2, <2>7, <2>8, Mailboxes, MailboxesNext
  <2> QED BY <2>1, <2>3, <2>4, <2>5, <2>9 DEF Channel!Read
<1>6. ASSUME NEW t \in Tasks,
             Exit(t) \/ Call(t) \/ ReadPolled(t) \/ Get(t) \/ Wait(t) \/ Add(t) \/ Woken(t)
      PROVE  UNCHANGED Channel!vars
  BY <1>1, <1>6 DEF Exit, Call, ReadPolled, Get, Wait, Add, Woken, streams
<1>7. CASE UNCHANGED vars BY <1>1, <1>7 DEF vars, streams
<1>8. CASE AddInput
  <2>1. PICK k \in Keys : input_manager_add_input_el(k) BY <1>8 DEF AddInput
  <2> QED BY <1>2, <1>8, <2>1 DEF Channel!Next
<1> QED BY <1>3, <1>4, <1>5, <1>6, <1>7, <1>8 DEF Next, Reading, Channel!Next

\* Whatever streams are taken, freed and taken again, each task reads a mailbox
\* of its own, in order, and loses a key only when its mailbox is full.
THEOREM InputImplementsMailboxes == Spec => Channel!Init /\ [][Channel!Next]_(Channel!vars)
<1>1. InputInv /\ InputInv' /\ [Next]_vars => [Channel!Next]_(Channel!vars) BY ChannelStep
<1> QED BY <1>1, ChannelInit, InputInvariant, PTL DEF Spec
---------------------------------------------------------------------------
(* The ring and the worker of the deferred handlers, for every size of the *)
(* ring and every set of interrupts.                                       *)
---------------------------------------------------------------------------
(* Index arithmetic.  SIZE is only used to be positive.                    *)

\* The remainder of an index that has gone at most once around the ring.
LEMMA Around ==
  ASSUME NEW x \in Int, x > -SIZE, x < 2 * SIZE
  PROVE  x % SIZE = IF x < 0 THEN x + SIZE ELSE IF x < SIZE THEN x ELSE x - SIZE
<1>1. SIZE \in Nat \ {0}
  BY RingAssumption
<1>2. CASE x < 0
  BY <1>1, <1>2, SMT
<1>3. CASE x >= 0 /\ x < SIZE
  BY <1>1, <1>3, SMT
<1>4. CASE x >= SIZE
  BY <1>1, <1>4, SMT
<1> QED
  BY <1>1, <1>2, <1>3, <1>4

\* _ring_next stays inside the buffer.
LEMMA NextSlot ==
  ASSUME NEW i \in Slots
  PROVE  /\ _ring_next(i) \in Slots
         /\ _ring_next(i) = IF i = SIZE - 1 THEN 0 ELSE i + 1
<1>1. SIZE \in Nat \ {0}
  BY RingAssumption
<1> DEFINE x == i + 1
<1>2. x \in Int /\ x >= 0 /\ x > -SIZE /\ x < 2 * SIZE
  BY <1>1 DEF Slots
<1>3. x % SIZE = IF x < SIZE THEN x ELSE x - SIZE
  <2> HIDE DEF x
  <2> QED
    BY <1>2, Around
<1> QED
  BY <1>1, <1>3 DEF Slots, _ring_next

\* The number of elements, without the masking.
LEMMA CountCases ==
  ASSUME NEW r \in Rings
  PROVE  /\ ring_count(r) \in 0 .. SIZE - 1
         /\ ring_count(r) = IF r.end < r.start THEN r.end - r.start + SIZE ELSE r.end - r.start
<1>1. SIZE \in Nat \ {0}
  BY RingAssumption
<1>2. r.start \in Slots /\ r.end \in Slots
  BY DEF Rings
<1>3. r.end - r.start \in Int /\ r.end - r.start > -SIZE /\ r.end - r.start < SIZE
  BY <1>1, <1>2 DEF Slots
<1>4. (r.end - r.start) % SIZE = IF r.end - r.start < 0 THEN r.end - r.start + SIZE
                                 ELSE r.end - r.start
  BY <1>1, <1>3, Around
<1> QED
  BY <1>1, <1>2, <1>3, <1>4 DEF Slots, ring_count

\* ring_empty and ring_full are the two ends of the count.
LEMMA EmptyFull ==
  ASSUME NEW r \in Rings
  PROVE  /\ ring_empty(r) <=> ring_count(r) = 0
         /\ ring_full(r) <=> ring_count(r) = SIZE - 1
<1>1. SIZE \in Nat \ {0}
  BY RingAssumption
<1>2. r.start \in Slots /\ r.end \in Slots
  BY DEF Rings
<1>3. _ring_next(r.end) = IF r.end = SIZE - 1 THEN 0 ELSE r.end + 1
  BY <1>2, NextSlot
<1>4. ring_count(r) = IF r.end < r.start THEN r.end - r.start + SIZE ELSE r.end - r.start
  BY CountCases
<1> QED
  BY <1>1, <1>2, <1>3, <1>4 DEF Slots, ring_empty, ring_full

\* The slot of the k-th element, without the masking.
LEMMA SlotCases ==
  ASSUME NEW r \in Rings, NEW k \in 1 .. ring_count(r)
  PROVE  /\ (r.start + k - 1) % SIZE \in Slots
         /\ (r.start + k - 1) % SIZE = IF r.start + k - 1 < SIZE THEN r.start + k - 1
                                       ELSE r.start + k - 1 - SIZE
<1>1. SIZE \in Nat \ {0}
  BY RingAssumption
<1>2. r.start \in Slots /\ ring_count(r) \in 0 .. SIZE - 1
  BY CountCases DEF Rings
<1>3. PICK x \in Int : x = r.start + k - 1
  BY <1>2 DEF Slots
<1>4. x >= 0 /\ x > -SIZE /\ x < 2 * SIZE
  BY <1>1, <1>2, <1>3 DEF Slots
<1>5. x % SIZE = IF x < SIZE THEN x ELSE x - SIZE
  BY <1>4, Around
<1>6. x % SIZE \in Slots
  BY <1>1, <1>4, <1>5 DEF Slots
<1>7. r.start \in Int /\ k \in Int
  BY <1>2 DEF Slots
<1> QED
  BY <1>1, <1>3, <1>5, <1>6, <1>7

---------------------------------------------------------------------------
(* Contents.                                                               *)

LEMMA ContentsType ==
  ASSUME NEW r \in Rings
  PROVE  /\ Contents(r) \in Seq(Elements)
         /\ Len(Contents(r)) = ring_count(r)
         /\ \A k \in 1 .. ring_count(r) :
              Contents(r)[k] = r.buffer[(r.start + k - 1) % SIZE]
<1>1. ring_count(r) \in Nat
  BY CountCases, RingAssumption
<1>2. \A k \in 1 .. ring_count(r) : r.buffer[(r.start + k - 1) % SIZE] \in Elements
  <2> TAKE k \in 1 .. ring_count(r)
  <2>1. (r.start + k - 1) % SIZE \in Slots
    BY SlotCases
  <2> QED
    BY <2>1 DEF Rings
<1> QED
  BY <1>1, <1>2 DEF Contents

\* ring_push_back on a ring that is not full puts the element at the end.
LEMMA PushAppends ==
  ASSUME NEW r \in Rings, NEW i \in Elements, ~ring_full(r)
  PROVE  /\ Pushed(r, i) \in Rings
         /\ ring_count(Pushed(r, i)) = ring_count(r) + 1
         /\ Contents(Pushed(r, i)) = Append(Contents(r), i)
<1> DEFINE p == Pushed(r, i)
           n == ring_count(r)
<1>1. SIZE \in Nat \ {0}
  BY RingAssumption
<1>2. r.start \in Slots /\ r.end \in Slots /\ r.buffer \in [Slots -> Elements]
  BY DEF Rings
<1>3. _ring_next(r.end) \in Slots /\ _ring_next(r.end) = IF r.end = SIZE - 1 THEN 0 ELSE r.end + 1
  BY <1>2, NextSlot
<1>4. /\ p.start = r.start /\ p.end = _ring_next(r.end)
      /\ p.buffer = [r.buffer EXCEPT ![r.end] = i]
  BY DEF Pushed, Rings
<1>5. p \in Rings
  BY <1>2, <1>3 DEF Pushed, Rings
<1>6. n \in 0 .. SIZE - 2
  BY <1>1, EmptyFull, CountCases
<1>7. n = IF r.end < r.start THEN r.end - r.start + SIZE ELSE r.end - r.start
  BY CountCases
<1>8. ring_count(p) = IF p.end < p.start THEN p.end - p.start + SIZE ELSE p.end - p.start
  BY <1>5, CountCases
<1>9. r.start \in 0 .. SIZE - 1 /\ r.end \in 0 .. SIZE - 1
  BY <1>2 DEF Slots
<1>10. ring_count(p) = n + 1
  <2> HIDE DEF p, n
  <2> QED
    BY <1>1, <1>3, <1>4, <1>6, <1>7, <1>8, <1>9
<1>11. \A k \in 1 .. n + 1 : Contents(p)[k] = IF k = n + 1 THEN i ELSE Contents(r)[k]
  <2> TAKE k \in 1 .. n + 1
  <2> DEFINE slot == (r.start + k - 1) % SIZE
  <2>1. Contents(p)[k] = p.buffer[slot]
    BY <1>4, <1>5, <1>10, ContentsType
  <2>2. slot \in Slots /\ slot = IF r.start + k - 1 < SIZE THEN r.start + k - 1
                                 ELSE r.start + k - 1 - SIZE
    BY <1>4, <1>5, <1>10, SlotCases
  <2>3. CASE k = n + 1
    <3>1. slot = r.end
      <4> HIDE DEF slot, n
      <4> QED
        BY <1>1, <1>6, <1>7, <1>9, <2>2, <2>3
    <3> QED
      BY <1>2, <1>4, <2>1, <2>3, <3>1
  <2>4. CASE k # n + 1
    <3>1. k \in 1 .. n
      BY <1>6, <2>4
    <3>2. slot # r.end
      <4> HIDE DEF slot, n
      <4> QED
        BY <1>1, <1>6, <1>7, <1>9, <2>2, <3>1
    <3>3. p.buffer[slot] = r.buffer[slot]
      BY <1>2, <1>4, <2>2, <3>2
    <3>4. Contents(r)[k] = r.buffer[slot]
      BY <3>1, ContentsType
    <3> QED
      BY <2>1, <2>4, <3>3, <3>4
  <2> QED
    BY <2>3, <2>4
<1>12. Contents(p) \in Seq(Elements) /\ Len(Contents(p)) = n + 1
  BY <1>5, <1>10, ContentsType
<1>13. Contents(r) \in Seq(Elements) /\ Len(Contents(r)) = n
  BY ContentsType
<1>14. /\ Append(Contents(r), i) \in Seq(Elements)
       /\ Len(Append(Contents(r), i)) = n + 1
       /\ \A k \in 1 .. n + 1 :
            Append(Contents(r), i)[k] = IF k = n + 1 THEN i ELSE Contents(r)[k]
  <2> HIDE DEF n
  <2> QED
    BY <1>6, <1>13, AppendProperties
<1>15. Contents(p) = Append(Contents(r), i)
  <2>1. \A k \in 1 .. Len(Contents(p)) : Contents(p)[k] = Append(Contents(r), i)[k]
    BY <1>11, <1>12, <1>14
  <2> HIDE DEF p, n
  <2> QED
    BY <1>12, <1>14, <2>1, SeqEqual
<1> QED
  BY <1>5, <1>10, <1>15

\* ring_pop_front on a ring that is not empty takes its first element.
LEMMA PopTakesFirst ==
  ASSUME NEW r \in Rings, ~ring_empty(r)
  PROVE  /\ Popped(r) \in Rings
         /\ ring_count(Popped(r)) = ring_count(r) - 1
         /\ Front(r) = Contents(r)[1]
         /\ \A k \in 1 .. ring_count(r) - 1 : Contents(Popped(r))[k] = Contents(r)[k + 1]
<1> DEFINE p == Popped(r)
           n == ring_count(r)
<1>1. SIZE \in Nat \ {0}
  BY RingAssumption
<1>2. r.start \in Slots /\ r.end \in Slots
  BY DEF Rings
<1>3. _ring_next(r.start) \in Slots /\ _ring_next(r.start) = IF r.start = SIZE - 1 THEN 0 ELSE r.start + 1
  BY <1>2, NextSlot
<1>4. p.start = _ring_next(r.start) /\ p.end = r.end /\ p.buffer = r.buffer
  BY DEF Popped, Rings
<1>5. p \in Rings
  BY <1>3 DEF Popped, Rings
<1>6. n \in 1 .. SIZE - 1
  BY <1>1, EmptyFull, CountCases
<1>7. n = IF r.end < r.start THEN r.end - r.start + SIZE ELSE r.end - r.start
  BY CountCases
<1>8. ring_count(p) = IF p.end < p.start THEN p.end - p.start + SIZE ELSE p.end - p.start
  BY <1>5, CountCases
<1>9. r.start \in 0 .. SIZE - 1 /\ r.end \in 0 .. SIZE - 1
  BY <1>2 DEF Slots
<1>10. ring_count(p) = n - 1
  <2> HIDE DEF p, n
  <2> QED
    BY <1>1, <1>3, <1>4, <1>6, <1>7, <1>8, <1>9
<1>11. Front(r) = Contents(r)[1]
  <2>1. (r.start + 1 - 1) % SIZE = r.start
    BY <1>1, <1>6, <1>9, SlotCases
  <2> QED
    BY <1>6, <2>1, ContentsType DEF Front
<1>12. ASSUME NEW k \in 1 .. n - 1
       PROVE  Contents(p)[k] = Contents(r)[k + 1]
  <2>1. k + 1 \in 1 .. n /\ k \in 1 .. ring_count(p)
    BY <1>6, <1>10
  <2>2. Contents(p)[k] = r.buffer[(p.start + k - 1) % SIZE]
    BY <1>4, <1>5, <2>1, ContentsType
  <2>3. Contents(r)[k + 1] = r.buffer[(r.start + (k + 1) - 1) % SIZE]
    BY <2>1, ContentsType
  <2>4. (p.start + k - 1) % SIZE = IF p.start + k - 1 < SIZE THEN p.start + k - 1
                                   ELSE p.start + k - 1 - SIZE
    BY <1>5, <2>1, SlotCases
  <2>5. (r.start + (k + 1) - 1) % SIZE = IF r.start + (k + 1) - 1 < SIZE THEN r.start + (k + 1) - 1
                                         ELSE r.start + (k + 1) - 1 - SIZE
    BY <2>1, SlotCases
  <2>6. (p.start + k - 1) % SIZE = (r.start + (k + 1) - 1) % SIZE
    <3> HIDE DEF p, n
    <3> QED
      BY <1>1, <1>3, <1>4, <1>6, <1>9, <2>4, <2>5
  <2> QED
    BY <2>2, <2>3, <2>6
<1> QED
  BY <1>5, <1>10, <1>11, <1>12

---------------------------------------------------------------------------
(* The worker.                                                             *)

\* What an interrupt between any two lines of int_worker_task leaves true.
\* Drained: the flag is clear at the head of the loop only over an empty ring.
\* Asleep: a sleeping worker has not been told of work, and either has not yet
\* yielded or has not been given the processor since.
\* TakingFront: the slot being popped stays the front of a ring that is not empty.
Drained == at = "check" /\ ~pending => ring_empty(irq_queue)
Asleep ==
  state = "WAITING" =>
    /\ ring_empty(irq_queue) /\ ~pending
    /\ at = "yield" \/ (at = "assert" /\ ~running)
TakingFront ==
  /\ at \in {"copy", "advance"} => ~ring_empty(irq_queue)
  /\ at = "advance" => data = {Front(irq_queue)}
  /\ at = "call" => data # {}

WorkerInv == IntTypeOK /\ Drained /\ Asleep /\ TakingFront

LEMMA WorkerStarts == IntInit => WorkerInv
<1> SUFFICES ASSUME IntInit PROVE WorkerInv
  OBVIOUS
<1>1. irq_queue \in Rings /\ ring_empty(irq_queue)
  BY DEF IntInit, ring_empty
<1> QED
  BY <1>1 DEF IntInit, WorkerInv, IntTypeOK, Drained, Asleep, TakingFront

\* An interrupt that finds room.
LEMMA PushKeeps ==
  ASSUME WorkerInv, NEW i \in Interrupts, ~ring_full(irq_queue),
         irq_queue' = Pushed(irq_queue, i)
  PROVE  /\ irq_queue' \in Rings
         /\ ~ring_empty(irq_queue)'
         /\ ~ring_empty(irq_queue) => Front(irq_queue)' = Front(irq_queue)
<1>1. irq_queue \in Rings /\ i \in Elements
  BY DEF WorkerInv, IntTypeOK, Interrupts
<1>2. Pushed(irq_queue, i) \in Rings /\ ring_count(Pushed(irq_queue, i)) = ring_count(irq_queue) + 1
  BY <1>1, PushAppends
<1>3. ring_count(irq_queue) \in Nat
  BY <1>1, CountCases, RingAssumption
<1>4. ring_count(irq_queue') # 0
  BY <1>2, <1>3
<1>5. ~ring_empty(irq_queue')
  BY <1>2, <1>4, EmptyFull
<1>6. ~ring_empty(irq_queue) => Front(irq_queue') = Front(irq_queue)
  BY <1>1 DEF Pushed, Rings, Front, ring_empty
<1> QED
  BY <1>2, <1>5, <1>6

LEMMA WorkerStep == WorkerInv /\ [IntNext]_intVars => WorkerInv'
<1> SUFFICES ASSUME WorkerInv, [IntNext]_intVars PROVE WorkerInv'
  OBVIOUS
<1> USE DEF WorkerInv, IntTypeOK, Drained, Asleep, TakingFront
<1>1. CASE Irq
  <2>1. PICK i \in Interrupts : int_worker_add(i)
    BY <1>1 DEF Irq
  <2>2. CASE ring_full(irq_queue)
    BY <2>1, <2>2 DEF int_worker_add, worker
  <2>3. CASE ~ring_full(irq_queue)
    <3>1. irq_queue' = Pushed(irq_queue, i)
      BY <2>1, <2>3 DEF int_worker_add
    <3>2. /\ irq_queue' \in Rings /\ ~ring_empty(irq_queue')
          /\ ~ring_empty(irq_queue) => Front(irq_queue') = Front(irq_queue)
      BY <2>3, <3>1, PushKeeps
    <3> QED
      BY <2>1, <2>3, <3>2 DEF int_worker_add, worker
  <2> QED
    BY <2>2, <2>3
<1>2. CASE Preempt
  BY <1>2 DEF Preempt, SwitchAway, worker
<1>3. CASE Dispatch
  BY <1>3 DEF Dispatch, worker
<1>4. CASE Check
  BY <1>4 DEF Check, Step
<1>5. CASE Yield
  BY <1>5 DEF Yield, Step, SwitchAway
<1>6. CASE Assert
  BY <1>6 DEF Assert, Step
<1>7. CASE Clear
  BY <1>7 DEF Clear, Step
<1>8. CASE Loop
  BY <1>8 DEF Loop, Step
<1>9. CASE PopCopy
  <2>1. Front(irq_queue) \in Interrupts
    BY DEF Rings, Front, Interrupts
  <2> QED
    BY <1>9, <2>1 DEF PopCopy, Step
<1>10. CASE PopAdvance
  <2>1. irq_queue' \in Rings
    BY <1>10, PopTakesFirst DEF PopAdvance, Step
  <2> QED
    BY <1>10, <2>1 DEF PopAdvance, Step
<1>11. CASE _call_curr_handler
  BY <1>11 DEF _call_curr_handler, Step
<1>12. CASE UNCHANGED intVars
  BY <1>12 DEF intVars, worker
<1> QED
  BY <1>1, <1>2, <1>3, <1>4, <1>5, <1>6, <1>7, <1>8, <1>9, <1>10, <1>11, <1>12
     DEF IntNext, int_worker_task, Halted

LEMMA WorkerInvariant == IntSpec => []WorkerInv
BY WorkerStarts, WorkerStep, PTL DEF IntSpec

\* The cursors stay inside the buffer and the buffer holds interrupts only,
\* whatever the size of the ring and however interrupts and pops interleave.
THEOREM WorkerTypeCorrect == IntSpec => []IntTypeOK
<1>1. WorkerInv => IntTypeOK
  BY DEF WorkerInv
<1> QED
  BY <1>1, WorkerInvariant, PTL

\* int_worker_task never sleeps over an accepted interrupt.
THEOREM WorkerSleepsDrained == IntSpec => []NoSleepingOnWork
<1>1. WorkerInv => NoSleepingOnWork
  BY DEF WorkerInv, Asleep, NoSleepingOnWork
<1> QED
  BY <1>1, WorkerInvariant, PTL

---------------------------------------------------------------------------
(* The refinement of IntQueue.                                             *)

\* The front of the ring and what is behind it.
LEMMA FrontAndRest ==
  ASSUME NEW r \in Rings, ~ring_empty(r)
  PROVE  Contents(r) = <<Front(r)>> \o Contents(Popped(r))
<1> DEFINE s == Contents(r)
           rest == Contents(Popped(r))
           n == ring_count(r)
<1>1. s \in Seq(Elements) /\ Len(s) = n
  BY ContentsType
<1>2. n \in Nat /\ n >= 1
  BY CountCases, EmptyFull, RingAssumption
<1>3. rest \in Seq(Elements) /\ Len(rest) = n - 1
  BY PopTakesFirst, ContentsType
<1>4. Front(r) = s[1] /\ \A k \in 1 .. n - 1 : rest[k] = s[k + 1]
  BY PopTakesFirst
<1>5. Front(r) \in Elements
  BY DEF Front, Rings
<1> HIDE DEF s, rest, n
<1>6. <<Front(r)>> \in Seq(Elements) /\ Len(<<Front(r)>>) = 1 /\ <<Front(r)>>[1] = Front(r)
  BY <1>5
<1>7. /\ <<Front(r)>> \o rest \in Seq(Elements)
      /\ Len(<<Front(r)>> \o rest) = n
      /\ \A k \in 1 .. n : (<<Front(r)>> \o rest)[k] = IF k = 1 THEN Front(r) ELSE rest[k - 1]
  BY <1>2, <1>3, <1>6, ConcatProperties
<1>8. \A k \in 1 .. Len(s) : s[k] = (<<Front(r)>> \o rest)[k]
  BY <1>1, <1>2, <1>4, <1>7
<1>9. s = <<Front(r)>> \o rest
  BY <1>1, <1>7, <1>8, SeqEqual
<1> QED
  BY <1>9 DEF s, rest

LEMMA ConsFacts ==
  ASSUME NEW x \in Elements, NEW s \in Seq(Elements)
  PROVE  /\ <<x>> \o s \in Seq(Elements)
         /\ Len(<<x>> \o s) = Len(s) + 1
         /\ <<x>> \o s # <<>>
         /\ Head(<<x>> \o s) = x
         /\ Tail(<<x>> \o s) = s
         /\ \A i \in Elements : <<x>> \o Append(s, i) = Append(<<x>> \o s, i)
<1>1. <<x>> \in Seq(Elements) /\ Len(<<x>>) = 1 /\ <<x>>[1] = x
  OBVIOUS
<1>2. /\ <<x>> \o s \in Seq(Elements)
      /\ Len(<<x>> \o s) = Len(s) + 1
      /\ \A k \in 1 .. Len(s) + 1 : (<<x>> \o s)[k] = IF k = 1 THEN x ELSE s[k - 1]
  BY <1>1, ConcatProperties
<1>3. Len(s) \in Nat
  BY LenProperties
<1>4. <<x>> \o s # <<>>
  BY <1>2, <1>3
<1>5. Head(<<x>> \o s) = x
  BY <1>2, <1>3, <1>4
<1>6. Tail(<<x>> \o s) = s
  <2> DEFINE t == <<x>> \o s
  <2>1. t \in Seq(Elements) /\ t # <<>> /\ Len(t) = Len(s) + 1
    BY <1>2, <1>4
  <2>2. \A k \in 1 .. Len(s) : t[k + 1] = s[k]
    BY <1>2, <1>3
  <2> HIDE DEF t
  <2>3. /\ Tail(t) \in Seq(Elements) /\ Len(Tail(t)) = Len(t) - 1
        /\ \A k \in 1 .. Len(Tail(t)) : Tail(t)[k] = t[k + 1]
    BY <2>1, HeadTailProperties
  <2>4. Len(Tail(t)) = Len(s) /\ \A k \in 1 .. Len(Tail(t)) : Tail(t)[k] = s[k]
    BY <1>3, <2>1, <2>2, <2>3
  <2>5. Tail(t) = s
    BY <2>3, <2>4, SeqEqual
  <2> QED
    BY <2>5 DEF t
<1>7. ASSUME NEW i \in Elements
      PROVE  <<x>> \o Append(s, i) = Append(<<x>> \o s, i)
  <2>1. Append(s, i) = s \o <<i>>
    BY AppendIsConcat
  <2>2. Append(<<x>> \o s, i) = (<<x>> \o s) \o <<i>>
    BY <1>2, AppendIsConcat
  <2>3. <<i>> \in Seq(Elements)
    OBVIOUS
  <2>4. <<x>> \o (s \o <<i>>) = (<<x>> \o s) \o <<i>>
    BY <1>1, <2>3, ConcatAssociative
  <2> QED
    BY <2>1, <2>2, <2>4
<1> QED
  BY <1>2, <1>4, <1>5, <1>6, <1>7

\* An element that joins the ring joins what is waiting.
LEMMA UnhandledPush ==
  ASSUME IntTypeOK, TakingFront, NEW i \in Interrupts, ~ring_full(irq_queue)
  PROVE  /\ Unhandled(at, data, Pushed(irq_queue, i)) = Append(Waiting, i)
         /\ Waiting \in Seq(Interrupts)
         /\ Len(Waiting) <= SIZE - 1
<1>1. irq_queue \in Rings /\ i \in Elements
  BY DEF IntTypeOK, Interrupts
<1>2. Contents(Pushed(irq_queue, i)) = Append(Contents(irq_queue), i)
  BY <1>1, PushAppends
<1>3. /\ Contents(irq_queue) \in Seq(Elements) /\ Len(Contents(irq_queue)) = ring_count(irq_queue)
      /\ ring_count(irq_queue) \in 0 .. SIZE - 2
  BY <1>1, ContentsType, CountCases, EmptyFull, RingAssumption
<1>4. CASE at = "call"
  <2> DEFINE x == CHOOSE d \in data : TRUE
  <2>1. x \in Elements
    BY <1>4 DEF IntTypeOK, TakingFront, Interrupts
  <2> HIDE DEF x
  <2>2. /\ <<x>> \o Append(Contents(irq_queue), i) = Append(<<x>> \o Contents(irq_queue), i)
        /\ <<x>> \o Contents(irq_queue) \in Seq(Elements)
        /\ Len(<<x>> \o Contents(irq_queue)) = Len(Contents(irq_queue)) + 1
    BY <1>1, <1>3, <2>1, ConsFacts
  <2>3. /\ Unhandled(at, data, Pushed(irq_queue, i)) = <<x>> \o Contents(Pushed(irq_queue, i))
        /\ Waiting = <<x>> \o Contents(irq_queue)
    BY <1>4 DEF Unhandled, Waiting, x
  <2>4. Len(Waiting) <= SIZE - 1
    BY <1>3, <2>2, <2>3, RingAssumption
  <2> QED
    BY <1>2, <2>2, <2>3, <2>4 DEF Interrupts
<1>5. CASE at # "call"
  <2>1. /\ Waiting = Contents(irq_queue)
        /\ Unhandled(at, data, Pushed(irq_queue, i)) = Contents(Pushed(irq_queue, i))
    BY <1>5 DEF Unhandled, Waiting
  <2>2. Len(Waiting) <= SIZE - 1
    BY <1>3, <2>1, RingAssumption
  <2> QED
    BY <1>2, <1>3, <2>1, <2>2 DEF Interrupts
<1> QED
  BY <1>4, <1>5

\* A full ring: only then does the machine halt.
LEMMA FullWaits ==
  ASSUME IntTypeOK, TakingFront, ring_full(irq_queue)
  PROVE  Len(Waiting) >= SIZE - 1
<1>1. irq_queue \in Rings
  BY DEF IntTypeOK
<1>2. Contents(irq_queue) \in Seq(Elements) /\ Len(Contents(irq_queue)) = SIZE - 1
  BY <1>1, ContentsType, EmptyFull
<1>3. CASE at = "call"
  <2> DEFINE x == CHOOSE d \in data : TRUE
  <2>1. x \in Elements
    BY <1>3 DEF IntTypeOK, TakingFront, Interrupts
  <2> HIDE DEF x
  <2>2. Len(<<x>> \o Contents(irq_queue)) = Len(Contents(irq_queue)) + 1
    BY <1>2, <2>1, ConsFacts
  <2>3. Waiting = <<x>> \o Contents(irq_queue)
    BY <1>3 DEF Unhandled, Waiting, x
  <2> QED
    BY <1>2, <2>2, <2>3, RingAssumption
<1>4. CASE at # "call"
  BY <1>2, <1>4, RingAssumption DEF Waiting, Unhandled
<1> QED
  BY <1>3, <1>4

LEMMA QueueInit == IntInit => Promise!Init
<1> SUFFICES ASSUME IntInit PROVE Promise!Init
  OBVIOUS
<1>1. irq_queue \in Rings /\ ring_empty(irq_queue)
  BY DEF IntInit, ring_empty
<1>2. Contents(irq_queue) \in Seq(Elements) /\ Len(Contents(irq_queue)) = 0
  BY <1>1, ContentsType, EmptyFull
<1>3. Waiting = <<>>
  BY <1>2, EmptySeq DEF IntInit, Waiting, Unhandled
<1> QED
  BY <1>3 DEF IntInit, Promise!Init

LEMMA QueueStep == WorkerInv /\ [IntNext]_intVars => [Promise!Next]_(Promise!vars)
<1> SUFFICES ASSUME WorkerInv, [IntNext]_intVars
             PROVE  Promise!Next \/ UNCHANGED <<Waiting, handling, flip, halted>>
  BY DEF Promise!vars
<1> USE DEF WorkerInv
<1>1. CASE Irq
  <2>1. PICK i \in Interrupts : int_worker_add(i)
    BY <1>1 DEF Irq
  <2>2. ~halted
    BY <1>1 DEF Irq
  <2>3. CASE ring_full(irq_queue)
    <3>1. halted' = TRUE /\ UNCHANGED <<irq_queue, at, data, handling, flip>>
      BY <2>1, <2>3 DEF int_worker_add, worker
    <3>2. Len(Waiting) >= SIZE - 1
      BY <2>3, FullWaits
    <3>3. Waiting' = Waiting
      BY <3>1 DEF Waiting
    <3>4. Promise!Halt
      BY <2>2, <3>1, <3>2, <3>3 DEF Promise!Halt
    <3> QED
      BY <3>4 DEF Promise!Next
  <2>4. CASE ~ring_full(irq_queue)
    <3>1. /\ irq_queue' = Pushed(irq_queue, i) /\ flip' = 1 - flip
          /\ UNCHANGED <<at, data, handling, halted>>
      BY <2>1, <2>4 DEF int_worker_add, worker
    <3>2. Unhandled(at, data, Pushed(irq_queue, i)) = Append(Waiting, i) /\ Len(Waiting) <= SIZE - 1
      BY <2>4, UnhandledPush
    <3>3. Waiting' = Append(Waiting, i)
      BY <3>1, <3>2 DEF Waiting
    <3>4. Promise!Accept(i)
      BY <2>2, <3>1, <3>2, <3>3 DEF Promise!Accept
    <3> QED
      BY <3>4 DEF Promise!Next
  <2> QED
    BY <2>3, <2>4
<1>2. CASE _call_curr_handler
  <2>1. at = "call" /\ at' = "loop" /\ ~halted /\ handling' = data /\ UNCHANGED <<irq_queue, flip, halted>>
    BY <1>2 DEF _call_curr_handler, Step
  <2> DEFINE x == CHOOSE d \in data : TRUE
  <2>2. x \in Elements /\ data = {x}
    BY <2>1 DEF IntTypeOK, TakingFront, Interrupts
  <2> HIDE DEF x
  <2>3. Waiting = <<x>> \o Contents(irq_queue) /\ Waiting' = Contents(irq_queue)
    BY <2>1 DEF Waiting, Unhandled, x
  <2>4. Contents(irq_queue) \in Seq(Elements)
    BY ContentsType DEF IntTypeOK
  <2>5. Waiting # <<>> /\ Head(Waiting) = x /\ Tail(Waiting) = Contents(irq_queue)
    BY <2>2, <2>3, <2>4, ConsFacts
  <2>6. Promise!Handle
    BY <2>1, <2>2, <2>3, <2>5 DEF Promise!Handle
  <2> QED
    BY <2>6 DEF Promise!Next
<1>3. CASE PopAdvance
  <2>1. /\ at = "advance" /\ at' = "call" /\ irq_queue' = Popped(irq_queue)
        /\ UNCHANGED <<data, handling, flip, halted>>
    BY <1>3 DEF PopAdvance, Step
  <2>2. ~ring_empty(irq_queue) /\ data = {Front(irq_queue)} /\ irq_queue \in Rings
    BY <2>1 DEF TakingFront, IntTypeOK
  <2>3. Waiting' = <<Front(irq_queue)>> \o Contents(Popped(irq_queue))
    BY <2>1, <2>2 DEF Waiting, Unhandled
  <2>4. Waiting = Contents(irq_queue)
    BY <2>1 DEF Waiting, Unhandled
  <2>5. Waiting' = Waiting
    BY <2>2, <2>3, <2>4, FrontAndRest
  <2> QED
    BY <2>1, <2>5
<1>4. CASE Assert
  <2>1. at = "assert" /\ at' # "call" /\ UNCHANGED <<irq_queue, data, handling, flip>>
    BY <1>4 DEF Assert, Step
  <2>2. Waiting' = Waiting
    BY <2>1 DEF Waiting, Unhandled
  <2>3. CASE ring_full(irq_queue)
    <3>1. ~halted /\ halted' = TRUE
      BY <1>4, <2>3 DEF Assert
    <3>2. Len(Waiting) >= SIZE - 1
      BY <2>3, FullWaits
    <3>3. Promise!Halt
      BY <2>1, <2>2, <3>1, <3>2 DEF Promise!Halt
    <3> QED
      BY <3>3 DEF Promise!Next
  <2>4. CASE ~ring_full(irq_queue)
    <3>1. halted' = halted
      BY <1>4, <2>4 DEF Assert
    <3> QED
      BY <2>1, <2>2, <3>1
  <2> QED
    BY <2>3, <2>4
<1>5. CASE Preempt \/ Dispatch \/ UNCHANGED intVars
  <2>1. UNCHANGED <<irq_queue, at, data, handling, flip, halted>>
    BY <1>5 DEF Preempt, Dispatch, intVars, worker
  <2> QED
    BY <2>1 DEF Waiting
<1>6. CASE Check \/ Yield \/ Clear \/ Loop \/ PopCopy
  <2>1. at # "call" /\ at' # "call" /\ UNCHANGED <<irq_queue, handling, flip, halted>>
    BY <1>6 DEF Check, Yield, Clear, Loop, PopCopy, Step
  <2>2. Waiting' = Waiting
    BY <2>1 DEF Waiting, Unhandled
  <2> QED
    BY <2>1, <2>2
<1> QED
  BY <1>1, <1>2, <1>3, <1>4, <1>5, <1>6 DEF IntNext, int_worker_task, Halted

\* int_worker.c over ring.c is a first-in first-out queue that loses nothing:
\* every behaviour of the worker, its ring and the interrupts is one of
\* IntQueue, for a ring of any size.  (That each interrupt is handled in the
\* end is the liveness half of QueuePromise.)
THEOREM WorkerImplementsQueue == IntSpec => Promise!Init /\ [][Promise!Next]_(Promise!vars)
BY QueueInit, QueueStep, WorkerInvariant, PTL DEF IntSpec
=============================================================================
