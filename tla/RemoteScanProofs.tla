-------------------------- MODULE RemoteScanProofs --------------------------
(***************************************************************************)
(* Proofs about remote execution, for any ring of workers, any number of   *)
(* calls, any cooldown and, unless a theorem says otherwise, any number of *)
(* retries.                                                                *)
(***************************************************************************)
EXTENDS RemoteScan, TLAPS

\* A round walks the ring: what it has seen is an arc that begins at start and
\* ends at at.
Arc(c) ==
    /\ c.at \in c.seen /\ c.start \in c.seen
    /\ \A w \in c.seen : w # c.at => After[w] \in c.seen
    /\ \A w \in c.seen : w # c.start => \E v \in c.seen : After[v] = w
    /\ After[c.at] \in c.seen => After[c.at] = c.start

RoundInv ==
    \A r \in Runs :
       /\ call[r].pc = "claimed" => call[r].seen = {}
       /\ call[r].pc # "claimed" => Arc(call[r])
       /\ call[r].pc \notin {"record", "done"} => call[r].out = None

\* Requests go only to workers the round has come to, each with its own try.
SlotInv ==
    \A p \in Posts : post[p].pc # "none" =>
       /\ p[2] \in call[p[1]].seen
       /\ p[2] = call[p[1]].at =>
            /\ p[3] <= call[p[1]].try
            /\ call[p[1]].pc \in {"route", "retry"} => p[3] < call[p[1]].try

\* A mark, a notice under way and a void result all come from a run that is
\* cancelled in the queue.
VoidInv ==
    \A r \in Runs : store[r] # "cancelled" =>
       /\ notice[r] = None
       /\ call[r].out # "void"
       /\ \A w \in Workers : registry[w][r] # "marked"
       /\ \A p \in Posts : p[1] = r => post[p].pc # "void"

\* Without retries a mark stays until its scan ends.
MarkInv ==
    /\ ScanIsRegistered
    /\ \A p \in Posts : post[p].told =>
          /\ post[p].pc \in {"scanning", "void"}
          /\ post[p].pc = "scanning" => registry[p[2]][p[1]] = "marked"

RemoteInv == TypeOK /\ RoundInv /\ SlotInv

-----------------------------------------------------------------------------

LEMMA OnwardIsUnseen ==
    ASSUME NEW c \in Call, Arc(c), c.at \in Workers, After[c.at] # c.start
    PROVE  /\ After[c.at] \notin c.seen
           /\ Onward(c) \in Call
           /\ Arc(Onward(c))
<1>1. After[c.at] \notin c.seen
  BY DEF Arc
<1>2. After[c.at] \in Workers
  BY RemoteAssumption
<1>3. Onward(c) \in Call
  <2>1. 0 \in 0..Retries
    BY RemoteAssumption
  <2>2. c.seen \cup {After[c.at]} \in SUBSET Workers
    BY <1>2 DEF Call
  <2>3. QED BY <2>1, <2>2, <1>2 DEF Call, Onward
<1>4. Onward(c).at = After[c.at] /\ Onward(c).start = c.start
      /\ Onward(c).seen = c.seen \cup {After[c.at]}
  BY DEF Call, Onward
<1> DEFINE a == c.at
           b == After[c.at]
<1>5. \A w \in c.seen : w \in Workers
  BY DEF Call
<1>6. After[b] \in c.seen \cup {b} => After[b] = c.start
  <2>1. SUFFICES ASSUME After[b] \in c.seen \cup {b}, After[b] # c.start PROVE FALSE
    OBVIOUS
  <2>2. CASE After[b] = b
    <3>1. b = a
      BY <2>2, <1>2, RemoteAssumption
    <3>2. QED BY <3>1, <1>1 DEF Arc
  <2>3. CASE After[b] \in c.seen
    <3>1. PICK v \in c.seen : After[v] = After[b]
      BY <2>1, <2>3 DEF Arc
    <3>2. v = b
      BY <3>1, <1>2, <1>5, RemoteAssumption
    <3>3. QED BY <3>1, <3>2, <1>1
  <2>4. QED BY <2>1, <2>2, <2>3
<1>7. Arc(Onward(c))
  <2>1. \A w \in c.seen \cup {b} : w # b => After[w] \in c.seen \cup {b}
    BY DEF Arc
  <2>2. \A w \in c.seen \cup {b} : w # c.start => \E v \in c.seen \cup {b} : After[v] = w
    BY DEF Arc
  <2>3. c.start \in c.seen \cup {b}
    BY DEF Arc
  <2>4. QED BY <1>4, <1>6, <2>1, <2>2, <2>3 DEF Arc
<1>8. QED BY <1>1, <1>3, <1>7

LEMMA WholeRound ==
    ASSUME NEW c \in Call, Arc(c), After[c.at] = c.start
    PROVE  c.seen = Workers
<1>1. c.seen \in SUBSET Workers /\ c.seen # {}
  BY DEF Call, Arc
<1>2. \A w \in c.seen : After[w] \in c.seen
  BY DEF Arc
<1>3. QED BY <1>1, <1>2, RemoteAssumption

-----------------------------------------------------------------------------
(* Type correctness and the round invariant.                                *)

LEMMA InitRemoteInv == Init => RemoteInv
<1> SUFFICES ASSUME Init PROVE RemoteInv
  OBVIOUS
<1>1. TypeOK
  BY RemoteAssumption DEF Init, TypeOK, Call, Post, NoPost
<1>2. RoundInv
  BY DEF Init, RoundInv
<1>3. SlotInv
  BY DEF Init, SlotInv, NoPost
<1>4. QED BY <1>1, <1>2, <1>3 DEF RemoteInv

\* Of a typed call whose round has begun, at and start are workers.
LEMMA RoundHasPlace ==
    ASSUME TypeOK, RoundInv, NEW r \in Runs, call[r].pc # "claimed"
    PROVE  /\ call[r] \in Call /\ Arc(call[r])
           /\ call[r].at \in Workers /\ call[r].start \in Workers
           /\ Current(r) \in Posts
<1>1. call[r] \in Call /\ Arc(call[r])
  BY DEF TypeOK, RoundInv
<1>2. call[r].seen \subseteq Workers /\ call[r].try \in 0..Retries
  BY <1>1 DEF Call
<1>3. call[r].at \in Workers /\ call[r].start \in Workers
  BY <1>1, <1>2 DEF Arc
<1>4. QED BY <1>1, <1>2, <1>3 DEF Current, Posts

\* What the calls of a step that changes only call r need to keep.
LEMMA MoveOnKeeps ==
    ASSUME TypeOK, RoundInv, NEW r \in Runs, MoveOn(r),
           call[r].pc \in {"route", "wait"}
    PROVE  /\ call' \in [Runs -> Call] /\ cursor' \in Workers
           /\ RoundInv'
           /\ \A s \in Runs \ {r} : call'[s] = call[s]
           /\ \/ /\ call'[r].pc = "route" /\ call'[r].try = 0
                 /\ call'[r].seen = call[r].seen \cup {call'[r].at}
                 /\ call'[r].at \notin call[r].seen
                 /\ call'[r].out = call[r].out
              \/ /\ call'[r].pc = "record" /\ call'[r].at = call[r].at
                 /\ call'[r].seen = call[r].seen /\ call'[r].try = call[r].try
                 /\ call'[r].out = "failed"
<1> DEFINE c == call[r]
<1>1. c \in Call /\ Arc(c) /\ c.at \in Workers /\ c.start \in Workers
  BY RoundHasPlace
<1>2. c.out = None
  BY DEF RoundInv
<1>3. After[c.at] \in Workers /\ After[c.start] \in Workers
  BY <1>1, RemoteAssumption
<1>4. CASE r \in Pooled /\ After[c.at] # c.start
  <2>1. call' = [call EXCEPT ![r] = Onward(c)] /\ cursor' = cursor
    BY <1>4 DEF MoveOn
  <2>2. After[c.at] \notin c.seen /\ Onward(c) \in Call /\ Arc(Onward(c))
    BY <1>1, <1>4, OnwardIsUnseen
  <2>3. /\ Onward(c).pc = "route" /\ Onward(c).try = 0 /\ Onward(c).at = After[c.at]
        /\ Onward(c).seen = c.seen \cup {After[c.at]} /\ Onward(c).out = c.out
    BY <1>1 DEF Onward, Call
  <2>4. call'[r] = Onward(c) /\ \A s \in Runs \ {r} : call'[s] = call[s]
    BY <2>1 DEF TypeOK
  <2>5. call' \in [Runs -> Call] /\ cursor' \in Workers
    BY <2>1, <2>2 DEF TypeOK
  <2>6. RoundInv'
    BY <1>2, <2>2, <2>3, <2>4 DEF RoundInv
  <2>7. QED BY <2>2, <2>3, <2>4, <2>5, <2>6
<1>5. CASE ~(r \in Pooled /\ After[c.at] # c.start)
  <2>1. /\ call' = [call EXCEPT ![r] = GivenUp(c)]
        /\ cursor' = IF r \in Pooled THEN After[c.start] ELSE cursor
    BY <1>5 DEF MoveOn
  <2>2. /\ GivenUp(c) \in Call /\ GivenUp(c).pc = "record" /\ GivenUp(c).at = c.at
        /\ GivenUp(c).start = c.start /\ GivenUp(c).seen = c.seen
        /\ GivenUp(c).try = c.try /\ GivenUp(c).out = "failed"
    BY <1>1 DEF GivenUp, Call
  <2>3. Arc(GivenUp(c))
    BY <1>1, <2>2 DEF Arc
  <2>4. call'[r] = GivenUp(c) /\ \A s \in Runs \ {r} : call'[s] = call[s]
    BY <2>1 DEF TypeOK
  <2>5. call' \in [Runs -> Call] /\ cursor' \in Workers
    BY <1>3, <2>1, <2>2 DEF TypeOK
  <2>6. RoundInv'
    BY <2>2, <2>3, <2>4 DEF RoundInv
  <2>7. QED BY <2>2, <2>4, <2>5, <2>6
<1>6. QED BY <1>4, <1>5

\* A request that is sent again would reuse a slot; the round and the count of
\* tries make sure that none is.
LEMMA SlotIsFresh ==
    ASSUME RemoteInv, NEW r \in Runs, call[r].pc \in {"route", "retry"}
    PROVE  post[Current(r)].pc = "none"
<1>1. Current(r) \in Posts /\ call[r] \in Call
  BY RoundHasPlace DEF RemoteInv
<1>2. call[r].try \in Nat
  BY <1>1, RemoteAssumption DEF Call
<1>3. QED BY <1>1, <1>2 DEF RemoteInv, SlotInv, Current

LEMMA ExecuteKeepsInv ==
    ASSUME RemoteInv, NEW r \in Runs, Execute(r)
    PROVE  RemoteInv'
<1> USE DEF RemoteInv
<1>1. CASE Begin(r)
  <2>1. PICK w \in Workers :
          call' = [call EXCEPT ![r] = [call[r] EXCEPT
                     !.pc = "route", !.start = w, !.at = w, !.seen = {w}]]
    BY <1>1 DEF Begin
  <2>2. call[r] \in Call /\ call[r].pc = "claimed" /\ call[r].seen = {} /\ call[r].out = None
    BY <1>1 DEF Begin, TypeOK, RoundInv
  <2>3. /\ call'[r] \in Call /\ call'[r].pc = "route" /\ call'[r].start = w
        /\ call'[r].at = w /\ call'[r].seen = {w} /\ call'[r].out = None
    BY <2>1, <2>2 DEF Call, TypeOK
  <2>4. \A s \in Runs \ {r} : call'[s] = call[s]
    BY <2>1 DEF TypeOK
  <2>5. call' \in [Runs -> Call]
    BY <2>1, <2>3, <2>4 DEF TypeOK
  <2>6. TypeOK'
    BY <1>1, <2>5 DEF Begin, TypeOK
  <2>7. Arc(call[r])'
    BY <2>3 DEF Arc
  <2>8. RoundInv'
    BY <2>3, <2>4, <2>7 DEF RoundInv
  <2>9. SlotInv'
    <3>1. \A p \in Posts : p[1] = r => post[p].pc = "none"
      BY <2>2 DEF SlotInv
    <3>2. \A p \in Posts : p[1] \in Runs
      BY DEF Posts
    <3>3. post' = post
      BY <1>1 DEF Begin
    <3>4. QED BY <3>1, <3>2, <3>3, <2>4 DEF SlotInv
  <2>10. QED BY <2>6, <2>8, <2>9
<1>2. CASE Send(r)
  <2>1. call[r].pc \in {"route", "retry"}
    BY <1>2 DEF Send
  <2>2. /\ Current(r) \in Posts /\ call[r] \in Call /\ Arc(call[r])
        /\ post[Current(r)].pc = "none"
    BY <2>1, RoundHasPlace, SlotIsFresh
  <2>3. /\ call' = [call EXCEPT ![r].pc = "wait"]
        /\ post' = [post EXCEPT ![Current(r)] = [pc |-> "sent", told |-> FALSE]]
    BY <1>2 DEF Send
  <2>4. /\ call'[r] \in Call /\ call'[r].pc = "wait" /\ call'[r].start = call[r].start
        /\ call'[r].at = call[r].at /\ call'[r].seen = call[r].seen
        /\ call'[r].try = call[r].try /\ call'[r].out = call[r].out
    BY <2>2, <2>3 DEF Call, TypeOK
  <2>5. \A s \in Runs \ {r} : call'[s] = call[s]
    BY <2>3 DEF TypeOK
  <2>6. TypeOK'
    <3>1. call' \in [Runs -> Call]
      BY <2>3, <2>4, <2>5 DEF TypeOK
    <3>2. post' \in [Posts -> Post]
      BY <2>3 DEF TypeOK, Post
    <3>3. QED BY <1>2, <3>1, <3>2 DEF Send, TypeOK
  <2>7. Arc(call[r])'
    BY <2>2, <2>4 DEF Arc
  <2>8. RoundInv'
    BY <2>1, <2>4, <2>5, <2>7 DEF RoundInv
  <2>9. SlotInv'
    <3>1. SUFFICES ASSUME NEW p \in Posts, post'[p].pc # "none"
                   PROVE  /\ p[2] \in call'[p[1]].seen
                          /\ p[2] = call'[p[1]].at =>
                               /\ p[3] <= call'[p[1]].try
                               /\ call'[p[1]].pc \in {"route", "retry"} =>
                                    p[3] < call'[p[1]].try
      BY DEF SlotInv
    <3>2. p[1] \in Runs /\ p[3] \in Nat
      BY RemoteAssumption DEF Posts
    <3>3. CASE p = Current(r)
      BY <3>3, <2>2, <2>4, RemoteAssumption DEF Current, Arc, Call
    <3>4. CASE p # Current(r)
      <4>1. post[p].pc # "none"
        BY <3>1, <3>4, <2>3 DEF TypeOK
      <4>2. QED BY <4>1, <2>4, <2>5, <3>2 DEF SlotInv
    <3>5. QED BY <3>3, <3>4
  <2>10. QED BY <2>6, <2>8, <2>9
<1>3. CASE Skip(r) \/ PreflightFails(r) \/ (Fails(r) /\ MoveOn(r))
  <2>1. MoveOn(r) /\ post' = post /\ call[r].pc \in {"route", "wait"}
    BY <1>3 DEF Skip, PreflightFails, Fails
  <2>2. /\ call' \in [Runs -> Call] /\ cursor' \in Workers
        /\ RoundInv'
        /\ \A s \in Runs \ {r} : call'[s] = call[s]
        /\ \/ /\ call'[r].pc = "route" /\ call'[r].try = 0
              /\ call'[r].seen = call[r].seen \cup {call'[r].at}
              /\ call'[r].at \notin call[r].seen
           \/ /\ call'[r].pc = "record" /\ call'[r].at = call[r].at
              /\ call'[r].seen = call[r].seen /\ call'[r].try = call[r].try
    BY <2>1, MoveOnKeeps
  <2>3. cooldown' \in [Workers -> Nat]
    <3>1. now + Cooldown \in Nat
      BY RemoteAssumption DEF TypeOK
    <3>2. QED BY <1>3, <3>1 DEF Skip, PreflightFails, Fails, TypeOK
  <2>4. TypeOK'
    BY <1>3, <2>1, <2>2, <2>3 DEF Skip, PreflightFails, Fails, TypeOK
  <2>5. SlotInv'
    <3>1. \A p \in Posts : p[1] \in Runs
      BY DEF Posts
    <3>2. QED BY <2>1, <2>2, <3>1 DEF SlotInv
  <2>6. QED BY <2>2, <2>4, <2>5
<1>4. CASE Fails(r) /\ ~MoveOn(r)
  <2>1. /\ call' = [call EXCEPT ![r] = [call[r] EXCEPT
                       !.pc = "retry", !.try = call[r].try + 1]]
        /\ call[r].pc = "wait" /\ call[r].try < Retries /\ post' = post
        /\ UNCHANGED <<cursor, cooldown>>
    BY <1>4 DEF Fails
  <2>2. call[r] \in Call /\ Arc(call[r])
    BY <2>1, RoundHasPlace
  <2>3. call[r].try + 1 \in 0..Retries /\ call[r].try \in Nat
    BY <2>1, <2>2, RemoteAssumption DEF Call
  <2>4. /\ call'[r] \in Call /\ call'[r].pc = "retry" /\ call'[r].start = call[r].start
        /\ call'[r].at = call[r].at /\ call'[r].seen = call[r].seen
        /\ call'[r].try = call[r].try + 1 /\ call'[r].out = call[r].out
    BY <2>1, <2>2, <2>3 DEF Call, TypeOK
  <2>5. \A s \in Runs \ {r} : call'[s] = call[s]
    BY <2>1 DEF TypeOK
  <2>6. call' \in [Runs -> Call]
    BY <2>1, <2>4, <2>5 DEF TypeOK
  <2>7. TypeOK'
    BY <1>4, <2>1, <2>6 DEF Fails, TypeOK
  <2>8. Arc(call[r])'
    BY <2>2, <2>4 DEF Arc
  <2>9. RoundInv'
    BY <2>1, <2>4, <2>5, <2>8 DEF RoundInv
  <2>10. SlotInv'
    <3>1. \A p \in Posts : p[1] \in Runs /\ p[3] \in Nat
      BY RemoteAssumption DEF Posts
    <3>2. QED BY <2>1, <2>3, <2>4, <2>5, <3>1 DEF SlotInv
  <2>11. QED BY <2>7, <2>9, <2>10
<1>5. CASE Result(r)
  <2>1. /\ call' = [call EXCEPT ![r] = [call[r] EXCEPT
                       !.pc = "record", !.out = post[Current(r)].pc]]
        /\ call[r].pc = "wait" /\ post' = post
        /\ post[Current(r)].pc \in {"ok", "void"}
    BY <1>5 DEF Result
  <2>2. call[r] \in Call /\ Arc(call[r]) /\ call[r].at \in Workers
    BY <2>1, RoundHasPlace
  <2>0. PICK o \in {"ok", "void"} : o = post[Current(r)].pc
    BY <2>1
  <2>3. /\ call'[r] \in Call /\ call'[r].pc = "record" /\ call'[r].start = call[r].start
        /\ call'[r].at = call[r].at /\ call'[r].seen = call[r].seen
        /\ call'[r].try = call[r].try
    <3>1. call'[r] = [call[r] EXCEPT !.pc = "record", !.out = o]
      BY <2>0, <2>1 DEF TypeOK
    <3>2. QED BY <2>2, <3>1 DEF Call
  <2>4. \A s \in Runs \ {r} : call'[s] = call[s]
    BY <2>1 DEF TypeOK
  <2>5. call' \in [Runs -> Call]
    BY <2>1, <2>3, <2>4 DEF TypeOK
  <2>6. cursor' \in Workers
    BY <1>5, <2>2, RemoteAssumption DEF Result, TypeOK
  <2>7. TypeOK'
    BY <1>5, <2>5, <2>6 DEF Result, TypeOK
  <2>8. Arc(call[r])'
    BY <2>2, <2>3 DEF Arc
  <2>9. RoundInv'
    BY <2>3, <2>4, <2>8 DEF RoundInv
  <2>10. SlotInv'
    <3>1. \A p \in Posts : p[1] \in Runs
      BY DEF Posts
    <3>2. QED BY <2>1, <2>3, <2>4, <3>1 DEF SlotInv
  <2>11. QED BY <2>7, <2>9, <2>10
<1>6. CASE Record(r)
  <2>1. /\ call' = [call EXCEPT ![r].pc = "done"]
        /\ call[r].pc = "record" /\ post' = post
    BY <1>6 DEF Record
  <2>2. call[r] \in Call /\ Arc(call[r])
    BY <2>1, RoundHasPlace
  <2>3. /\ call'[r] \in Call /\ call'[r].pc = "done" /\ call'[r].start = call[r].start
        /\ call'[r].at = call[r].at /\ call'[r].seen = call[r].seen
        /\ call'[r].try = call[r].try
    BY <2>1, <2>2 DEF Call, TypeOK
  <2>4. \A s \in Runs \ {r} : call'[s] = call[s]
    BY <2>1 DEF TypeOK
  <2>5. call' \in [Runs -> Call]
    BY <2>1, <2>3, <2>4 DEF TypeOK
  <2>6. TypeOK'
    BY <1>6, <2>5 DEF Record, TypeOK
  <2>7. Arc(call[r])'
    BY <2>2, <2>3 DEF Arc
  <2>8. RoundInv'
    BY <2>3, <2>4, <2>7 DEF RoundInv
  <2>9. SlotInv'
    <3>1. \A p \in Posts : p[1] \in Runs
      BY DEF Posts
    <3>2. QED BY <2>1, <2>3, <2>4, <3>1 DEF SlotInv
  <2>10. QED BY <2>6, <2>8, <2>9
<1>7. QED BY <1>1, <1>2, <1>3, <1>4, <1>5, <1>6 DEF Execute

LEMMA ServeKeepsInv ==
    ASSUME RemoteInv, NEW p \in Posts, Serve(p)
    PROVE  RemoteInv'
<1> USE DEF RemoteInv
<1>1. /\ call' = call /\ store' = store /\ cursor' = cursor /\ cooldown' = cooldown
      /\ notice' = notice /\ now' = now
  BY DEF Serve, Arrive, Refuse, Scanned, ScanFailed
<1>2. post[p].pc # "none" /\ \A q \in Posts \ {p} : post'[q] = post[q]
  BY DEF Serve, Arrive, Refuse, Scanned, ScanFailed, TypeOK
<1>3. post' \in [Posts -> Post]
  <2>1. \A s \in {"scanning", "refused", "error", "ok", "void"} :
          [post EXCEPT ![p].pc = s] \in [Posts -> Post]
    BY DEF TypeOK, Post
  <2>2. [post EXCEPT ![p] = [pc |-> "error", told |-> FALSE]] \in [Posts -> Post]
    BY DEF TypeOK, Post
  <2>3. QED BY <2>1, <2>2 DEF Serve, Arrive, Refuse, Scanned, ScanFailed
<1>4. registry' \in [Workers -> [Runs -> {"absent", "live", "marked"}]]
  <2>1. p[1] \in Runs /\ p[2] \in Workers
    BY DEF Posts
  <2>2. \A s \in {"live", "absent"} :
          [registry EXCEPT ![p[2]][p[1]] = s] \in [Workers -> [Runs -> {"absent", "live", "marked"}]]
    BY <2>1 DEF TypeOK
  <2>3. QED BY <2>2 DEF Serve, Arrive, Refuse, Scanned, ScanFailed, Pop, TypeOK
<1>5. TypeOK'
  BY <1>1, <1>3, <1>4 DEF TypeOK
<1>6. RoundInv'
  BY <1>1 DEF RoundInv, Arc
<1>7. SlotInv'
  BY <1>1, <1>2 DEF SlotInv
<1>8. QED BY <1>5, <1>6, <1>7

LEMMA CancelKeepsInv ==
    ASSUME RemoteInv, NEW r \in Runs,
           CancelStore(r) \/ NotifyWorker(r) \/ NoticeFails(r)
    PROVE  RemoteInv'
<1> USE DEF RemoteInv
<1>1. call' = call /\ cursor' = cursor /\ cooldown' = cooldown /\ now' = now
  BY DEF CancelStore, NotifyWorker, NoticeFails
<1>2. CASE CancelStore(r) \/ NoticeFails(r)
  <2>1. post' = post /\ registry' = registry
    BY <1>2 DEF CancelStore, NoticeFails
  <2>2. /\ store' \in [Runs -> {"running", "completed", "failed", "cancelled"}]
        /\ notice' \in [Runs -> Workers \cup {None}]
    BY <1>2 DEF CancelStore, NoticeFails, TypeOK
  <2>3. TypeOK'
    BY <1>1, <2>1, <2>2 DEF TypeOK
  <2>4. QED BY <1>1, <2>1, <2>3 DEF RoundInv, SlotInv, Arc
<1>3. CASE NotifyWorker(r)
  <2>1. notice[r] \in Workers /\ store' = store
    BY <1>3 DEF NotifyWorker, TypeOK
  <2>2. CASE registry[notice[r]][r] = "absent"
    <3>1. /\ registry' = registry /\ post' = post
          /\ notice' = [notice EXCEPT ![r] = None]
      BY <1>3, <2>2 DEF NotifyWorker
    <3>2. TypeOK'
      BY <1>1, <2>1, <3>1 DEF TypeOK
    <3>3. QED BY <1>1, <3>1, <3>2 DEF RoundInv, SlotInv, Arc
  <2>3. CASE registry[notice[r]][r] # "absent"
    <3>1. /\ registry' = [registry EXCEPT ![notice[r]][r] = "marked"]
          /\ post' = [p \in Posts |->
                IF p[1] = r /\ p[2] = notice[r] /\ post[p].pc = "scanning"
                THEN [post[p] EXCEPT !.told = TRUE] ELSE post[p]]
          /\ notice' = [notice EXCEPT ![r] = None]
      BY <1>3, <2>3 DEF NotifyWorker
    <3>2. \A p \in Posts : post'[p] \in Post /\ post'[p].pc = post[p].pc
      BY <3>1 DEF TypeOK, Post
    <3>3. post' \in [Posts -> Post]
      BY <3>1, <3>2
    <3>4. registry' \in [Workers -> [Runs -> {"absent", "live", "marked"}]]
      BY <2>1, <3>1 DEF TypeOK
    <3>5. TypeOK'
      BY <1>1, <2>1, <3>1, <3>3, <3>4 DEF TypeOK
    <3>6. QED BY <1>1, <3>2, <3>5 DEF RoundInv, SlotInv, Arc
  <2>4. QED BY <2>2, <2>3
<1>4. QED BY <1>2, <1>3

LEMMA OthersKeepInv ==
    ASSUME RemoteInv,
           (\E w \in Workers : WorkerStops(w)) \/ Reset \/ AdvanceClock \/ UNCHANGED vars
    PROVE  RemoteInv'
<1> USE DEF RemoteInv
<1>1. call' = call /\ cursor' = cursor /\ store' = store /\ notice' = notice
  BY DEF WorkerStops, Reset, AdvanceClock, vars
<1>2. CASE \E w \in Workers : WorkerStops(w)
  <2>1. PICK w \in Workers : WorkerStops(w)
    BY <1>2
  <2>2. /\ post' = [p \in Posts |->
                 IF p[2] = w /\ post[p].pc \in {"sent", "scanning"}
                 THEN [pc |-> "error", told |-> FALSE] ELSE post[p]]
        /\ registry' = [registry EXCEPT ![w] = [r \in Runs |-> "absent"]]
        /\ cooldown' = cooldown /\ now' = now
    BY <2>1 DEF WorkerStops
  <2>3. \A p \in Posts : post'[p] \in Post /\ (post'[p].pc # "none" => post[p].pc # "none")
    BY <2>2 DEF TypeOK, Post
  <2>4. post' \in [Posts -> Post]
    BY <2>2, <2>3
  <2>5. registry' \in [Workers -> [Runs -> {"absent", "live", "marked"}]]
    BY <2>2 DEF TypeOK
  <2>6. TypeOK'
    BY <1>1, <2>2, <2>4, <2>5 DEF TypeOK
  <2>7. QED BY <1>1, <2>3, <2>6 DEF RoundInv, SlotInv, Arc
<1>3. CASE Reset \/ AdvanceClock \/ UNCHANGED vars
  <2>1. post' = post /\ registry' = registry
    BY <1>3 DEF Reset, AdvanceClock, vars
  <2>2. cooldown' \in [Workers -> Nat] /\ now' \in Nat
    BY <1>3 DEF Reset, AdvanceClock, vars, TypeOK
  <2>3. TypeOK'
    BY <1>1, <2>1, <2>2 DEF TypeOK
  <2>4. QED BY <1>1, <2>1, <2>3 DEF RoundInv, SlotInv, Arc
<1>4. QED BY <1>2, <1>3

LEMMA RemoteInvHolds == Spec => []RemoteInv
<1>1. RemoteInv /\ [Next]_vars => RemoteInv'
  <2>1. SUFFICES ASSUME RemoteInv, [Next]_vars PROVE RemoteInv'
    OBVIOUS
  <2>2. CASE \E r \in Runs : Execute(r)
    BY <2>1, <2>2, ExecuteKeepsInv
  <2>3. CASE \E p \in Posts : Serve(p)
    BY <2>1, <2>3, ServeKeepsInv
  <2>4. CASE \E r \in Runs : CancelStore(r) \/ NotifyWorker(r) \/ NoticeFails(r)
    BY <2>1, <2>4, CancelKeepsInv
  <2>5. CASE (\E w \in Workers : WorkerStops(w)) \/ Reset \/ AdvanceClock \/ UNCHANGED vars
    BY <2>1, <2>5, OthersKeepInv
  <2>6. QED BY <2>1, <2>2, <2>3, <2>4, <2>5 DEF Next
<1>2. QED BY InitRemoteInv, <1>1, PTL DEF Spec

\* Every variable of remote execution keeps its type (pool.py, remote.py and
\* the rpc handlers of api.py).
THEOREM TypeCorrect == Spec => []TypeOK
BY RemoteInvHolds, PTL DEF RemoteInv

\* WorkerPoolExecutor.execute: a run of the pool fails only after its round has
\* come to every worker of the ring.
THEOREM WholeRoundBeforeFailure == Spec => []FailsAfterWholeRound
<1>1. Init => FailsAfterWholeRound
  BY RemoteAssumption DEF Init, FailsAfterWholeRound
<1>2. RemoteInv /\ FailsAfterWholeRound /\ [Next]_vars => FailsAfterWholeRound'
  <2>1. SUFFICES ASSUME RemoteInv, FailsAfterWholeRound, [Next]_vars,
                        NEW r \in Pooled, call'[r].out = "failed"
                 PROVE  call'[r].seen = Workers
    BY DEF FailsAfterWholeRound
  <2>2. r \in Runs
    BY RemoteAssumption
  <2>3. CASE call'[r] = call[r]
    BY <2>1, <2>3 DEF FailsAfterWholeRound
  <2>4. CASE Record(r)
    BY <2>1, <2>2, <2>4 DEF Record, FailsAfterWholeRound, RemoteInv, TypeOK, Call
  <2>5. CASE MoveOn(r) /\ call[r].pc \in {"route", "wait"}
    <3>1. call[r] \in Call /\ Arc(call[r]) /\ call[r].out = None
      BY <2>1, <2>2, <2>5, RoundHasPlace DEF RemoteInv, RoundInv
    <3>2. call'[r].seen = call[r].seen /\ After[call[r].at] = call[r].start
      <4>1. CASE After[call[r].at] # call[r].start
        <5>1. call'[r] = Onward(call[r])
          BY <2>1, <2>2, <2>5, <4>1 DEF MoveOn, RemoteInv, TypeOK
        <5>2. call'[r].out = call[r].out
          BY <3>1, <5>1 DEF Onward, Call
        <5>3. QED BY <2>1, <3>1, <5>2, RemoteAssumption
      <4>2. CASE After[call[r].at] = call[r].start
        <5>1. call'[r] = GivenUp(call[r])
          BY <2>1, <2>2, <2>5, <4>2 DEF MoveOn, RemoteInv, TypeOK
        <5>2. QED BY <3>1, <4>2, <5>1 DEF GivenUp, Call
      <4>3. QED BY <4>1, <4>2
    <3>3. QED BY <3>1, <3>2, WholeRound
  <2>6. CASE Begin(r) \/ Send(r)
    <3>1. call[r].pc \in {"claimed", "route", "retry"} /\ call[r] \in Call
      BY <2>1, <2>2, <2>6 DEF Begin, Send, RemoteInv, TypeOK
    <3>2. call[r].out = None
      BY <2>1, <2>2, <3>1 DEF RemoteInv, RoundInv
    <3>3. CASE Begin(r)
      <4>1. PICK w \in Workers :
              call' = [call EXCEPT ![r] = [call[r] EXCEPT
                         !.pc = "route", !.start = w, !.at = w, !.seen = {w}]]
        BY <3>3 DEF Begin
      <4>2. call'[r].out = call[r].out
        BY <2>1, <2>2, <3>1, <4>1 DEF RemoteInv, TypeOK, Call
      <4>3. QED BY <2>1, <3>2, <4>2, RemoteAssumption
    <3>4. CASE Send(r)
      <4>1. call'[r].out = call[r].out
        BY <2>1, <2>2, <3>1, <3>4 DEF Send, RemoteInv, TypeOK, Call
      <4>2. QED BY <2>1, <3>2, <4>1, RemoteAssumption
    <3>5. QED BY <2>6, <3>3, <3>4
  <2>7. CASE Result(r)
    <3>1. call'[r].out \in {"ok", "void"}
      BY <2>1, <2>2, <2>7 DEF Result, RemoteInv, TypeOK, Call
    <3>2. QED BY <2>1, <3>1
  <2>8. CASE \E s \in Runs \ {r} : Execute(s)
    BY <2>1, <2>2, <2>3, <2>8 DEF Execute, Begin, Send, Skip, PreflightFails, Fails, Result,
                          Record, MoveOn, RemoteInv, TypeOK
  <2>9. CASE \A s \in Runs : ~Execute(s)
    <3>1. call' = call
      BY <2>1, <2>9 DEF Next, Serve, Arrive, Refuse, Scanned, ScanFailed, WorkerStops,
         CancelStore, NotifyWorker, NoticeFails, Reset, AdvanceClock, vars
    <3>2. QED BY <2>3, <3>1
  <2>10. CASE Execute(r)
    <3>1. CASE Skip(r) \/ PreflightFails(r) \/ Fails(r)
      BY <2>5, <2>1, <3>1 DEF Skip, PreflightFails, Fails
    <3>2. QED BY <2>4, <2>6, <2>7, <2>10, <3>1 DEF Execute
  <2>11. QED BY <2>2, <2>8, <2>9, <2>10
<1>3. QED BY <1>1, <1>2, RemoteInvHolds, PTL DEF Spec

-----------------------------------------------------------------------------
(* Cancellation.                                                            *)

\* A notice only adds marks.
LEMMA NotifyKeepsPcs ==
    ASSUME TypeOK, NEW r \in Runs, NotifyWorker(r)
    PROVE  \A p \in Posts : post'[p].pc = post[p].pc
<1>1. CASE registry[notice[r]][r] = "absent"
  BY <1>1 DEF NotifyWorker
<1>2. CASE registry[notice[r]][r] # "absent"
  <2>1. post' = [p \in Posts |->
            IF p[1] = r /\ p[2] = notice[r] /\ post[p].pc = "scanning"
            THEN [post[p] EXCEPT !.told = TRUE] ELSE post[p]]
    BY <1>2 DEF NotifyWorker
  <2>2. QED BY <2>1 DEF TypeOK, Post
<1>3. QED BY <1>1, <1>2

LEMMA VoidInvStep ==
    ASSUME RemoteInv, VoidInv, [Next]_vars
    PROVE  VoidInv'
<1> SUFFICES ASSUME NEW r \in Runs, store'[r] # "cancelled"
             PROVE  /\ notice'[r] = None
                    /\ call'[r].out # "void"
                    /\ \A w \in Workers : registry'[w][r] # "marked"
                    /\ \A p \in Posts : p[1] = r => post'[p].pc # "void"
  BY DEF VoidInv
<1>0. TypeOK /\ RoundInv /\ SlotInv
  BY DEF RemoteInv
<1>1. store[r] # "cancelled"
  BY <1>0 DEF TypeOK, Next, Execute, Begin, Send, Skip, PreflightFails, Fails, Result, Record,
     Serve, Arrive, Refuse, Scanned, ScanFailed, WorkerStops, CancelStore, NotifyWorker,
     NoticeFails, Reset, AdvanceClock, vars
<1>2. /\ notice[r] = None /\ call[r].out # "void"
      /\ \A w \in Workers : registry[w][r] # "marked"
      /\ \A p \in Posts : p[1] = r => post[p].pc # "void"
  BY <1>1 DEF VoidInv
<1>3. notice'[r] = None
  <2>1. CASE \E s \in Runs : CancelStore(s)
    BY <1>0, <1>2, <2>1 DEF CancelStore, TypeOK
  <2>2. CASE \E s \in Runs : NotifyWorker(s) \/ NoticeFails(s)
    BY <1>0, <1>2, <2>2 DEF NotifyWorker, NoticeFails, TypeOK
  <2>3. CASE notice' = notice
    BY <1>2, <2>3
  <2>4. QED BY <2>1, <2>2, <2>3 DEF Next, Execute, Begin, Send, Skip, PreflightFails, Fails,
     Result, Record, Serve, Arrive, Refuse, Scanned, ScanFailed, WorkerStops,
     Reset, AdvanceClock, vars
<1>4. \A w \in Workers : registry'[w][r] # "marked"
  <2>1. CASE \E s \in Runs : NotifyWorker(s)
    <3>1. PICK s \in Runs : NotifyWorker(s)
      BY <2>1
    <3>2. s # r /\ notice[s] \in Workers
      BY <1>0, <1>2, <3>1 DEF NotifyWorker, TypeOK
    <3>3. registry' = registry \/ registry' = [registry EXCEPT ![notice[s]][s] = "marked"]
      BY <3>1 DEF NotifyWorker
    <3>4. QED BY <1>0, <1>2, <3>2, <3>3 DEF TypeOK
  <2>2. CASE \E p \in Posts : Serve(p)
    <3>1. PICK p \in Posts : Serve(p)
      BY <2>2
    <3>2. p[1] \in Runs /\ p[2] \in Workers
      BY DEF Posts
    <3>3. \/ registry' = registry
          \/ registry' = [registry EXCEPT ![p[2]][p[1]] = "live"]
          \/ registry' = [registry EXCEPT ![p[2]][p[1]] = "absent"]
      BY <3>1 DEF Serve, Arrive, Refuse, Scanned, ScanFailed, Pop
    <3>4. QED BY <1>0, <1>2, <3>2, <3>3, SMTT(30) DEF TypeOK
  <2>3. CASE \E w \in Workers : WorkerStops(w)
    <3>1. PICK w \in Workers : registry' = [registry EXCEPT ![w] = [s \in Runs |-> "absent"]]
      BY <2>3 DEF WorkerStops
    <3>2. QED BY <1>0, <1>2, <3>1 DEF TypeOK
  <2>4. CASE registry' = registry
    BY <1>2, <2>4
  <2>5. QED BY <2>1, <2>2, <2>3, <2>4 DEF Next, Execute, Begin, Send, Skip, PreflightFails,
     Fails, Result, Record, CancelStore, NoticeFails, Reset, AdvanceClock, vars
<1>5. \A p \in Posts : p[1] = r => post'[p].pc # "void"
  <2>1. CASE \E q \in Posts : Serve(q)
    <3>1. PICK q \in Posts : Serve(q)
      BY <2>1
    <3>2. \A p \in Posts \ {q} : post'[p] = post[p]
      BY <1>0, <3>1 DEF Serve, Arrive, Refuse, Scanned, ScanFailed, TypeOK
    <3>3. q[1] = r => post'[q].pc # "void"
      <4>1. q[2] \in Workers
        BY DEF Posts
      <4>2. CASE Scanned(q)
        BY <1>0, <1>2, <4>1, <4>2 DEF Scanned, TypeOK, Post
      <4>3. CASE ~Scanned(q)
        BY <1>0, <3>1, <4>3 DEF Serve, Arrive, Refuse, ScanFailed, TypeOK, Post
      <4>4. QED BY <4>2, <4>3
    <3>4. QED BY <1>2, <3>2, <3>3
  <2>2. CASE \E s \in Runs : Send(s)
    <3>1. PICK s \in Runs : post' = [post EXCEPT ![Current(s)] = [pc |-> "sent", told |-> FALSE]]
      BY <2>2 DEF Send
    <3>2. QED BY <1>0, <1>2, <3>1 DEF TypeOK
  <2>3. CASE \E s \in Runs : NotifyWorker(s)
    <3>1. PICK s \in Runs : NotifyWorker(s)
      BY <2>3
    <3>2. \A p \in Posts : post'[p].pc = post[p].pc
      BY <1>0, <3>1, NotifyKeepsPcs
    <3>3. QED BY <1>2, <3>2
  <2>4. CASE \E w \in Workers : WorkerStops(w)
    <3>1. \A p \in Posts : post'[p] = post[p] \/ post'[p].pc = "error"
      BY <1>0, <2>4 DEF WorkerStops, TypeOK, Post
    <3>2. QED BY <1>2, <3>1
  <2>5. CASE post' = post
    BY <1>2, <2>5
  <2>6. QED BY <2>1, <2>2, <2>3, <2>4, <2>5 DEF Next, Execute, Begin, Skip, PreflightFails,
     Fails, Result, Record, CancelStore, NoticeFails, Reset, AdvanceClock, vars
<1>6. call'[r].out # "void"
  <2>1. CASE Result(r)
    <3>1. call[r] \in Call /\ Current(r) \in Posts /\ Current(r)[1] = r
      BY <1>0, <2>1, RoundHasPlace DEF Result, Current
    <3>2. call'[r].out = post[Current(r)].pc
      BY <1>0, <2>1, <3>1 DEF Result, TypeOK, Call
    <3>3. QED BY <1>2, <3>1, <3>2
  <2>2. CASE MoveOn(r)
    <3>1. call[r] \in Call
      BY <1>0 DEF TypeOK
    <3>2. call'[r] = Onward(call[r]) \/ call'[r] = GivenUp(call[r])
      BY <1>0, <2>2 DEF MoveOn, TypeOK
    <3>3. Onward(call[r]).out = call[r].out /\ GivenUp(call[r]).out = "failed"
      BY <3>1 DEF Onward, GivenUp, Call
    <3>4. QED BY <1>2, <3>2, <3>3
  <2>3. CASE call'[r].out = call[r].out
    BY <1>2, <2>3
  <2>4. CASE Execute(r)
    <3>0. CASE Begin(r)
      <4>1. PICK w \in Workers :
              call' = [call EXCEPT ![r] = [call[r] EXCEPT
                         !.pc = "route", !.start = w, !.at = w, !.seen = {w}]]
        BY <3>0 DEF Begin
      <4>2. QED BY <1>0, <2>3, <4>1 DEF TypeOK, Call
    <3>1. CASE Send(r) \/ Record(r)
      BY <1>0, <2>3, <3>1 DEF Send, Record, TypeOK, Call
    <3>2. CASE Fails(r) /\ ~MoveOn(r)
      BY <1>0, <2>3, <3>2, ZenonT(40) DEF Fails, TypeOK, Call
    <3>3. CASE (Skip(r) \/ PreflightFails(r) \/ Fails(r)) /\ MoveOn(r)
      BY <2>2, <3>3
    <3>4. QED BY <2>1, <2>4, <3>0, <3>1, <3>2, <3>3 DEF Execute, Skip, PreflightFails
  <2>5. CASE \E s \in Runs \ {r} : Execute(s)
    BY <1>0, <2>3, <2>5 DEF Execute, Begin, Send, Skip, PreflightFails, Fails, Result,
                          Record, MoveOn, TypeOK
  <2>6. CASE call' = call
    BY <2>3, <2>6
  <2>7. QED BY <2>4, <2>5, <2>6 DEF Next, Serve, Arrive, Refuse, Scanned, ScanFailed,
     WorkerStops, CancelStore, NotifyWorker, NoticeFails, Reset, AdvanceClock, vars
<1>7. QED BY <1>3, <1>4, <1>5, <1>6

\* core.py and store.py against api.py: whatever the number of retries, a
\* result that a worker declared void is never recorded as completed.
THEOREM VoidResultsAreDropped == Spec => []VoidIsNotRecorded
<1>1. Init => VoidInv
  BY RemoteAssumption DEF Init, VoidInv, NoPost
<1>2. RemoteInv /\ VoidInv /\ [Next]_vars => VoidInv'
  BY VoidInvStep
<1>3. VoidInv => VoidIsNotRecorded
  BY DEF VoidInv, VoidIsNotRecorded
<1>4. QED BY <1>1, <1>2, <1>3, RemoteInvHolds, PTL DEF Spec
\* A step keeps every registry entry backed by a scan of its worker.
LEMMA DrainStep ==
    ASSUME RemoteInv, RegistryIsDrained, [Next]_vars
    PROVE  RegistryIsDrained'
<1> SUFFICES ASSUME NEW w \in Workers, NEW r \in Runs, registry'[w][r] # "absent"
             PROVE  \E k \in 0..Retries : post'[<<r, w, k>>].pc = "scanning"
  BY DEF RegistryIsDrained
<1>0. TypeOK
  BY DEF RemoteInv
<1>1. \A k \in 0..Retries : <<r, w, k>> \in Posts
  BY DEF Posts
<1>2. registry[w][r] # "absent" =>
         \E k \in 0..Retries : post[<<r, w, k>>].pc = "scanning"
  BY DEF RegistryIsDrained
<1>3. CASE \E p \in Posts : Serve(p)
  <2>1. PICK p \in Posts : Serve(p)
    BY <1>3
  <2>2. /\ p = <<p[1], p[2], p[3]>> /\ p[1] \in Runs /\ p[2] \in Workers
        /\ p[3] \in 0..Retries
    BY DEF Posts
  <2>3. \A q \in Posts \ {p} : post'[q] = post[q]
    BY <1>0, <2>1 DEF Serve, Arrive, Refuse, Scanned, ScanFailed, TypeOK
  <2>4. CASE p[1] = r /\ p[2] = w
    <3>1. CASE Arrive(p)
      <4>1. post'[p].pc = "scanning"
        BY <1>0, <3>1 DEF Arrive, TypeOK, Post
      <4>2. QED BY <2>2, <2>4, <4>1
    <3>2. CASE Refuse(p)
      <4>1. post[p].pc = "sent" /\ registry' = registry
        BY <3>2 DEF Refuse
      <4>2. PICK k \in 0..Retries : post[<<r, w, k>>].pc = "scanning"
        BY <1>2, <4>1
      <4>3. <<r, w, k>> # p
        BY <4>1, <4>2
      <4>4. QED BY <1>1, <2>3, <4>2, <4>3
    <3>3. CASE Scanned(p) \/ ScanFailed(p)
      <4>1. registry' = [registry EXCEPT ![w][r] = "absent"]
        BY <2>4, <3>3 DEF Scanned, ScanFailed, Pop
      <4>2. QED BY <1>0, <4>1 DEF TypeOK
    <3>4. QED BY <2>1, <3>1, <3>2, <3>3 DEF Serve
  <2>5. CASE ~(p[1] = r /\ p[2] = w)
    <3>1. \/ registry' = registry
          \/ registry' = [registry EXCEPT ![p[2]][p[1]] = "live"]
          \/ registry' = [registry EXCEPT ![p[2]][p[1]] = "absent"]
      BY <2>1 DEF Serve, Arrive, Refuse, Scanned, ScanFailed, Pop
    <3>2. registry'[w][r] = registry[w][r]
      BY <1>0, <2>2, <2>5, <3>1 DEF TypeOK
    <3>3. \A k \in 0..Retries : <<r, w, k>> # p
      BY <2>5
    <3>4. QED BY <1>1, <1>2, <2>3, <3>2, <3>3
  <2>6. QED BY <2>4, <2>5
<1>4. CASE \E s \in Runs : Send(s)
  <2>1. PICK s \in Runs : Send(s)
    BY <1>4
  <2>2. post[Current(s)].pc = "none"
    BY <2>1, SlotIsFresh DEF Send
  <2>3. \A q \in Posts \ {Current(s)} : post'[q] = post[q]
    BY <1>0, <2>1 DEF Send, TypeOK
  <2>4. registry' = registry
    BY <2>1 DEF Send
  <2>5. PICK k \in 0..Retries : post[<<r, w, k>>].pc = "scanning"
    BY <1>2, <2>4
  <2>6. <<r, w, k>> # Current(s)
    BY <2>2, <2>5
  <2>7. QED BY <1>1, <2>3, <2>5, <2>6
<1>5. CASE \E s \in Runs : NotifyWorker(s)
  <2>1. PICK s \in Runs : NotifyWorker(s)
    BY <1>5
  <2>2. \A p \in Posts : post'[p].pc = post[p].pc
    BY <1>0, <2>1, NotifyKeepsPcs
  <2>3. notice[s] \in Workers
    BY <1>0, <2>1 DEF NotifyWorker, TypeOK
  <2>4. CASE registry[notice[s]][s] = "absent"
    <3>1. registry' = registry
      BY <2>1, <2>4 DEF NotifyWorker
    <3>2. QED BY <1>1, <1>2, <2>2, <3>1
  <2>5. CASE registry[notice[s]][s] # "absent"
    <3>1. registry' = [registry EXCEPT ![notice[s]][s] = "marked"]
      BY <2>1, <2>5 DEF NotifyWorker
    <3>2. registry[w][r] # "absent"
      BY <1>0, <2>3, <2>5, <3>1 DEF TypeOK
    <3>3. QED BY <1>1, <1>2, <2>2, <3>2
  <2>6. QED BY <2>4, <2>5
<1>6. CASE \E v \in Workers : WorkerStops(v)
  <2>1. PICK v \in Workers : WorkerStops(v)
    BY <1>6
  <2>2. registry' = [registry EXCEPT ![v] = [s \in Runs |-> "absent"]]
    BY <2>1 DEF WorkerStops
  <2>3. v # w /\ registry'[w] = registry[w]
    BY <1>0, <2>2 DEF TypeOK
  <2>4. \A k \in 0..Retries : post'[<<r, w, k>>] = post[<<r, w, k>>]
    BY <1>1, <2>1, <2>3 DEF WorkerStops
  <2>5. QED BY <1>2, <2>3, <2>4
<1>7. CASE post' = post /\ registry' = registry
  BY <1>2, <1>7
<1>8. QED BY <1>3, <1>4, <1>5, <1>6, <1>7 DEF Next, Execute, Begin, Skip, PreflightFails,
   Fails, Result, Record, CancelStore, NoticeFails, Reset, AdvanceClock, vars

\* rpc_execute and rpc_cancel: whatever is lost, fails, stops or is retried, the
\* registry holds only runs that its worker scans.
THEOREM RegistryDrains == Spec => []RegistryIsDrained
<1>1. Init => RegistryIsDrained
  BY DEF Init, RegistryIsDrained
<1>2. QED BY <1>1, DrainStep, RemoteInvHolds, PTL DEF Spec

-----------------------------------------------------------------------------

\* With no retries a run has one request for a worker.
LEMMA MarkInvStep ==
    ASSUME Retries = 0, RemoteInv, MarkInv, [Next]_vars
    PROVE  MarkInv'
<1> SUFFICES ASSUME NEW p \in Posts
             PROVE  /\ post'[p].pc = "scanning" => registry'[p[2]][p[1]] # "absent"
                    /\ post'[p].told =>
                         /\ post'[p].pc \in {"scanning", "void"}
                         /\ post'[p].pc = "scanning" => registry'[p[2]][p[1]] = "marked"
  BY DEF MarkInv, ScanIsRegistered
<1>0. TypeOK /\ post[p] \in Post
  BY DEF RemoteInv, TypeOK
<1>1. /\ post[p].pc = "scanning" => registry[p[2]][p[1]] # "absent"
      /\ post[p].told => /\ post[p].pc \in {"scanning", "void"}
                         /\ post[p].pc = "scanning" => registry[p[2]][p[1]] = "marked"
  BY DEF MarkInv, ScanIsRegistered
<1>2. p[1] \in Runs /\ p[2] \in Workers
  BY DEF Posts
<1>3. CASE \E q \in Posts : Serve(q)
  <2>1. PICK q \in Posts : Serve(q)
    BY <1>3
  <2>2. q[1] \in Runs /\ q[2] \in Workers
    BY DEF Posts
  <2>3. CASE p # q
    <3>1. p[1] # q[1] \/ p[2] # q[2]
      BY <2>3 DEF Posts
    <3>2. post'[p] = post[p]
      BY <1>0, <2>1, <2>3 DEF Serve, Arrive, Refuse, Scanned, ScanFailed, TypeOK
    <3>3. \/ registry' = registry
          \/ registry' = [registry EXCEPT ![q[2]][q[1]] = "live"]
          \/ registry' = [registry EXCEPT ![q[2]][q[1]] = "absent"]
      BY <2>1 DEF Serve, Arrive, Refuse, Scanned, ScanFailed, Pop
    <3>4. registry'[p[2]][p[1]] = registry[p[2]][p[1]]
      BY <1>0, <1>2, <2>2, <3>1, <3>3 DEF TypeOK
    <3>5. QED BY <1>1, <3>2, <3>4
  <2>4. CASE p = q
    <3>1. CASE Arrive(p)
      <4>1. post'[p] = [post[p] EXCEPT !.pc = "scanning"] /\ ~post[p].told
        BY <1>0, <1>1, <3>1 DEF Arrive, TypeOK, Post
      <4>2. registry'[p[2]][p[1]] = "live"
        BY <1>0, <1>2, <3>1 DEF Arrive, TypeOK
      <4>3. QED BY <1>0, <4>1, <4>2 DEF Post
    <3>2. CASE Refuse(p)
      <4>1. PICK s \in {"error", "refused"} : post'[p] = [post[p] EXCEPT !.pc = s]
        BY <1>0, <3>2 DEF Refuse, TypeOK
      <4>2. ~post[p].told
        BY <1>0, <1>1, <3>2 DEF Refuse, Post
      <4>3. QED BY <1>0, <4>1, <4>2 DEF Post
    <3>3. CASE Scanned(p)
      <4>1. post[p].pc = "scanning"
        BY <3>3 DEF Scanned
      <4>2. post'[p] = [post[p] EXCEPT !.pc =
                          IF registry[p[2]][p[1]] = "marked" THEN "void" ELSE "ok"]
        BY <1>0, <3>3 DEF Scanned, TypeOK
      <4>3. QED BY <1>0, <1>1, <4>1, <4>2 DEF Post
    <3>4. CASE ScanFailed(p)
      BY <1>0, <3>4 DEF ScanFailed, TypeOK
    <3>5. QED BY <2>1, <2>4, <3>1, <3>2, <3>3, <3>4 DEF Serve
  <2>5. QED BY <2>3, <2>4
<1>4. CASE \E s \in Runs : Send(s)
  <2>1. PICK s \in Runs : post' = [post EXCEPT ![Current(s)] = [pc |-> "sent", told |-> FALSE]]
                          /\ registry' = registry
    BY <1>4 DEF Send
  <2>2. CASE p = Current(s)
    BY <1>0, <2>1, <2>2 DEF TypeOK
  <2>3. CASE p # Current(s)
    <3>1. post'[p] = post[p]
      BY <1>0, <2>1, <2>3 DEF TypeOK
    <3>2. QED BY <1>1, <2>1, <3>1
  <2>4. QED BY <2>2, <2>3
<1>5. CASE \E s \in Runs : NotifyWorker(s)
  <2>1. PICK s \in Runs : NotifyWorker(s)
    BY <1>5
  <2>2. notice[s] \in Workers
    BY <1>0, <2>1 DEF NotifyWorker, TypeOK
  <2>3. CASE registry[notice[s]][s] = "absent"
    <3>1. registry' = registry /\ post' = post
      BY <2>1, <2>3 DEF NotifyWorker
    <3>2. QED BY <1>1, <3>1
  <2>4. CASE registry[notice[s]][s] # "absent"
    <3>1. /\ registry' = [registry EXCEPT ![notice[s]][s] = "marked"]
          /\ post'[p] = IF p[1] = s /\ p[2] = notice[s] /\ post[p].pc = "scanning"
                        THEN [post[p] EXCEPT !.told = TRUE] ELSE post[p]
      BY <2>1, <2>4 DEF NotifyWorker
    <3>2. CASE p[1] = s /\ p[2] = notice[s]
      <4>1. registry'[p[2]][p[1]] = "marked"
        BY <1>0, <1>2, <3>1, <3>2 DEF TypeOK
      <4>2. QED BY <1>0, <1>1, <3>1, <4>1 DEF Post
    <3>3. CASE ~(p[1] = s /\ p[2] = notice[s])
      <4>1. registry'[p[2]][p[1]] = registry[p[2]][p[1]] /\ post'[p] = post[p]
        BY <1>0, <1>2, <2>2, <3>1, <3>3 DEF TypeOK
      <4>2. QED BY <1>1, <4>1
    <3>4. QED BY <3>2, <3>3
  <2>5. QED BY <2>3, <2>4
<1>6. CASE \E v \in Workers : WorkerStops(v)
  <2>1. PICK v \in Workers : WorkerStops(v)
    BY <1>6
  <2>2. CASE p[2] = v
    <3>1. post'[p] = IF post[p].pc \in {"sent", "scanning"}
                     THEN [pc |-> "error", told |-> FALSE] ELSE post[p]
      BY <2>1, <2>2 DEF WorkerStops
    <3>2. QED BY <1>1, <3>1
  <2>3. CASE p[2] # v
    <3>1. post'[p] = post[p] /\ registry'[p[2]] = registry[p[2]]
      BY <1>0, <1>2, <2>1, <2>3 DEF WorkerStops, TypeOK
    <3>2. QED BY <1>1, <3>1
  <2>4. QED BY <2>2, <2>3
<1>7. CASE post' = post /\ registry' = registry
  BY <1>1, <1>7
<1>8. QED BY <1>3, <1>4, <1>5, <1>6, <1>7 DEF Next, Execute, Begin, Skip, PreflightFails,
   Fails, Result, Record, CancelStore, NoticeFails, Reset, AdvanceClock, vars

LEMMA MarkInvHolds == ASSUME Retries = 0 PROVE Spec => []MarkInv
<1>1. Init => MarkInv
  BY DEF Init, MarkInv, ScanIsRegistered, NoPost
<1>2. RemoteInv /\ MarkInv /\ [Next]_vars => MarkInv'
  BY MarkInvStep
<1>3. QED BY <1>1, <1>2, RemoteInvHolds, PTL DEF Spec

\* ADR-115: without retries, as the pool calls its executors, a scan that was
\* marked before it ended is returned as cancelled.
THEOREM MarkReachesResult == ASSUME Retries = 0 PROVE Spec => []MarkIsHonoured
<1>1. MarkInv => MarkIsHonoured
  BY DEF MarkInv, MarkIsHonoured
<1>2. QED BY <1>1, MarkInvHolds, PTL

\* rpc_cancel: without retries, a worker is never asked in vain for a run that
\* it is scanning.
THEOREM ScansAreKnown == ASSUME Retries = 0 PROVE Spec => []ScanIsRegistered
<1>1. MarkInv => ScanIsRegistered
  BY DEF MarkInv
<1>2. QED BY <1>1, MarkInvHolds, PTL
=============================================================================
