---------------------------- MODULE DaoOps_proofs ----------------------------
(***************************************************************************)
(* The proofs about the DAO operations of lido-on-polygon, for any checks,  *)
(* windows, cadences and levels of the buffer.                              *)
(***************************************************************************)
EXTENDS DaoOps, FiniteSetTheorems, TLAPS

-----------------------------------------------------------------------------
(* The DAO operations.  A block's call is the current one of its run, or its  *)
(* run has failed, or timed out, which counts as a failure too.               *)
DaoCall == [block : Nat, check : Kinds, live : BOOLEAN, bad : BOOLEAN, level : Level]
DaoRun == [at : {"none", "running", "answered", "errored", "timedOut", "late"}, retries : Nat,
           found : SUBSET Kinds, failed : BOOLEAN, bad : SUBSET Checks,
           level : Level]

CallIsRun(p) ==
    /\ p \in DaoCall /\ p.block \in Blocks /\ p.block <= now
    /\ p.live => run[p.block].at \in {"running", "timedOut"}
    /\ ~p.live => run[p.block].failed
    /\ p.bad => p.check # "buffered"
DaoTyped ==
    /\ now \in Nat /\ Epoch <= now
    /\ run \in [Blocks -> DaoRun]
    /\ \A b \in Blocks : run[b].at = "timedOut" => run[b].failed
    /\ \A p \in pending : CallIsRun(p)
    /\ lastReported \in [Kinds -> Nat]
    /\ \A k \in Kinds : lastReported[k] = 0 \/ lastReported[k] \in Epoch + 1..now
    /\ now <= MaxTime \/ now = Epoch

(* A block's report is delivered, or will be with its run, unless that fails. *)
IsReported(k, b) ==
    \/ <<k, b>> \in delivered
    \/ run[b].failed
    \/ run[b].at = "running" /\ k \in run[b].found
ThrottleIsReport == \A k \in Kinds : lastReported[k] # 0 => IsReported(k, lastReported[k])

(* What a block gave reason for is reported, or asked for by its current call.*)
IsAsked(k, b) == \E p \in pending : p.block = b /\ p.check = k /\ p.live /\ p.bad
DueIsHandled ==
    \A k \in Kinds, b \in Blocks :
        <<k, b>> \in due => /\ b <= now
                            /\ IsAsked(k, b) \/ \E a \in Since(k, b) : IsReported(k, a)

DaoInv == DaoTyped /\ ThrottleIsReport /\ DueIsHandled

LEMMA DaoNumbers ==
    ASSUME DaoOpsAssumption
    PROVE
    /\ {Huge, High, MaxInterval, maxHandlerRetries, Epoch, MaxTime} \subseteq Nat
    /\ maxHandlerRetries > 0
    /\ "buffered" \notin Checks /\ "rewards" \notin Checks
    /\ \A k \in Kinds : Window[k] \in Nat /\ Window[k] < Epoch
    /\ Kinds = Checks \union {"buffered", "rewards"}
    /\ \A b \in Blocks : b \in Nat /\ b > Epoch /\ b <= MaxTime
    /\ \A b \in Nat : b > Epoch /\ b <= MaxTime => b \in Blocks
    /\ Levels \subseteq Level
<1>1. Kinds = Checks \union {"buffered", "rewards"}
    BY DEF Kinds
<1>2. /\ {Huge, High, MaxInterval, maxHandlerRetries, Epoch, MaxTime} \subseteq Nat
      /\ maxHandlerRetries > 0
      /\ {"buffered", "rewards"} \intersect Checks = {}
      /\ Window \in [Checks \union {"buffered", "rewards"} -> Nat]
      /\ \A w \in DOMAIN Window : Window[w] < Epoch
      /\ Levels \subseteq {"normal", "high", "huge"}
    BY DEF DaoOpsAssumption
<1>3. \A b \in Blocks : b \in Nat /\ b > Epoch /\ b <= MaxTime
    BY <1>2 DEF Blocks
<1>4. \A b \in Nat : b > Epoch /\ b <= MaxTime => b \in Blocks
    BY <1>2 DEF Blocks
<1> QED BY <1>1, <1>2, <1>3, <1>4 DEF Level

LEMMA DaoInit == DaoOpsAssumption /\ Init => DaoInv
<1> SUFFICES ASSUME DaoOpsAssumption, Init PROVE DaoInv
    OBVIOUS
<1>1. /\ now = Epoch /\ run = [b \in Blocks |-> NoRun] /\ pending = {}
      /\ lastReported = [k \in Kinds |-> 0] /\ due = {}
    BY DEF Init, Kinds
<1>2. NoRun \in DaoRun /\ NoRun.at = "none"
    BY DEF NoRun, DaoRun, Level
<1> QED BY <1>1, <1>2, DaoNumbers DEF DaoInv, DaoTyped, ThrottleIsReport, DueIsHandled

(* What is reported stays so as long as the runs go on in one of three ways:  *)
(* a run stays failed, finds more, or delivers.                               *)
Grows(b) == /\ run[b].failed => run'[b].failed
            /\ run[b].at = "running" =>
                   \/ run'[b].failed
                   \/ run'[b].at = "running" /\ run[b].found \subseteq run'[b].found
                   \/ \A k \in run[b].found : <<k, b>> \in delivered'

LEMMA StaysReported ==
    ASSUME delivered \subseteq delivered', NEW b, Grows(b), NEW k, IsReported(k, b)
    PROVE  IsReported(k, b)'
BY DEF IsReported, Grows

(* The blocks of a throttle's window.                                         *)
LEMMA WindowOf ==
    ASSUME DaoOpsAssumption, DaoTyped, NEW k \in Kinds, NEW b \in Blocks, throttled(k, b),
           b > now
    PROVE  lastReported[k] # 0 /\ lastReported[k] \in Since(k, b) /\ lastReported[k] <= now
<1>1. /\ lastReported[k] + Window[k] >= b /\ b \in Nat /\ b > Epoch /\ Epoch \in Nat
      /\ Window[k] < Epoch /\ Window[k] \in Nat /\ b <= MaxTime /\ MaxTime \in Nat
      /\ lastReported[k] \in Nat /\ now \in Nat
      /\ lastReported[k] = 0 \/ lastReported[k] \in Epoch + 1..now
    BY DaoNumbers DEF throttled, DaoTyped
<1>2. lastReported[k] # 0
    BY <1>1
<1>3. lastReported[k] \in Blocks /\ lastReported[k] <= now /\ lastReported[k] <= b
    <2>1. lastReported[k] > Epoch /\ lastReported[k] <= now /\ lastReported[k] <= b
          /\ lastReported[k] <= MaxTime
        BY <1>1, <1>2
    <2> QED BY <1>1, <2>1, DaoNumbers
<1> QED BY <1>1, <1>2, <1>3 DEF Since

(* The requests of a call of the block b; those of earlier ones go on.        *)
LEMMA OrphanedDao ==
    ASSUME NEW S, NEW b, \A p \in S : p \in DaoCall
    PROVE  \A q \in orphaned(S, b) :
               \E p \in S : /\ q \in DaoCall /\ q.block = p.block /\ q.check = p.check /\ q.bad = p.bad
                            /\ q.level = p.level
                            /\ q.live = (p.live /\ p.block # b)
<1> SUFFICES ASSUME NEW p \in S
             PROVE  LET q == [p EXCEPT !.live = p.live /\ p.block # b]
                    IN  /\ q \in DaoCall /\ q.block = p.block /\ q.check = p.check /\ q.bad = p.bad
                        /\ q.level = p.level
                        /\ q.live = (p.live /\ p.block # b)
    BY DEF orphaned
<1> QED BY DEF DaoCall

LEMMA OrphanedStays ==
    ASSUME NEW S, NEW b, NEW p \in S, p \in DaoCall, p.block # b
    PROVE  p \in orphaned(S, b)
<1>1. [p EXCEPT !.live = p.live /\ p.block # b] = p
    <2>1. (p.live /\ p.block # b) = p.live
        BY DEF DaoCall
    <2> QED BY <2>1 DEF DaoCall
<1> QED BY <1>1 DEF orphaned

(* What a call of the block b does, whose run becomes r.                      *)
CallsAre(b, r, S) ==
    /\ \E F \in SUBSET {"rewards"} :
          /\ run' = [run EXCEPT ![b] = [r EXCEPT !.found = F]]
          /\ lastReported' = [lastReported EXCEPT !["rewards"] = IF F # {} THEN b ELSE lastReported["rewards"]]
          /\ delayed(b) /\ F = {} => throttled("rewards", b)
    /\ \A q \in pending' :
          \/ q \in orphaned(S, b)
          \/ /\ q \in DaoCall /\ q.block = b /\ q.live /\ q.bad = (q.check \in r.bad)
             /\ q.check = "buffered" => q.level = r.level
    /\ orphaned(S, b) \subseteq pending'
    /\ \A c \in asking(b) : \E q \in pending' :
          q.block = b /\ q.check = c /\ q.live /\ q.bad = (c \in r.bad)

LEMMA CallsDao ==
    ASSUME DaoOpsAssumption, NEW b \in Blocks, NEW r \in DaoRun, NEW S, calls(b, r, S),
           \A p \in S : p \in DaoCall, run \in [Blocks -> DaoRun],
           lastReported \in [Kinds -> Nat]
    PROVE  CallsAre(b, r, S)
<1> DEFINE L == delayed(b) /\ ~throttled("rewards", b)
           ask(c) == [block |-> b, check |-> c, live |-> TRUE, bad |-> c \in r.bad,
                      level |-> IF c = "buffered" THEN r.level ELSE "normal"]
<1>1. /\ lastReported' = [lastReported EXCEPT !["rewards"] = IF L THEN b ELSE lastReported["rewards"]]
      /\ run' = [run EXCEPT ![b] = [r EXCEPT !.found = IF L THEN {"rewards"} ELSE {}]]
      /\ pending' = orphaned(S, b) \union {ask(c) : c \in asking(b)}
    BY DEF calls
<1>2. \E F \in SUBSET {"rewards"} :
          /\ run' = [run EXCEPT ![b] = [r EXCEPT !.found = F]]
          /\ lastReported' = [lastReported EXCEPT !["rewards"] = IF F # {} THEN b ELSE lastReported["rewards"]]
          /\ delayed(b) /\ F = {} => throttled("rewards", b)
    <2>1. CASE L
        <3> WITNESS {"rewards"} \in SUBSET {"rewards"}
        <3> QED BY <1>1, <2>1
    <2>2. CASE ~L
        <3> WITNESS {} \in SUBSET {"rewards"}
        <3> QED BY <1>1, <2>2
    <2> QED BY <2>1, <2>2
<1>3. b \in Nat /\ r.level \in Level /\ "normal" \in Level
      /\ asking(b) \subseteq Kinds
    BY DaoNumbers DEF DaoRun, asking, Level
<1>4. ASSUME NEW c \in asking(b)
      PROVE  /\ ask(c) \in DaoCall /\ ask(c).block = b /\ ask(c).live /\ ask(c).check = c
             /\ ask(c).bad = (c \in r.bad)
             /\ c = "buffered" => ask(c).level = r.level
    BY <1>3 DEF DaoCall
<1> HIDE DEF ask, L
<1>5. \A q \in pending' :
          \/ q \in orphaned(S, b)
          \/ /\ q \in DaoCall /\ q.block = b /\ q.live /\ q.bad = (q.check \in r.bad)
             /\ q.check = "buffered" => q.level = r.level
    BY <1>1, <1>4
<1>6. \A c \in asking(b) : \E q \in pending' :
          q.block = b /\ q.check = c /\ q.live /\ q.bad = (c \in r.bad)
    BY <1>1, <1>4
<1> QED BY <1>1, <1>2, <1>5, <1>6 DEF CallsAre

(* The next block: whatever it gives reason for is asked for, or throttled by *)
(* a report of the window.                                                    *)
LEMMA DaoBlockStep == DaoOpsAssumption /\ DaoInv /\ handleBlock => DaoInv'
<1> SUFFICES ASSUME DaoOpsAssumption, DaoInv, handleBlock PROVE DaoInv'
    OBVIOUS
<1> DEFINE b == now + 1
<1>1. PICK level \in Levels : \E bad \in SUBSET {c \in Checks : b % Cadence[c] = 0} :
          /\ calls(b, [NoRun EXCEPT !.at = "running", !.retries = maxHandlerRetries - 1,
                                                       !.bad = bad, !.level = level], pending)
          /\ due' = due \union ((IF delayed(b) THEN bad \union {"rewards"} ELSE bad) \X {b})
    BY DEF handleBlock
<1>2. PICK bad \in SUBSET {c \in Checks : b % Cadence[c] = 0} :
          /\ calls(b, [NoRun EXCEPT !.at = "running", !.retries = maxHandlerRetries - 1,
                                                       !.bad = bad, !.level = level], pending)
          /\ due' = due \union ((IF delayed(b) THEN bad \union {"rewards"} ELSE bad) \X {b})
    BY <1>1
<1> DEFINE r == [NoRun EXCEPT !.at = "running", !.retries = maxHandlerRetries - 1,
                                        !.bad = bad, !.level = level]
<1>3. /\ now' = b /\ now \in Nat /\ b \in Nat /\ b > now /\ b <= MaxTime
      /\ b \in Blocks /\ Epoch \in Nat /\ MaxTime \in Nat
      /\ UNCHANGED delivered /\ Epoch <= now
    <2>1. now \in Nat /\ Epoch \in Nat /\ MaxTime \in Nat /\ Epoch <= now
        BY DaoNumbers DEF DaoInv, DaoTyped
    <2>2. now < MaxTime /\ now' = b /\ UNCHANGED delivered
        BY DEF handleBlock
    <2>3. b \in Nat /\ b > now /\ b <= MaxTime /\ b > Epoch
        BY <2>1, <2>2
    <2> QED BY <2>1, <2>2, <2>3, DaoNumbers
<1>4. r \in DaoRun /\ r.bad = bad /\ r.at = "running" /\ r.failed = FALSE /\ r.level = level
    <2>1. maxHandlerRetries - 1 \in Nat
        BY DaoNumbers
    <2> QED BY <2>1, DaoNumbers DEF DaoRun, NoRun, Level
<1> HIDE DEF b
<1>5. calls(b, r, pending)
    BY <1>2
<1> HIDE DEF r
<1>6. /\ \A p \in pending : p \in DaoCall /\ p.block # b
      /\ run \in [Blocks -> DaoRun] /\ lastReported \in [Kinds -> Nat]
    BY <1>3 DEF DaoInv, DaoTyped, CallIsRun, DaoCall
<1>7. CallsAre(b, r, pending)
    BY <1>3, <1>4, <1>5, <1>6, CallsDao
<1>8. PICK F \in SUBSET {"rewards"} :
          /\ run' = [run EXCEPT ![b] = [r EXCEPT !.found = F]]
          /\ lastReported' = [lastReported EXCEPT !["rewards"] = IF F # {} THEN b ELSE lastReported["rewards"]]
          /\ delayed(b) /\ F = {} => throttled("rewards", b)
    BY <1>7 DEF CallsAre
<1>9. /\ run' \in [Blocks -> DaoRun]
      /\ run'[b].at = "running" /\ run'[b].failed = FALSE /\ run'[b].found = F
      /\ \A a \in Blocks : a # b => run'[a] = run[a]
    <2>1. [r EXCEPT !.found = F] \in DaoRun /\ [r EXCEPT !.found = F].at = "running"
          /\ [r EXCEPT !.found = F].failed = FALSE /\ [r EXCEPT !.found = F].found = F
        <3>1. F \subseteq Kinds
            BY DaoNumbers
        <3> QED BY <1>4, <3>1 DEF DaoRun
    <2> QED BY <1>3, <1>6, <1>8, <2>1
<1>10. \A a \in Blocks : a # b => Grows(a)
    BY <1>3, <1>9 DEF Grows
<1>11. ASSUME NEW q \in pending' PROVE CallIsRun(q)'
    <2>1. CASE q \in orphaned(pending, b)
        <3>1. PICK p \in pending : /\ q \in DaoCall /\ q.block = p.block /\ q.check = p.check
                                      /\ q.bad = p.bad /\ q.live = (p.live /\ p.block # b)
            BY <1>6, <2>1, OrphanedDao
        <3>2. CallIsRun(p) /\ p.block # b /\ p.live \in BOOLEAN
            BY <1>6 DEF DaoInv, DaoTyped, DaoCall
        <3>3. q.live = p.live /\ run'[q.block] = run[p.block]
            BY <1>9, <3>1, <3>2 DEF CallIsRun
        <3>4. p.block <= now' /\ p.block \in Blocks
            <4>1. p.block <= now /\ p.block \in Blocks
                BY <3>2 DEF CallIsRun
            <4>2. p.block \in Nat
                BY <4>1, DaoNumbers
            <4> QED BY <1>3, <4>1, <4>2
        <3> QED BY <3>1, <3>2, <3>3, <3>4 DEF CallIsRun
    <2>2. CASE q \in DaoCall /\ q.block = b /\ q.live /\ q.bad = (q.check \in r.bad)
        <3>1. q.bad => q.check \in Checks
            BY <1>4, <2>2
        <3>2. q.bad => q.check # "buffered"
            BY <3>1, DaoNumbers
        <3> QED BY <1>3, <1>9, <2>2, <3>2 DEF CallIsRun
    <2> QED BY <1>7, <2>1, <2>2 DEF CallsAre
<1>12. ASSUME NEW k \in Kinds
       PROVE  /\ lastReported'[k] \in Nat
              /\ lastReported'[k] = 0 \/ lastReported'[k] \in Epoch + 1..b
              /\ (lastReported[k] # 0 => IsReported(k, lastReported[k]))'
    <2>1. CASE k = "rewards" /\ F # {}
        <3>1. lastReported'[k] = b /\ k \in F
            BY <1>6, <1>8, <2>1
        <3>2. b \in Epoch + 1..b
            BY <1>3
        <3> QED BY <1>3, <1>9, <3>1, <3>2 DEF IsReported
    <2>2. CASE ~(k = "rewards" /\ F # {})
        <3>1. lastReported'[k] = lastReported[k] /\ lastReported[k] \in Nat
            BY <1>6, <1>8, <2>2
        <3>2. lastReported[k] = 0 \/ lastReported[k] \in Epoch + 1..now
            BY DEF DaoInv, DaoTyped
        <3>3. CASE lastReported[k] = 0
            BY <3>1, <3>3
        <3>4. CASE lastReported[k] \in Epoch + 1..now
            <4>1. PICK a \in Epoch + 1..now : a = lastReported[k]
                BY <3>4
            <4>2. a \in Blocks /\ a # b /\ a \in Epoch + 1..b /\ a # 0
                BY <1>3, DaoNumbers
            <4>3. IsReported(k, a)
                BY <4>1, <4>2 DEF DaoInv, ThrottleIsReport
            <4>4. IsReported(k, a)'
                BY <1>3, <1>10, <4>2, <4>3, StaysReported
            <4> QED BY <3>1, <4>1, <4>2, <4>4 DEF IsReported
        <3> QED BY <3>2, <3>3, <3>4
    <2> QED BY <2>1, <2>2
<1>13. DaoTyped' /\ ThrottleIsReport'
    <2>1. lastReported' \in [Kinds -> Nat]
        BY <1>6, <1>8, <1>12
    <2>2. \A a \in Blocks : run'[a].at = "timedOut" => run'[a].failed
        BY <1>9 DEF DaoInv, DaoTyped
    <2>3. now' \in Nat /\ Epoch <= now' /\ now' <= MaxTime
        BY <1>3
    <2>4. DaoTyped'
        BY <1>3, <1>9, <1>11, <1>12, <2>1, <2>2, <2>3 DEF DaoTyped
    <2> QED BY <1>12, <2>4 DEF ThrottleIsReport
<1>14. ASSUME NEW k \in Kinds, NEW a \in Blocks, <<k, a>> \in due'
       PROVE  a <= now' /\ (IsAsked(k, a)' \/ \E e \in Since(k, a) : IsReported(k, e)')
    <2>1. CASE <<k, a>> \in due
        <3>1. a <= now /\ (IsAsked(k, a) \/ \E e \in Since(k, a) : IsReported(k, e))
            BY <2>1 DEF DaoInv, DueIsHandled
        <3>2. a # b /\ a <= now' /\ a \in Nat
            BY <1>3, <3>1, DaoNumbers
        <3>3. ASSUME IsAsked(k, a) PROVE IsAsked(k, a)'
            <4>1. PICK p \in pending : p.block = a /\ p.check = k /\ p.live /\ p.bad
                BY <3>3 DEF IsAsked
            <4>2. p \in pending'
                BY <1>6, <1>7, <4>1, OrphanedStays DEF CallsAre
            <4> QED BY <4>1, <4>2 DEF IsAsked
        <3>4. ASSUME NEW e \in Since(k, a), IsReported(k, e) PROVE IsReported(k, e)'
            <4>1. e \in Blocks /\ e # b
                BY <1>3, <3>1, <3>2, DaoNumbers DEF Since
            <4> QED BY <1>3, <1>10, <3>4, <4>1, StaysReported
        <3> QED BY <3>1, <3>2, <3>3, <3>4
    <2>2. CASE <<k, a>> \notin due
        <3>1. a = b /\ (k \in bad \/ (k = "rewards" /\ delayed(b)))
            <4>1. <<k, a>> \in (IF delayed(b) THEN bad \union {"rewards"} ELSE bad) \X {b}
                BY <1>2, <1>14, <2>2
            <4>2. a = b /\ k \in (IF delayed(b) THEN bad \union {"rewards"} ELSE bad)
                BY <4>1
            <4>3. CASE delayed(b)
                BY <4>2, <4>3 DEF delayed
            <4>4. CASE ~delayed(b)
                BY <4>2, <4>4 DEF delayed
            <4> QED BY <4>3, <4>4
        <3>2. ASSUME throttled(k, b)
              PROVE  \E e \in Since(k, a) : IsReported(k, e)'
            <4>1. PICK e \in Since(k, b) : e = lastReported[k] /\ e # 0 /\ e <= now
                BY <1>3, <3>2, WindowOf DEF DaoInv
            <4>2. e \in Blocks /\ e \in Nat
                BY DaoNumbers DEF Since
            <4>3. e # b /\ IsReported(k, e)
                BY <1>3, <4>1, <4>2 DEF DaoInv, ThrottleIsReport
            <4>4. IsReported(k, e)'
                BY <1>3, <1>10, <4>2, <4>3, StaysReported
            <4> QED BY <3>1, <4>4
        <3>3. CASE k \in bad /\ ~throttled(k, b)
            <4>1. k \in asking(b)
                BY <1>2, <3>3 DEF asking
            <4>2. PICK q \in pending' : q.block = b /\ q.check = k /\ q.live /\ q.bad = (k \in r.bad)
                BY <1>7, <4>1 DEF CallsAre
            <4>3. q.bad
                BY <1>4, <3>3, <4>2
            <4> QED BY <1>3, <3>1, <4>2, <4>3 DEF IsAsked
        <3>4. CASE k \notin bad /\ ~throttled(k, b)
            <4>1. k = "rewards" /\ F = {"rewards"}
                BY <1>8, <3>1, <3>4
            <4>2. b \in Since(k, b)
                BY <1>3, DaoNumbers DEF Since
            <4> QED BY <1>3, <1>9, <3>1, <4>1, <4>2 DEF IsReported
        <3> QED BY <1>3, <3>1, <3>2, <3>3, <3>4
    <2> QED BY <2>1, <2>2
<1> QED BY <1>13, <1>14 DEF DaoInv, DueIsHandled, Since

(* The steps that leave the requests to the node to others: what is asked for *)
(* stays so, or is reported.                                                  *)
LEMMA DueStays ==
    ASSUME DaoOpsAssumption, DaoInv, delivered \subseteq delivered', due' = due, now' = now,
           \A b \in Blocks : Grows(b),
           \A k \in Kinds, b \in Blocks :
               IsAsked(k, b) => IsAsked(k, b)' \/ IsReported(k, b)'
    PROVE  DueIsHandled'
<1> SUFFICES ASSUME NEW k \in Kinds, NEW b \in Blocks, <<k, b>> \in due
             PROVE  b <= now /\ (IsAsked(k, b)' \/ \E a \in Since(k, b) : IsReported(k, a)')
    BY DEF DueIsHandled, Since
<1>1. b <= now /\ (IsAsked(k, b) \/ \E a \in Since(k, b) : IsReported(k, a))
    BY DEF DaoInv, DueIsHandled
<1>2. ASSUME NEW a \in Since(k, b), IsReported(k, a) PROVE IsReported(k, a)'
    BY <1>2, StaysReported DEF Since
<1>3. b \in Since(k, b)
    BY DaoNumbers DEF Since
<1> QED BY <1>1, <1>2, <1>3

(* A run changes, and only its own.                                           *)
LEMMA RunStep ==
    ASSUME DaoInv, NEW b \in Blocks, NEW r \in DaoRun, run' = [run EXCEPT ![b] = r],
           r.at = "timedOut" => r.failed
    PROVE  /\ run' \in [Blocks -> DaoRun] /\ run'[b] = r
           /\ \A a \in Blocks : a # b => run'[a] = run[a] /\ Grows(a)
           /\ \A a \in Blocks : run'[a].at = "timedOut" => run'[a].failed
BY DEF DaoInv, DaoTyped, Grows

(* A throttle is set for the block of a request, which is then reported.      *)
LEMMA ThrottleStep ==
    ASSUME DaoOpsAssumption, DaoInv, delivered \subseteq delivered', now' = now,
           \A b \in Blocks : Grows(b),
           NEW c \in Kinds, NEW b \in Blocks, b <= now,
           \/ lastReported' = lastReported
           \/ lastReported' = [lastReported EXCEPT ![c] = b] /\ IsReported(c, b)'
    PROVE  /\ lastReported' \in [Kinds -> Nat] /\ ThrottleIsReport'
           /\ \A k \in Kinds : lastReported'[k] = 0 \/ lastReported'[k] \in Epoch + 1..now'
<1>1. /\ now \in Nat /\ Epoch \in Nat /\ b \in Nat /\ b \in Epoch + 1..now
      /\ lastReported \in [Kinds -> Nat]
    <2>1. now \in Nat /\ Epoch \in Nat /\ b \in Nat /\ b > Epoch
        BY DaoNumbers DEF DaoInv, DaoTyped
    <2> QED BY <2>1 DEF DaoInv, DaoTyped
<1>2. lastReported' \in [Kinds -> Nat]
    BY <1>1
<1>3. ASSUME NEW k \in Kinds
      PROVE  /\ lastReported'[k] = 0 \/ lastReported'[k] \in Epoch + 1..now
             /\ (lastReported[k] # 0 => IsReported(k, lastReported[k]))'
    <2>1. CASE lastReported' = [lastReported EXCEPT ![c] = b] /\ IsReported(c, b)' /\ k = c
        <3>1. lastReported'[k] = b
            BY <1>1, <2>1
        <3> QED BY <1>1, <2>1, <3>1 DEF IsReported
    <2>2. CASE lastReported'[k] = lastReported[k]
        <3>1. lastReported[k] = 0 \/ lastReported[k] \in Epoch + 1..now
            BY DEF DaoInv, DaoTyped
        <3>2. CASE lastReported[k] \in Epoch + 1..now
            <4>1. PICK a \in Epoch + 1..now : a = lastReported[k]
                BY <3>2
            <4>2. a # 0 /\ IsReported(k, a) /\ a \in Blocks
                <5>1. a \in Nat /\ a > Epoch /\ a <= MaxTime
                    BY <1>1, DaoNumbers DEF DaoInv, DaoTyped
                <5>2. a # 0 /\ a \in Blocks
                    BY <1>1, <5>1, DaoNumbers
                <5> QED BY <4>1, <5>2 DEF DaoInv, ThrottleIsReport
            <4>3. IsReported(k, a)'
                BY <4>2, StaysReported
            <4> QED BY <2>2, <3>2, <4>1, <4>3 DEF IsReported
        <3>3. CASE lastReported[k] = 0
            BY <2>2, <3>3
        <3> QED BY <3>1, <3>2, <3>3
    <2> QED BY <1>1, <2>1, <2>2
<1> QED BY <1>2, <1>3 DEF ThrottleIsReport

(* The answer to a request: its finding goes with the throttle.               *)
LEMMA AnswerStep ==
    ASSUME DaoOpsAssumption, DaoInv, NEW p \in pending, NEW K \in SUBSET Kinds, pending' = pending \ {p},
           finds(p, K), UNCHANGED <<now, delivered, due>>, p.bad => p.check \in K,
           \/ lastReported' = lastReported
           \/ lastReported' = [lastReported EXCEPT ![p.check] = p.block] /\ p.check \in K
    PROVE  DaoInv'
<1> DEFINE b == p.block
           r == [run[b] EXCEPT !.found = IF p.live THEN run[b].found \union K ELSE run[b].found]
<1>1. /\ CallIsRun(p) /\ b \in Blocks /\ b <= now /\ p.check \in Kinds
      /\ run[b] \in DaoRun /\ (run[b].at = "timedOut" => run[b].failed) /\ p.live \in BOOLEAN
    BY DEF DaoInv, DaoTyped, CallIsRun, DaoCall
<1>2. run' = [run EXCEPT ![b] = r]
    BY DEF finds
<1>3. /\ r \in DaoRun /\ r.at = run[b].at /\ r.failed = run[b].failed
      /\ r.found = IF p.live THEN run[b].found \union K ELSE run[b].found
    BY <1>1 DEF DaoRun
<1> HIDE DEF r
<1>4. /\ run' \in [Blocks -> DaoRun] /\ run'[b] = r
      /\ \A a \in Blocks : a # b => run'[a] = run[a] /\ Grows(a)
      /\ \A a \in Blocks : run'[a].at = "timedOut" => run'[a].failed
    BY <1>1, <1>2, <1>3, RunStep
<1>5. Grows(b)
    BY <1>3, <1>4 DEF Grows
<1>6. ASSUME p.check \in K PROVE IsReported(p.check, b)'
    BY <1>1, <1>3, <1>4, <1>6 DEF IsReported, CallIsRun
<1>7. \A a \in Blocks : Grows(a)
    BY <1>4, <1>5
<1>8. /\ lastReported' \in [Kinds -> Nat] /\ ThrottleIsReport'
      /\ \A k \in Kinds : lastReported'[k] = 0 \/ lastReported'[k] \in Epoch + 1..now'
    BY <1>1, <1>6, <1>7, ThrottleStep
<1>9. ASSUME NEW q \in pending' PROVE CallIsRun(q)'
    <2>1. CallIsRun(q)
        BY DEF DaoInv, DaoTyped
    <2>2. run'[q.block].at = run[q.block].at /\ run'[q.block].failed = run[q.block].failed
        BY <1>3, <1>4, <2>1 DEF CallIsRun
    <2> QED BY <2>1, <2>2 DEF CallIsRun
<1>10. DaoTyped'
    BY <1>4, <1>8, <1>9 DEF DaoInv, DaoTyped
<1>11. ASSUME NEW k \in Kinds, NEW a \in Blocks, IsAsked(k, a)
       PROVE  IsAsked(k, a)' \/ IsReported(k, a)'
    <2>1. PICK q \in pending : q.block = a /\ q.check = k /\ q.live /\ q.bad
        BY <1>11 DEF IsAsked
    <2>2. CASE q = p
        BY <1>6, <2>1, <2>2
    <2>3. CASE q # p
        BY <2>1, <2>3 DEF IsAsked
    <2> QED BY <2>2, <2>3
<1>12. DueIsHandled'
    BY <1>7, <1>11, DueStays
<1> QED BY <1>8, <1>10, <1>12 DEF DaoInv

LEMMA DaoAnswers ==
    ASSUME DaoOpsAssumption, DaoInv, NEW p \in pending, checkAnswered(p) \/ bufferedAnswered(p)
    PROVE  DaoInv'
<1>1. p \in DaoCall /\ p.check \in Kinds /\ p.bad \in BOOLEAN /\ (p.bad => p.check # "buffered")
    BY DEF DaoInv, DaoTyped, CallIsRun, DaoCall
<1>2. ASSUME NEW alert \in BOOLEAN, lastReported' = reports(p, alert)
      PROVE  \/ lastReported' = lastReported
             \/ lastReported' = [lastReported EXCEPT ![p.check] = p.block] /\ alert
    BY <1>2 DEF reports, DaoInv, DaoTyped
<1>3. CASE checkAnswered(p)
    <2> DEFINE K == IF p.bad THEN {p.check} ELSE {}
    <2>1. /\ pending' = pending \ {p} /\ finds(p, K)
          /\ lastReported' = reports(p, p.bad) /\ UNCHANGED <<now, delivered, due>>
        BY <1>3 DEF checkAnswered
    <2>2. K \in SUBSET Kinds /\ (p.bad => p.check \in K)
        BY <1>1
    <2>3. \/ lastReported' = lastReported
          \/ lastReported' = [lastReported EXCEPT ![p.check] = p.block] /\ p.bad
        BY <1>1, <1>2, <2>1
    <2> HIDE DEF K
    <2> QED BY <2>1, <2>2, <2>3, AnswerStep
<1>4. CASE bufferedAnswered(p)
    <2>1. PICK alert \in BOOLEAN : /\ lastReported' = reports(p, alert)
                                   /\ finds(p, IF alert THEN {"buffered"} ELSE {})
        BY <1>4 DEF bufferedAnswered, lasts
    <2>2. p.check = "buffered" /\ pending' = pending \ {p} /\ UNCHANGED <<now, delivered, due>>
        BY <1>4 DEF bufferedAnswered
    <2> DEFINE K == IF alert THEN {"buffered"} ELSE {}
    <2>3. /\ K \in SUBSET Kinds /\ (alert => p.check \in K) /\ finds(p, K)
          /\ p.bad => p.check \in K
        BY <1>1, <2>1, <2>2
    <2>4. \/ lastReported' = lastReported
          \/ lastReported' = [lastReported EXCEPT ![p.check] = p.block] /\ alert
        BY <1>2, <2>1
    <2> HIDE DEF K
    <2> QED BY <2>2, <2>3, <2>4, AnswerStep
<1> QED BY <1>3, <1>4

(* A request fails: whatever the block gave reason for counts as reported.    *)
LEMMA FailedStep ==
    ASSUME DaoOpsAssumption, DaoInv, NEW b \in Blocks, run'[b].failed,
           UNCHANGED <<now, delivered, due>>, NEW S \in SUBSET pending,
           orphaned(S, b) \subseteq pending',
           \A q \in pending \ S : q.block = b,
           \A a \in Blocks : a # b => Grows(a)
    PROVE  (\A a \in Blocks : Grows(a)) /\ DueIsHandled'
<1>1. \A a \in Blocks : Grows(a)
    BY DEF Grows
<1>2. ASSUME NEW k \in Kinds, NEW a \in Blocks, IsAsked(k, a)
      PROVE  IsAsked(k, a)' \/ IsReported(k, a)'
    <2>1. PICK q \in pending : q.block = a /\ q.check = k /\ q.live /\ q.bad
        BY <1>2 DEF IsAsked
    <2>2. CASE a = b
        BY <2>2 DEF IsReported
    <2>3. CASE a # b
        <3>1. q \in S /\ q \in DaoCall
            BY <2>1, <2>3 DEF DaoInv, DaoTyped, CallIsRun
        <3>2. q \in pending'
            BY <2>1, <2>3, <3>1, OrphanedStays
        <3> QED BY <2>1, <3>2 DEF IsAsked
    <2> QED BY <2>2, <2>3
<1> QED BY <1>1, <1>2, DueStays

LEMMA OrphansAreRuns ==
    ASSUME DaoInv, NEW b \in Blocks, run'[b].failed, now' = now,
           NEW S \in SUBSET pending, NEW q \in orphaned(S, b),
           \A a \in Blocks : a # b => run'[a] = run[a]
    PROVE  CallIsRun(q)'
<1>1. \A p \in S : p \in DaoCall /\ CallIsRun(p)
    BY DEF DaoInv, DaoTyped, CallIsRun
<1>2. PICK p \in S : /\ q \in DaoCall /\ q.block = p.block /\ q.check = p.check
                     /\ q.bad = p.bad /\ q.live = (p.live /\ p.block # b)
    BY <1>1, OrphanedDao
<1>3. CASE p.block = b
    BY <1>1, <1>2, <1>3 DEF CallIsRun
<1>4. CASE p.block # b
    <2>1. q.live = p.live
        BY <1>1, <1>2, <1>4 DEF DaoCall
    <2> QED BY <1>1, <1>2, <1>4, <2>1 DEF CallIsRun
<1> QED BY <1>3, <1>4

LEMMA DaoFails ==
    ASSUME DaoOpsAssumption, DaoInv, NEW p \in pending, requestFails(p)
    PROVE  DaoInv'
<1> DEFINE b == p.block
<1>1. /\ UNCHANGED <<now, delivered, due>> /\ p \in DaoCall /\ CallIsRun(p) /\ b \in Blocks
      /\ run[b] \in DaoRun /\ b <= now /\ run \in [Blocks -> DaoRun]
      /\ lastReported \in [Kinds -> Nat]
      /\ \A q \in pending : q \in DaoCall
    BY DEF DaoInv, DaoTyped, CallIsRun, requestFails
<1>2. CASE /\ p.live /\ mayRetry(b)
           /\ calls(b, [run[b] EXCEPT !.retries = @ - 1, !.failed = TRUE], pending \ {p})
    <2> DEFINE r == [run[b] EXCEPT !.retries = @ - 1, !.failed = TRUE]
               S == pending \ {p}
    <2>1. r \in DaoRun /\ r.failed /\ r.at = run[b].at /\ r.bad = run[b].bad
        <3>1. run[b].retries - 1 \in Nat
            BY <1>1, <1>2 DEF DaoRun, mayRetry
        <3> QED BY <1>1, <3>1 DEF DaoRun
    <2>2. calls(b, r, S)
        BY <1>2
    <2> HIDE DEF r
    <2>3. CallsAre(b, r, S)
        BY <1>1, <2>1, <2>2, CallsDao
    <2>4. PICK F \in SUBSET {"rewards"} :
              /\ run' = [run EXCEPT ![b] = [r EXCEPT !.found = F]]
              /\ lastReported' = [lastReported EXCEPT !["rewards"] = IF F # {} THEN b ELSE lastReported["rewards"]]
        BY <2>3 DEF CallsAre
    <2> DEFINE e == [r EXCEPT !.found = F]
    <2>5. e \in DaoRun /\ e.failed /\ e.at = run[b].at
        <3>1. F \subseteq Kinds
            BY DaoNumbers
        <3> QED BY <2>1, <3>1 DEF DaoRun
    <2>6. run' = [run EXCEPT ![b] = e]
        BY <2>4
    <2> HIDE DEF e, b
    <2>7. /\ run' \in [Blocks -> DaoRun] /\ run'[b] = e
          /\ \A a \in Blocks : a # b => run'[a] = run[a] /\ Grows(a)
          /\ \A a \in Blocks : run'[a].at = "timedOut" => run'[a].failed
        BY <1>1, <2>5, <2>6, RunStep
    <2>8. (\A a \in Blocks : Grows(a)) /\ DueIsHandled'
        <3>1. orphaned(S, b) \subseteq pending'
            BY <2>3 DEF CallsAre
        <3>2. \A q \in pending \ S : q.block = b
            BY DEF b
        <3> HIDE DEF S
        <3>3. S \in SUBSET pending
            BY DEF S
        <3> QED BY <1>1, <2>5, <2>7, <3>1, <3>2, <3>3, FailedStep
    <2>9. ASSUME NEW q \in pending' PROVE CallIsRun(q)'
        <3>1. CASE q \in orphaned(S, b)
            BY <1>1, <2>5, <2>7, <3>1, OrphansAreRuns
        <3>2. CASE q \in DaoCall /\ q.block = b /\ q.live /\ q.bad = (q.check \in r.bad)
            <4>1. q.bad => q.check \in Checks
                BY <2>1, <3>2 DEF DaoRun
            <4>2. q.bad => q.check # "buffered"
                BY <4>1, DaoNumbers
            <4>3. run'[b].at \in {"running", "timedOut"}
                BY <1>1, <1>2, <2>5, <2>7 DEF CallIsRun, b
            <4> QED BY <1>1, <3>2, <4>2, <4>3 DEF CallIsRun
        <3> QED BY <2>3, <3>1, <3>2 DEF CallsAre
    <2>10. \/ lastReported' = lastReported
           \/ lastReported' = [lastReported EXCEPT !["rewards"] = b] /\ IsReported("rewards", b)'
        BY <1>1, <2>4, <2>5, <2>7 DEF IsReported
    <2>11. /\ lastReported' \in [Kinds -> Nat] /\ ThrottleIsReport'
           /\ \A k \in Kinds : lastReported'[k] = 0 \/ lastReported'[k] \in Epoch + 1..now'
        <3>1. "rewards" \in Kinds
            BY DaoNumbers
        <3> QED BY <1>1, <2>8, <2>10, <3>1, ThrottleStep
    <2>12. DaoTyped'
        BY <1>1, <2>7, <2>9, <2>11 DEF DaoInv, DaoTyped
    <2> QED BY <2>8, <2>11, <2>12 DEF DaoInv
<1>3. CASE /\ p.live /\ ~mayRetry(b)
           /\ run' = [run EXCEPT ![b] = Over([@ EXCEPT !.failed = TRUE],
                                                       IF @.at = "running" THEN "errored" ELSE "late")]
           /\ pending' = orphaned(pending \ {p}, b)
           /\ UNCHANGED lastReported
    <2> DEFINE S == pending \ {p}
    <2>1. PICK e : e = Over([run[b] EXCEPT !.failed = TRUE],
                                      IF run[b].at = "running" THEN "errored" ELSE "late")
        OBVIOUS
    <2>2. e \in DaoRun /\ e.failed /\ e.at \in {"errored", "late"}
        <3>1. [run[b] EXCEPT !.failed = TRUE].failed
            BY <1>1 DEF DaoRun
        <3> QED BY <2>1, <3>1 DEF DaoRun, Over, NoRun, Level
    <2>3. run' = [run EXCEPT ![b] = e]
        BY <1>1, <1>3, <2>1
    <2> HIDE DEF b
    <2>4. /\ run' \in [Blocks -> DaoRun] /\ run'[b] = e
          /\ \A a \in Blocks : a # b => run'[a] = run[a] /\ Grows(a)
          /\ \A a \in Blocks : run'[a].at = "timedOut" => run'[a].failed
        BY <1>1, <2>2, <2>3, RunStep
    <2>5. (\A a \in Blocks : Grows(a)) /\ DueIsHandled'
        <3>1. orphaned(S, b) \subseteq pending'
            BY <1>3
        <3>2. \A q \in pending \ S : q.block = b
            BY DEF b
        <3> HIDE DEF S
        <3>3. S \in SUBSET pending
            BY DEF S
        <3> QED BY <1>1, <2>2, <2>4, <3>1, <3>2, <3>3, FailedStep
    <2>6. ASSUME NEW q \in pending' PROVE CallIsRun(q)'
        BY <1>1, <1>3, <2>2, <2>4, OrphansAreRuns
    <2>7. /\ lastReported' \in [Kinds -> Nat] /\ ThrottleIsReport'
          /\ \A k \in Kinds : lastReported'[k] = 0 \/ lastReported'[k] \in Epoch + 1..now'
        <3>1. "rewards" \in Kinds
            BY DaoNumbers
        <3> QED BY <1>1, <1>3, <2>5, <3>1, ThrottleStep
    <2>8. DaoTyped'
        BY <1>1, <2>4, <2>6, <2>7 DEF DaoInv, DaoTyped
    <2> QED BY <2>5, <2>7, <2>8 DEF DaoInv
<1>4. CASE ~p.live /\ pending' = pending \ {p} /\ UNCHANGED <<run, lastReported>>
    <2>1. \A a \in Blocks : Grows(a)
        BY <1>4 DEF Grows
    <2>2. \A k \in Kinds, a \in Blocks : IsAsked(k, a) => IsAsked(k, a)'
        BY <1>4 DEF IsAsked
    <2>3. DueIsHandled'
        BY <1>1, <2>1, <2>2, DueStays
    <2> QED BY <1>1, <1>4, <2>3 DEF DaoInv, DaoTyped, ThrottleIsReport, CallIsRun, IsReported
<1> QED BY <1>2, <1>3, <1>4 DEF requestFails

(* The end of a call, and its timeout.                                        *)
LEMMA DaoReturns ==
    ASSUME DaoOpsAssumption, DaoInv, NEW b \in Blocks, callReturns(b) \/ timeout(b)
    PROVE  DaoInv'
<1>1. /\ UNCHANGED <<now, pending, lastReported, due>> /\ run[b] \in DaoRun
      /\ run[b].at = "timedOut" => run[b].failed
      /\ delivered \subseteq delivered'
    BY DEF DaoInv, DaoTyped, callReturns, timeout, timers
<1>2. PICK e \in DaoRun : /\ run' = [run EXCEPT ![b] = e]
                          /\ e.at = "timedOut" => e.failed
                          /\ run[b].failed => e.failed
                          /\ e.failed \/ \A k \in run[b].found : <<k, b>> \in delivered'
                          /\ \A q \in pending : q.block = b /\ q.live => e.at = "timedOut"
    <2>1. CASE callReturns(b) /\ run[b].at = "running"
        <3>1. PICK e : e = Over(run[b], "answered")
            OBVIOUS
        <3>2. e \in DaoRun /\ e.at = "answered" /\ e.failed = run[b].failed
            BY <1>1, <3>1 DEF DaoRun, Over, NoRun, Level
        <3>3. run' = [run EXCEPT ![b] = e] /\ delivered' = delivered \union (run[b].found \X {b})
              /\ ~\E q \in pending : q.block = b /\ q.live
            BY <2>1, <3>1 DEF callReturns, DaoInv, DaoTyped
        <3> QED BY <3>2, <3>3
    <2>2. CASE callReturns(b) /\ run[b].at = "timedOut"
        <3>1. PICK e : e = Over(run[b], "late")
            OBVIOUS
        <3>2. e \in DaoRun /\ e.at = "late" /\ e.failed = run[b].failed
            BY <1>1, <3>1 DEF DaoRun, Over, NoRun, Level
        <3>3. run' = [run EXCEPT ![b] = e] /\ ~\E q \in pending : q.block = b /\ q.live
            BY <2>2, <3>1 DEF callReturns, DaoInv, DaoTyped
        <3> QED BY <1>1, <2>2, <3>2, <3>3
    <2>3. CASE timeout(b)
        <3>1. PICK e : e = [run[b] EXCEPT !.at = "timedOut", !.failed = TRUE]
            OBVIOUS
        <3>2. e \in DaoRun /\ e.at = "timedOut" /\ e.failed
            BY <1>1, <3>1 DEF DaoRun
        <3>3. run' = [run EXCEPT ![b] = e]
            BY <2>3, <3>1 DEF timeout, DaoInv, DaoTyped
        <3> QED BY <3>2, <3>3
    <2> QED BY <2>1, <2>2, <2>3 DEF callReturns
<1>3. /\ run' \in [Blocks -> DaoRun] /\ run'[b] = e
      /\ \A a \in Blocks : a # b => run'[a] = run[a] /\ Grows(a)
      /\ \A a \in Blocks : run'[a].at = "timedOut" => run'[a].failed
    BY <1>2, RunStep
<1>4. \A a \in Blocks : Grows(a)
    BY <1>2, <1>3 DEF Grows
<1>5. DueIsHandled'
    <2>1. \A k \in Kinds, a \in Blocks : IsAsked(k, a) => IsAsked(k, a)'
        BY <1>1 DEF IsAsked
    <2> QED BY <1>1, <1>4, <2>1, DueStays
<1>6. ASSUME NEW q \in pending PROVE CallIsRun(q)'
    <2>1. CallIsRun(q)
        BY DEF DaoInv, DaoTyped
    <2>2. CASE q.block = b
        BY <1>1, <1>2, <1>3, <2>1, <2>2 DEF CallIsRun
    <2>3. CASE q.block # b
        BY <1>1, <1>3, <2>1, <2>3 DEF CallIsRun
    <2> QED BY <2>2, <2>3
<1>7. /\ lastReported' \in [Kinds -> Nat] /\ ThrottleIsReport'
      /\ \A k \in Kinds : lastReported'[k] = 0 \/ lastReported'[k] \in Epoch + 1..now'
    <2>1. ASSUME NEW k \in Kinds, lastReported[k] # 0 PROVE IsReported(k, lastReported[k])'
        <3>1. lastReported[k] \in Epoch + 1..now
            BY <2>1 DEF DaoInv, DaoTyped
        <3>2. PICK a \in Epoch + 1..now : a = lastReported[k]
            BY <3>1
        <3>3. a \in Blocks
            <4>1. now \in Nat /\ Epoch \in Nat /\ MaxTime \in Nat
                BY DaoNumbers DEF DaoInv, DaoTyped
            <4>2. a \in Nat /\ a > Epoch /\ a <= MaxTime
                BY <4>1 DEF DaoInv, DaoTyped
            <4> QED BY <4>2, DaoNumbers
        <3>4. IsReported(k, a)
            BY <2>1, <3>2 DEF DaoInv, ThrottleIsReport
        <3>5. IsReported(k, a)'
            BY <1>1, <1>4, <3>3, <3>4, StaysReported
        <3> QED BY <1>1, <3>2, <3>5 DEF IsReported
    <2> QED BY <1>1, <2>1 DEF DaoInv, DaoTyped, ThrottleIsReport
<1>8. DaoTyped'
    BY <1>1, <1>3, <1>6, <1>7 DEF DaoInv, DaoTyped
<1> QED BY <1>5, <1>7, <1>8 DEF DaoInv

LEMMA DaoNext == DaoOpsAssumption /\ DaoInv /\ [Next]_vars => DaoInv'
<1> SUFFICES ASSUME DaoOpsAssumption, DaoInv, [Next]_vars PROVE DaoInv'
    OBVIOUS
<1>1. ASSUME UNCHANGED <<now, run, pending, lastReported, delivered, due>> PROVE DaoInv'
    BY <1>1 DEF DaoInv, DaoTyped, ThrottleIsReport, DueIsHandled, CallIsRun, IsReported, IsAsked,
                Since
<1>2. CASE UNCHANGED vars \/ handleRewardDistributionEvent
    BY <1>1, <1>2 DEF vars, timers, handleRewardDistributionEvent
<1>3. CASE \E t \in distribution : checkpointsCounted(t)
    BY <1>1, <1>3 DEF timers, checkpointsCounted
<1> QED BY <1>2, <1>3, DaoBlockStep, DaoAnswers, DaoFails, DaoReturns DEF Next

(* Whatever a block gave reason for has been asked for or throttled, and the  *)
(* throttle is set with the report.  An answered call has no request left,    *)
(* and what is found is delivered with the answer.                            *)
THEOREM DueIsReportedCorrect == DaoOpsAssumption /\ Spec => []DueIsReported
<1> SUFFICES ASSUME DaoOpsAssumption PROVE Spec => []DueIsReported
    OBVIOUS
<1>1. DaoInv => DueIsReported
    <2> SUFFICES ASSUME DaoInv, NEW k \in Kinds, NEW b \in Blocks, <<k, b>> \in due,
                        run[b].at = "answered"
                 PROVE  \E a \in Since(k, b) : <<k, a>> \in delivered \/ ~Smooth(a)
        BY DEF DueIsReported
    <2>1. IsAsked(k, b) \/ \E a \in Since(k, b) : IsReported(k, a)
        BY DEF DaoInv, DueIsHandled
    <2>2. ~IsAsked(k, b)
        BY DEF IsAsked, DaoInv, DaoTyped, CallIsRun
    <2> QED BY <2>1, <2>2 DEF IsReported, Smooth
<1>2. Init => DaoInv
    BY DaoInit
<1>3. DaoInv /\ [Next]_vars => DaoInv'
    BY DaoNext
<1> QED BY <1>1, <1>2, <1>3, PTL DEF Spec

(* Every block has one level, whichever of its calls asks for it, and what    *)
(* the checks have seen is the level of a block that was sent.                *)
Sees(L) ==
    /\ L \in [Blocks -> Level]
    /\ \A p \in pending : p.check = "buffered" => p.level = L[p.block]
    /\ \A b \in Blocks : run[b].at \in {"running", "timedOut"} => run[b].level = L[b]
    /\ lastSeen \in [Level -> Nat]
    /\ \A l \in Level :
           lastSeen[l] = 0 \/ (lastSeen[l] \in Blocks /\ lastSeen[l] <= now /\ L[lastSeen[l]] = l)
StartInv == DaoInv /\ (\E L : Sees(L)) /\ StartIsSustained

LEMMA StartInit == DaoOpsAssumption /\ Init => StartInv
<1> SUFFICES ASSUME DaoOpsAssumption, Init PROVE StartInv
    OBVIOUS
<1>1. Sees([b \in Blocks |-> "normal"])
    <2>1. pending = {} /\ lastSeen = [l \in Level |-> 0]
        BY DEF Init
    <2>2. \A b \in Blocks : run[b].level = "normal"
        BY DEF Init, NoRun
    <2>3. "normal" \in Level
        BY DEF Level
    <2> QED BY <2>1, <2>2, <2>3 DEF Sees
<1>2. StartIsSustained
    BY DEF Init, StartIsSustained
<1> QED BY <1>1, <1>2, DaoInit DEF StartInv

(* The steps that answer no request for the buffer leave its timers alone.    *)
LEMMA TimersRest ==
    ASSUME StartInv, UNCHANGED <<hugePooledMaticStart, highPooledMaticStart, lastSeen>>,
           overtaken => overtaken'
    PROVE  StartIsSustained'
BY DEF StartInv, StartIsSustained, StartIsSustained

LEMMA LevelsRest ==
    ASSUME NEW L, Sees(L), UNCHANGED <<now, lastSeen>>,
           \A q \in pending' : q.check = "buffered" => q.level = L[q.block],
           \A b \in Blocks : run'[b].at \in {"running", "timedOut"} => run'[b].level = L[b]
    PROVE  Sees(L)'
BY DEF Sees

(* A request that goes on has kept its block and its level.                   *)
LEMMA OrphansSee ==
    ASSUME DaoInv, NEW L, Sees(L), NEW S \in SUBSET pending, NEW b,
           NEW q \in orphaned(S, b), q.check = "buffered"
    PROVE  q.level = L[q.block]
<1>1. \A p \in S : p \in DaoCall
    BY DEF DaoInv, DaoTyped, CallIsRun
<1>2. PICK p \in S : q.block = p.block /\ q.check = p.check /\ q.level = p.level
    BY <1>1, OrphanedDao
<1> QED BY <1>2 DEF Sees

LEMMA StartBlock == DaoOpsAssumption /\ StartInv /\ handleBlock => (\E L : Sees(L)')
<1> SUFFICES ASSUME DaoOpsAssumption, StartInv, handleBlock PROVE \E L : Sees(L)'
    OBVIOUS
<1> DEFINE b == now + 1
<1>1. PICK level \in Levels : \E bad \in SUBSET {c \in Checks : b % Cadence[c] = 0} :
          calls(b, [NoRun EXCEPT !.at = "running", !.retries = maxHandlerRetries - 1,
                                                     !.bad = bad, !.level = level], pending)
    BY DEF handleBlock
<1>2. PICK bad \in SUBSET {c \in Checks : b % Cadence[c] = 0} :
          calls(b, [NoRun EXCEPT !.at = "running", !.retries = maxHandlerRetries - 1,
                                                     !.bad = bad, !.level = level], pending)
    BY <1>1
<1> DEFINE r == [NoRun EXCEPT !.at = "running", !.retries = maxHandlerRetries - 1,
                                        !.bad = bad, !.level = level]
<1>3. /\ now' = b /\ now \in Nat /\ b \in Nat /\ b > now /\ b \in Blocks
      /\ UNCHANGED lastSeen /\ run \in [Blocks -> DaoRun] /\ lastReported \in [Kinds -> Nat]
      /\ \A p \in pending : p \in DaoCall /\ p.block \in Nat /\ p.block <= now
    <2>1. now \in Nat /\ Epoch \in Nat /\ MaxTime \in Nat /\ Epoch <= now
        BY DaoNumbers DEF StartInv, DaoInv, DaoTyped
    <2>2. now < MaxTime /\ now' = b /\ UNCHANGED lastSeen
        BY DEF handleBlock
    <2>3. b \in Nat /\ b > now /\ b <= MaxTime /\ b > Epoch
        BY <2>1, <2>2
    <2>4. \A p \in pending : p \in DaoCall /\ p.block \in Nat /\ p.block <= now
        BY DaoNumbers DEF StartInv, DaoInv, DaoTyped, CallIsRun
    <2>5. run \in [Blocks -> DaoRun] /\ lastReported \in [Kinds -> Nat]
        BY DEF StartInv, DaoInv, DaoTyped
    <2> QED BY <2>1, <2>2, <2>3, <2>4, <2>5, DaoNumbers
<1>4. r \in DaoRun /\ r.level = level /\ level \in Level
    <2>1. maxHandlerRetries - 1 \in Nat
        BY DaoNumbers
    <2> QED BY <2>1, DaoNumbers DEF DaoRun, NoRun, Level
<1> HIDE DEF b
<1>5. calls(b, r, pending)
    BY <1>2
<1> HIDE DEF r
<1>6. CallsAre(b, r, pending)
    BY <1>3, <1>4, <1>5, CallsDao
<1>7. PICK F \in SUBSET {"rewards"} : run' = [run EXCEPT ![b] = [r EXCEPT !.found = F]]
    BY <1>6 DEF CallsAre
<1>8. /\ run'[b].level = level
      /\ \A a \in Blocks : a # b => run'[a] = run[a]
    <2>1. [r EXCEPT !.found = F].level = level
        BY <1>4 DEF DaoRun
    <2> QED BY <1>3, <1>7, <2>1
<1>9. PICK L : Sees(L)
    BY DEF StartInv
<1>10. PICK M : M = [L EXCEPT ![b] = level]
    OBVIOUS
<1>11. /\ M \in [Blocks -> Level] /\ M[b] = level
       /\ \A a \in Blocks : a # b => M[a] = L[a]
    BY <1>3, <1>4, <1>9, <1>10 DEF Sees
<1>12. ASSUME NEW q \in pending', q.check = "buffered" PROVE q.level = M[q.block]
    <2>1. CASE q \in orphaned(pending, b)
        <3>1. DaoInv
            BY DEF StartInv
        <3>2. q.level = L[q.block]
            BY <1>9, <1>12, <2>1, <3>1, OrphansSee
        <3>3. q.block \in Blocks /\ q.block # b
            <4>1. \A p \in pending : p \in DaoCall /\ p.block \in Blocks /\ p.block # b
                BY <1>3, <3>1 DEF DaoInv, DaoTyped, CallIsRun
            <4>2. PICK p \in pending : q.block = p.block
                BY <2>1, <4>1, OrphanedDao
            <4> QED BY <4>1, <4>2
        <3> QED BY <1>11, <3>2, <3>3
    <2>2. CASE q.block = b /\ q.level = r.level
        BY <1>4, <1>11, <2>2
    <2> QED BY <1>6, <1>12, <2>1, <2>2 DEF CallsAre
<1>13. \A a \in Blocks : run'[a].at \in {"running", "timedOut"} => run'[a].level = M[a]
    BY <1>8, <1>9, <1>11 DEF Sees
<1>14. ASSUME NEW l \in Level
       PROVE  \/ lastSeen[l] = 0
              \/ lastSeen[l] \in Blocks /\ lastSeen[l] <= b /\ M[lastSeen[l]] = l
    <2>1. PICK s \in Nat : s = lastSeen[l]
        BY <1>9 DEF Sees
    <2>2. s = 0 \/ (s \in Blocks /\ s <= now /\ L[s] = l)
        BY <1>9, <2>1 DEF Sees
    <2>3. s = 0 \/ (s \in Blocks /\ s <= b /\ s # b /\ L[s] = l)
        BY <1>3, <2>2
    <2> QED BY <1>11, <2>1, <2>3
<1>15. Sees(M)'
    BY <1>3, <1>9, <1>11, <1>12, <1>13, <1>14 DEF Sees
<1> QED BY <1>15

(* An answer that was not overtaken is one of the last block: at a level that *)
(* lasts, no other has been seen at this block.                               *)
LEMMA StartBuffered ==
    ASSUME DaoOpsAssumption, StartInv, NEW p \in pending, bufferedAnswered(p)
    PROVE  StartIsSustained' /\ \E L : Sees(L)'
<1> DEFINE b == p.block
<1>1. PICK L : Sees(L)
    BY DEF StartInv
<1>2. /\ p.check = "buffered" /\ p \in DaoCall /\ b \in Blocks /\ b \in Nat /\ b # 0
      /\ now \in Nat /\ b <= now /\ p.level = L[b] /\ p.level \in Level
      /\ run[b] \in DaoRun /\ run \in [Blocks -> DaoRun]
      /\ lastSeen \in [Level -> Nat]
    <2>1. p \in DaoCall /\ b \in Blocks /\ b <= now /\ now \in Nat
          /\ run \in [Blocks -> DaoRun]
        BY DEF StartInv, DaoInv, DaoTyped, CallIsRun
    <2>2. b > Epoch /\ Epoch \in Nat /\ b \in Nat
        BY <2>1, DaoNumbers
    <2>3. p.check = "buffered"
        BY DEF bufferedAnswered
    <2> QED BY <1>1, <2>1, <2>2, <2>3 DEF Sees, DaoCall
<1>3. /\ pending' = pending \ {p} /\ UNCHANGED now
      /\ lastSeen' = [lastSeen EXCEPT ![p.level] = b]
      /\ hugePooledMaticStart' = startOf(hugePooledMaticStart, p.level = "huge", b)
      /\ highPooledMaticStart' = startOf(highPooledMaticStart, p.level \in {"high", "huge"}, b)
      /\ overtaken' = (overtaken \/ b < now)
    BY DEF bufferedAnswered
<1>4. PICK K : finds(p, K)
    BY DEF bufferedAnswered
<1>5. /\ run'[b].at = run[b].at /\ run'[b].level = run[b].level
      /\ \A a \in Blocks : a # b => run'[a] = run[a]
    <2>1. PICK e : e = [run[b] EXCEPT !.found = IF p.live THEN run[b].found \union K ELSE run[b].found]
        OBVIOUS
    <2>2. e.at = run[b].at /\ e.level = run[b].level
        BY <1>2, <2>1 DEF DaoRun
    <2>3. run' = [run EXCEPT ![b] = e]
        BY <1>4, <2>1 DEF finds
    <2> QED BY <1>2, <2>2, <2>3
<1> HIDE DEF b
<1>6. Sees(L)'
    <2>1. lastSeen' \in [Level -> Nat]
        BY <1>2, <1>3
    <2>2. ASSUME NEW l \in Level
          PROVE  \/ lastSeen'[l] = 0
                 \/ lastSeen'[l] \in Blocks /\ lastSeen'[l] <= now /\ L[lastSeen'[l]] = l
        BY <1>1, <1>2, <1>3 DEF Sees
    <2> QED BY <1>1, <1>3, <1>5, <2>1, <2>2 DEF Sees
<1>7. ASSUME ~overtaken', NEW l \in Level, l # p.level
      PROVE  lastSeen[l] < b /\ lastSeen'[l] = lastSeen[l] /\ ~overtaken
    <2>1. b = now /\ ~overtaken
        <3>1. ~overtaken /\ ~(b < now)
            BY <1>3, <1>7, Zenon
        <3> QED BY <1>2, <3>1
    <2>2. PICK s \in Nat : s = lastSeen[l]
        BY <1>2
    <2>3. s = 0 \/ (s <= now /\ L[s] = l)
        BY <1>1, <2>2 DEF Sees
    <2>4. s # b
        BY <1>2, <1>7, <2>3
    <2>5. s < b
        BY <1>2, <2>1, <2>3, <2>4
    <2> QED BY <1>2, <1>3, <1>7, <2>1, <2>2, <2>5
<1>8. {"normal", "high", "huge"} = Level
    BY DEF Level
<1>9. ASSUME ~overtaken', hugePooledMaticStart' # 0
      PROVE  lastSeen'["normal"] < hugePooledMaticStart' /\ lastSeen'["high"] < hugePooledMaticStart'
    <2>1. p.level = "huge"
          /\ hugePooledMaticStart' = (IF hugePooledMaticStart # 0 THEN hugePooledMaticStart ELSE b)
        BY <1>3, <1>9 DEF startOf
    <2>2. \A l \in {"normal", "high"} : lastSeen[l] < b /\ lastSeen'[l] = lastSeen[l] /\ ~overtaken
        BY <1>7, <1>8, <1>9, <2>1
    <2>3. CASE hugePooledMaticStart # 0
        BY <2>1, <2>2, <2>3 DEF StartInv, StartIsSustained, StartIsSustained
    <2>4. CASE hugePooledMaticStart = 0
        BY <2>1, <2>2, <2>4
    <2> QED BY <2>3, <2>4
<1>10. ASSUME ~overtaken', highPooledMaticStart' # 0
       PROVE  lastSeen'["normal"] < highPooledMaticStart'
    <2>1. p.level \in {"high", "huge"}
          /\ highPooledMaticStart' = (IF highPooledMaticStart # 0 THEN highPooledMaticStart ELSE b)
        BY <1>3, <1>10 DEF startOf
    <2>2. lastSeen["normal"] < b /\ lastSeen'["normal"] = lastSeen["normal"] /\ ~overtaken
        BY <1>7, <1>8, <1>10, <2>1
    <2>3. CASE highPooledMaticStart # 0
        BY <2>1, <2>2, <2>3 DEF StartInv, StartIsSustained, StartIsSustained
    <2>4. CASE highPooledMaticStart = 0
        BY <2>1, <2>2, <2>4
    <2> QED BY <2>3, <2>4
<1> QED BY <1>6, <1>9, <1>10 DEF StartIsSustained, StartIsSustained

LEMMA StartFails ==
    ASSUME DaoOpsAssumption, StartInv, NEW p \in pending, requestFails(p)
    PROVE  \E L : Sees(L)'
<1> DEFINE b == p.block
<1>1. PICK L : Sees(L)
    BY DEF StartInv
<1>2. /\ UNCHANGED <<now, lastSeen>> /\ p \in DaoCall /\ CallIsRun(p) /\ b \in Blocks
      /\ run[b] \in DaoRun /\ run \in [Blocks -> DaoRun] /\ DaoInv
      /\ lastReported \in [Kinds -> Nat]
      /\ \A q \in pending : q \in DaoCall
    BY DEF StartInv, DaoInv, DaoTyped, CallIsRun, requestFails
<1>3. CASE /\ p.live /\ mayRetry(b)
           /\ calls(b, [run[b] EXCEPT !.retries = @ - 1, !.failed = TRUE], pending \ {p})
    <2> DEFINE r == [run[b] EXCEPT !.retries = @ - 1, !.failed = TRUE]
               S == pending \ {p}
    <2>1. r \in DaoRun /\ r.level = run[b].level
        <3>1. run[b].retries - 1 \in Nat
            BY <1>2, <1>3 DEF DaoRun, mayRetry
        <3> QED BY <1>2, <3>1 DEF DaoRun
    <2>2. calls(b, r, S)
        BY <1>3
    <2> HIDE DEF r
    <2>3. CallsAre(b, r, S)
        BY <1>2, <2>1, <2>2, CallsDao
    <2>4. PICK F \in SUBSET {"rewards"} : run' = [run EXCEPT ![b] = [r EXCEPT !.found = F]]
        BY <2>3 DEF CallsAre
    <2>5. run'[b].level = run[b].level /\ \A a \in Blocks : a # b => run'[a] = run[a]
        <3>1. [r EXCEPT !.found = F].level = run[b].level
            BY <2>1 DEF DaoRun
        <3> HIDE DEF b
        <3> QED BY <1>2, <2>4, <3>1
    <2>6. run[b].level = L[b]
        BY <1>1, <1>2, <1>3 DEF Sees, CallIsRun
    <2> HIDE DEF b
    <2>7. ASSUME NEW q \in pending', q.check = "buffered" PROVE q.level = L[q.block]
        <3>1. CASE q \in orphaned(S, b)
            BY <1>1, <1>2, <2>7, <3>1, OrphansSee
        <3>2. CASE q.block = b /\ q.level = r.level
            BY <2>1, <2>6, <3>2
        <3> QED BY <2>3, <2>7, <3>1, <3>2 DEF CallsAre
    <2>8. \A a \in Blocks : run'[a].at \in {"running", "timedOut"} => run'[a].level = L[a]
        BY <1>1, <2>5, <2>6 DEF Sees
    <2> QED BY <1>1, <1>2, <2>7, <2>8, LevelsRest
<1>4. CASE /\ run' = [run EXCEPT ![b] = Over([@ EXCEPT !.failed = TRUE],
                                                       IF @.at = "running" THEN "errored" ELSE "late")]
           /\ pending' = orphaned(pending \ {p}, b)
    <2>1. PICK e : e = Over([run[b] EXCEPT !.failed = TRUE],
                                      IF run[b].at = "running" THEN "errored" ELSE "late")
        OBVIOUS
    <2>2. e.at \in {"errored", "late"}
        BY <2>1 DEF Over, NoRun
    <2>3. run' = [run EXCEPT ![b] = e]
        BY <1>2, <1>4, <2>1
    <2> HIDE DEF b
    <2>4. \A a \in Blocks : run'[a].at \in {"running", "timedOut"} => run'[a].level = L[a]
        BY <1>1, <1>2, <2>2, <2>3 DEF Sees
    <2>5. \A q \in pending' : q.check = "buffered" => q.level = L[q.block]
        BY <1>1, <1>2, <1>4, OrphansSee
    <2> QED BY <1>1, <1>2, <2>4, <2>5, LevelsRest
<1>5. CASE pending' = pending \ {p} /\ UNCHANGED run
    BY <1>1, <1>2, <1>5 DEF Sees
<1> QED BY <1>3, <1>4, <1>5 DEF requestFails

LEMMA StartAnswers ==
    ASSUME StartInv, NEW p \in pending, checkAnswered(p)
    PROVE  \E L : Sees(L)'
<1>1. PICK L : Sees(L)
    BY DEF StartInv
<1>2. PICK K : finds(p, K)
    BY DEF checkAnswered
<1>3. p.block \in Blocks /\ run \in [Blocks -> DaoRun]
    BY DEF StartInv, DaoInv, DaoTyped, CallIsRun
<1>4. \A a \in Blocks : run'[a].at = run[a].at /\ run'[a].level = run[a].level
    <2>1. PICK e : e = [run[p.block] EXCEPT !.found = IF p.live THEN run[p.block].found \union K
                                                               ELSE run[p.block].found]
        OBVIOUS
    <2>2. e.at = run[p.block].at /\ e.level = run[p.block].level
        <3>1. run[p.block] \in DaoRun
            BY <1>3
        <3> QED BY <2>1, <3>1 DEF DaoRun
    <2>3. run' = [run EXCEPT ![p.block] = e]
        BY <1>2, <2>1 DEF finds
    <2> QED BY <1>3, <2>2, <2>3
<1>5. UNCHANGED <<now, lastSeen>> /\ pending' \subseteq pending
    BY DEF checkAnswered
<1> QED BY <1>1, <1>4, <1>5 DEF Sees

LEMMA StartReturns ==
    ASSUME StartInv, NEW b \in Blocks, callReturns(b) \/ timeout(b)
    PROVE  \E L : Sees(L)'
<1>1. PICK L : Sees(L)
    BY DEF StartInv
<1>2. UNCHANGED <<now, lastSeen, pending>> /\ run[b] \in DaoRun /\ run \in [Blocks -> DaoRun]
    BY DEF StartInv, DaoInv, DaoTyped, callReturns, timeout
<1>3. PICK e : /\ run' = [run EXCEPT ![b] = e]
               /\ e.at \in {"running", "timedOut"} => run[b].at = "running" /\ e.level = run[b].level
    <2>1. CASE callReturns(b)
        <3>1. PICK at \in {"answered", "late"} : run' = [run EXCEPT ![b] = Over(run[b], at)]
            BY <1>2, <2>1 DEF callReturns
        <3>2. Over(run[b], at).at = at
            BY DEF Over, NoRun
        <3> QED BY <3>1, <3>2
    <2>2. CASE timeout(b)
        <3>1. run' = [run EXCEPT ![b] = [run[b] EXCEPT !.at = "timedOut", !.failed = TRUE]]
              /\ run[b].at = "running"
            BY <1>2, <2>2 DEF timeout
        <3>2. [run[b] EXCEPT !.at = "timedOut", !.failed = TRUE].level = run[b].level
            BY <1>2 DEF DaoRun
        <3> QED BY <3>1, <3>2
    <2> QED BY <2>1, <2>2
<1>4. \A a \in Blocks : run'[a].at \in {"running", "timedOut"} => run'[a].level = L[a]
    BY <1>1, <1>2, <1>3 DEF Sees
<1> QED BY <1>1, <1>2, <1>4 DEF Sees

LEMMA StartNext == DaoOpsAssumption /\ StartInv /\ [Next]_vars => StartInv'
<1> SUFFICES ASSUME DaoOpsAssumption, StartInv, [Next]_vars
             PROVE  StartIsSustained' /\ \E L : Sees(L)'
    BY DaoNext DEF StartInv
<1>1. ASSUME UNCHANGED <<now, run, pending, hugePooledMaticStart, highPooledMaticStart, lastSeen,
                         overtaken>>
      PROVE  StartIsSustained' /\ \E L : Sees(L)'
    BY <1>1 DEF StartInv, Sees, StartIsSustained, StartIsSustained
<1>2. CASE UNCHANGED vars \/ handleRewardDistributionEvent
    BY <1>1, <1>2 DEF vars, timers, handleRewardDistributionEvent
<1>3. CASE \E t \in distribution : checkpointsCounted(t)
    BY <1>1, <1>3 DEF timers, checkpointsCounted
<1>4. CASE handleBlock
    <2>1. StartIsSustained'
        BY <1>4, TimersRest DEF handleBlock
    <2> QED BY <1>4, <2>1, StartBlock
<1>5. CASE \E p \in pending : checkAnswered(p) \/ bufferedAnswered(p)
                                 \/ requestFails(p)
    <2>1. PICK p \in pending : checkAnswered(p) \/ bufferedAnswered(p)
                                  \/ requestFails(p)
        BY <1>5
    <2>2. CASE checkAnswered(p)
        <3>1. StartIsSustained'
            BY <2>2, TimersRest DEF checkAnswered
        <3> QED BY <2>2, <3>1, StartAnswers
    <2>3. CASE bufferedAnswered(p)
        BY <2>3, StartBuffered
    <2>4. CASE requestFails(p)
        <3>1. StartIsSustained'
            BY <2>4, TimersRest DEF requestFails
        <3> QED BY <2>4, <3>1, StartFails
    <2> QED BY <2>1, <2>2, <2>3, <2>4
<1>6. CASE \E b \in Blocks : callReturns(b) \/ timeout(b)
    <2>1. StartIsSustained'
        BY <1>6, TimersRest DEF callReturns, timeout, timers
    <2> QED BY <1>6, <2>1, StartReturns
<1> QED BY <1>2, <1>3, <1>4, <1>5, <1>6 DEF Next

(* Every block has one level for all its calls, and the answers that are not  *)
(* overtaken come in the order of the blocks: a timer of the buffer starts    *)
(* after the last block that was seen at a lower level.                       *)
THEOREM StartIsSustainedCorrect == DaoOpsAssumption /\ Spec => []StartIsSustained
<1> SUFFICES ASSUME DaoOpsAssumption PROVE Spec => []StartIsSustained
    OBVIOUS
<1>1. StartInv => StartIsSustained
    BY DEF StartInv
<1>2. Init => StartInv
    BY StartInit
<1>3. StartInv /\ [Next]_vars => StartInv'
    BY StartNext
<1> QED BY <1>1, <1>2, <1>3, PTL DEF Spec

-----------------------------------------------------------------------------
(* The types.  No time that is kept lies after the last block.                *)
BoundedRun == [at : {"none", "running", "answered", "errored", "timedOut", "late"},
               retries : 0..maxHandlerRetries, found : SUBSET Kinds, failed : BOOLEAN,
               bad : SUBSET Checks, level : Level]
BoundedCall == [block : Blocks, check : Kinds, live : BOOLEAN, bad : BOOLEAN,
                level : Level]

DaoTypes ==
    /\ now \in Epoch..MaxTime
    /\ run \in [Blocks -> BoundedRun]
    /\ pending \subseteq BoundedCall
    /\ lastReported \in [Kinds -> Time]
    /\ hugePooledMaticStart \in Time /\ highPooledMaticStart \in Time
    /\ lastRewardsDistributeTime \in Time
    /\ distribution \subseteq Time
    /\ delivered \subseteq Kinds \X Blocks
    /\ due \subseteq Kinds \X Blocks
    /\ lastSeen \in [Level -> Time]
    /\ overtaken \in BOOLEAN

LEMMA DaoTypesAre == DaoTypes => TypeOK
BY DEF DaoTypes, TypeOK, BoundedRun, BoundedCall, Kinds

LEMMA DaoBounds ==
    ASSUME DaoOpsAssumption
    PROVE
    /\ maxHandlerRetries \in Nat /\ maxHandlerRetries > 0 /\ Epoch \in Nat /\ MaxTime \in Nat /\ Epoch <= MaxTime
    /\ Blocks \subseteq Time /\ 0 \in Time /\ Epoch \in Time
    /\ Kinds = Checks \union {"buffered", "rewards"}
    /\ {"buffered", "rewards"} \intersect Checks = {}
    /\ Levels \subseteq Level
<1>1. /\ {Huge, High, MaxInterval, maxHandlerRetries, Epoch, MaxTime, MaxOpen} \subseteq Nat
      /\ Epoch <= MaxTime /\ maxHandlerRetries >= 1
      /\ {"buffered", "rewards"} \intersect Checks = {}
      /\ Levels \subseteq {"normal", "high", "huge"}
    BY Zenon DEF DaoOpsAssumption
<1>2. maxHandlerRetries \in Nat /\ Epoch \in Nat /\ MaxTime \in Nat
    BY <1>1, Zenon
<1>4. maxHandlerRetries > 0
    BY <1>1, <1>2
<1>3. Blocks \subseteq Time /\ 0 \in Time /\ Epoch \in Time
    BY <1>1, <1>2 DEF Blocks, Time
<1> QED BY <1>1, <1>2, <1>3, <1>4 DEF Level, Kinds

LEMMA DaoTypesInit == DaoOpsAssumption /\ Init => DaoTypes
<1> SUFFICES ASSUME DaoOpsAssumption, Init PROVE DaoTypes
    OBVIOUS
<1>1. NoRun \in BoundedRun
    <2>1. 0 \in 0..maxHandlerRetries
        BY DaoBounds
    <2> QED BY <2>1 DEF NoRun, BoundedRun, Level
<1>2. now \in Epoch..MaxTime
    BY DaoBounds DEF Init
<1>3. lastRewardsDistributeTime \in Time
    BY DaoBounds DEF Init
<1> QED BY <1>1, <1>2, <1>3, DaoBounds DEF Init, Kinds, DaoTypes

LEMMA OrphansBounded ==
    ASSUME NEW S, S \subseteq BoundedCall, NEW b
    PROVE  orphaned(S, b) \subseteq BoundedCall
<1>1. ASSUME NEW p \in S PROVE [p EXCEPT !.live = p.live /\ p.block # b] \in BoundedCall
    BY DEF BoundedCall
<1> QED BY <1>1 DEF orphaned

(* A call of the sub-agent's handleBlock, whichever checks it asks for.       *)
CallOf(b, r, S) ==
    \E late \in BOOLEAN, K \in SUBSET Kinds :
        /\ lastReported' = [lastReported EXCEPT !["rewards"] = IF late THEN b ELSE @]
        /\ run' = [run EXCEPT ![b] = [r EXCEPT !.found = IF late THEN {"rewards"} ELSE {}]]
        /\ pending' = orphaned(S, b) \union
               {[block |-> b, check |-> c, live |-> TRUE, bad |-> c \in r.bad,
                 level |-> IF c = "buffered" THEN r.level ELSE "normal"] : c \in K}

LEMMA CallsAsked ==
    ASSUME DaoOpsAssumption, NEW b, NEW r, NEW S, calls(b, r, S)
    PROVE  CallOf(b, r, S)
<1> DEFINE late == delayed(b) /\ ~throttled("rewards", b)
<1>1. late \in BOOLEAN
    OBVIOUS
<1>2. asking(b) \in SUBSET Kinds
    BY DaoBounds DEF asking
<1> QED BY <1>1, <1>2 DEF calls, CallOf

LEMMA CallsBounded ==
    ASSUME DaoOpsAssumption, DaoTypes, NEW b \in Blocks, NEW r \in BoundedRun,
           NEW S, S \subseteq BoundedCall, CallOf(b, r, S)
    PROVE  /\ lastReported' \in [Kinds -> Time]
           /\ run' \in [Blocks -> BoundedRun]
           /\ pending' \subseteq BoundedCall
<1> PICK late \in BOOLEAN, K \in SUBSET Kinds :
        /\ lastReported' = [lastReported EXCEPT !["rewards"] = IF late THEN b ELSE @]
        /\ run' = [run EXCEPT ![b] = [r EXCEPT !.found = IF late THEN {"rewards"} ELSE {}]]
        /\ pending' = orphaned(S, b) \union
               {[block |-> b, check |-> c, live |-> TRUE, bad |-> c \in r.bad,
                 level |-> IF c = "buffered" THEN r.level ELSE "normal"] : c \in K}
    BY DEF CallOf
<1>1. [r EXCEPT !.found = IF late THEN {"rewards"} ELSE {}] \in BoundedRun
    BY DaoBounds DEF BoundedRun
<1>2. ASSUME NEW c \in K
      PROVE  [block |-> b, check |-> c, live |-> TRUE, bad |-> c \in r.bad,
              level |-> IF c = "buffered" THEN r.level ELSE "normal"] \in BoundedCall
    BY DEF BoundedCall, BoundedRun, Level
<1>3. lastReported \in [Kinds -> Time] /\ run \in [Blocks -> BoundedRun]
    BY DEF DaoTypes
<1>4. lastReported' \in [Kinds -> Time]
    BY <1>3, DaoBounds
<1>5. run' \in [Blocks -> BoundedRun]
    BY <1>1, <1>3
<1>6. pending' \subseteq BoundedCall
    BY <1>2, OrphansBounded
<1> QED BY <1>4, <1>5, <1>6

(* The first call of a block.                                                 *)
NewRun(bad, level) == [NoRun EXCEPT !.at = "running", !.retries = maxHandlerRetries - 1,
                                              !.bad = bad, !.level = level]

LEMMA NewRunBounded ==
    ASSUME DaoOpsAssumption, NEW bad, bad \subseteq Checks, NEW level \in Level,
           maxHandlerRetries > 0
    PROVE  NewRun(bad, level) \in BoundedRun
<1>1. maxHandlerRetries - 1 \in 0..maxHandlerRetries
    BY DaoBounds
<1> QED BY <1>1 DEF NewRun, NoRun, BoundedRun

(* The next block, whatever the sets of constants allow it to hold.           *)
LEMMA NextBlockBounded ==
    ASSUME DaoOpsAssumption, DaoTypes, maxHandlerRetries > 0, now < MaxTime, now' = now + 1,
           NEW bad, bad \subseteq Checks, NEW level \in Level,
           CallOf(now + 1, NewRun(bad, level), pending),
           NEW D, D \subseteq Kinds, due' = due \union (D \X {now + 1}),
           UNCHANGED <<hugePooledMaticStart, highPooledMaticStart, lastRewardsDistributeTime, distribution,
                       delivered, lastSeen, overtaken>>
    PROVE  DaoTypes'
<1> DEFINE n == now + 1
<1>1. now \in Epoch..MaxTime /\ pending \subseteq BoundedCall
      /\ due \subseteq Kinds \X Blocks
    BY DEF DaoTypes
<1>2. n \in Blocks /\ n \in Epoch..MaxTime
    BY <1>1, DaoBounds DEF Blocks
<1>3. NewRun(bad, level) \in BoundedRun
    BY NewRunBounded
<1>4. /\ lastReported' \in [Kinds -> Time]
      /\ run' \in [Blocks -> BoundedRun]
      /\ pending' \subseteq BoundedCall
    BY <1>1, <1>2, <1>3, CallsBounded
<1>5. due' \subseteq Kinds \X Blocks
    BY <1>1, <1>2
<1>6. now' \in Epoch..MaxTime
    BY <1>2
<1> QED BY <1>4, <1>5, <1>6 DEF DaoTypes

LEMMA DaoTypesBlock == DaoOpsAssumption /\ DaoTypes /\ handleBlock => DaoTypes'
<1> SUFFICES ASSUME DaoOpsAssumption, DaoTypes, handleBlock PROVE DaoTypes'
    OBVIOUS
<1>1. PICK level \in Levels :
          \E bad \in SUBSET {c \in Checks : (now + 1) % Cadence[c] = 0} :
             /\ calls(now + 1, NewRun(bad, level), pending)
             /\ due' = due \union ((IF delayed(now + 1) THEN bad \union {"rewards"} ELSE bad)
                                   \X {now + 1})
    BY DEF handleBlock, NewRun
<1>2. PICK bad \in SUBSET {c \in Checks : (now + 1) % Cadence[c] = 0} :
          /\ calls(now + 1, NewRun(bad, level), pending)
          /\ due' = due \union ((IF delayed(now + 1) THEN bad \union {"rewards"} ELSE bad)
                                \X {now + 1})
    BY <1>1
<1>3. CallOf(now + 1, NewRun(bad, level), pending)
    BY <1>2, CallsAsked
<1>4. bad \subseteq Checks /\ level \in Level /\ maxHandlerRetries > 0
      /\ (IF delayed(now + 1) THEN bad \union {"rewards"} ELSE bad) \subseteq Kinds
    BY DaoBounds
<1> QED BY <1>2, <1>3, <1>4, NextBlockBounded DEF handleBlock, rewards

(* A request of the block p.block fails.                                      *)
LEMMA RetryBounded ==
    ASSUME DaoOpsAssumption, DaoTypes, NEW p \in pending, run[p.block].retries > 0,
           CallOf(p.block, [run[p.block] EXCEPT !.retries = @ - 1, !.failed = TRUE], pending \ {p})
    PROVE  /\ lastReported' \in [Kinds -> Time]
           /\ run' \in [Blocks -> BoundedRun]
           /\ pending' \subseteq BoundedCall
<1>1. p \in BoundedCall /\ pending \ {p} \subseteq BoundedCall
      /\ run \in [Blocks -> BoundedRun]
    BY DEF DaoTypes
<1>2. p.block \in Blocks
    BY <1>1 DEF BoundedCall
<1>3. run[p.block] \in BoundedRun
    BY <1>1, <1>2
<1>4. run[p.block].retries - 1 \in 0..maxHandlerRetries
    <2>1. run[p.block].retries \in 0..maxHandlerRetries
        BY <1>3 DEF BoundedRun
    <2> QED BY <2>1, DaoBounds
<1>5. [run[p.block] EXCEPT !.retries = run[p.block].retries - 1, !.failed = TRUE] \in BoundedRun
    BY <1>3, <1>4 DEF BoundedRun
<1> QED BY <1>1, <1>2, <1>5, CallsBounded

LEMMA DaoTypesFails ==
    ASSUME DaoOpsAssumption, DaoTypes, NEW p \in pending, requestFails(p)
    PROVE  DaoTypes'
<1>1. /\ pending \subseteq BoundedCall /\ run \in [Blocks -> BoundedRun]
      /\ p \in BoundedCall
    BY DEF DaoTypes
<1>2. p.block \in Blocks /\ run[p.block] \in BoundedRun
    BY <1>1 DEF BoundedCall
<1>3. UNCHANGED <<now, hugePooledMaticStart, highPooledMaticStart, lastRewardsDistributeTime,
                  distribution, delivered, due, lastSeen, overtaken>>
    BY DEF requestFails, rewards
<1> DEFINE over == [NoRun EXCEPT !.at = IF run[p.block].at = "running" THEN "errored" ELSE "late",
                                           !.failed = TRUE]
<1>4. over \in BoundedRun
    <2>1. 0 \in 0..maxHandlerRetries
        BY DaoBounds
    <2> QED BY <2>1 DEF NoRun, BoundedRun, Level
<1>5. \/ /\ run[p.block].retries > 0
         /\ CallOf(p.block, [run[p.block] EXCEPT !.retries = @ - 1, !.failed = TRUE], pending \ {p})
      \/ /\ run' = [run EXCEPT ![p.block] = over]
         /\ pending' = orphaned(pending \ {p}, p.block)
         /\ lastReported' = lastReported
      \/ pending' = pending \ {p} /\ run' = run /\ lastReported' = lastReported
    <2>1. CASE mayRetry(p.block) /\ calls(p.block,
                  [run[p.block] EXCEPT !.retries = @ - 1, !.failed = TRUE], pending \ {p})
        BY <2>1, CallsAsked DEF mayRetry
    <2>2. CASE /\ run' = [run EXCEPT ![p.block] = Over([@ EXCEPT !.failed = TRUE],
                              IF @.at = "running" THEN "errored" ELSE "late")]
               /\ pending' = orphaned(pending \ {p}, p.block)
               /\ UNCHANGED lastReported
        <3>1. Over([run[p.block] EXCEPT !.failed = TRUE],
                   IF run[p.block].at = "running" THEN "errored" ELSE "late") = over
            BY <1>2 DEF Over, BoundedRun
        <3> QED BY <1>1, <1>2, <2>2, <3>1
    <2> QED BY <2>1, <2>2 DEF requestFails
<1> HIDE DEF over
<1>6. /\ lastReported' \in [Kinds -> Time]
      /\ run' \in [Blocks -> BoundedRun]
      /\ pending' \subseteq BoundedCall
    <2>1. lastReported \in [Kinds -> Time]
        BY DEF DaoTypes
    <2>2. orphaned(pending \ {p}, p.block) \subseteq BoundedCall
        BY <1>1, OrphansBounded
    <2> QED BY <1>1, <1>2, <1>4, <1>5, <2>1, <2>2, RetryBounded
<1> QED BY <1>3, <1>6 DEF DaoTypes

(* A run finds something.                                                     *)
LEMMA FoundBounded ==
    ASSUME DaoTypes, NEW p \in pending, NEW K, K \subseteq Kinds, finds(p, K)
    PROVE  run' \in [Blocks -> BoundedRun]
<1>1. p \in BoundedCall /\ run \in [Blocks -> BoundedRun]
    BY DEF DaoTypes
<1>2. p.block \in Blocks /\ run[p.block] \in BoundedRun
    BY <1>1 DEF BoundedCall
<1>3. [run[p.block] EXCEPT !.found = IF p.live THEN run[p.block].found \union K ELSE run[p.block].found] \in BoundedRun
    BY <1>2 DEF BoundedRun
<1>4. run' = [run EXCEPT ![p.block] =
                 [run[p.block] EXCEPT !.found = IF p.live THEN run[p.block].found \union K ELSE run[p.block].found]]
    BY DEF finds
<1> QED BY <1>1, <1>3, <1>4

LEMMA DaoTypesAnswers ==
    ASSUME DaoOpsAssumption, DaoTypes, NEW p \in pending, checkAnswered(p) \/ bufferedAnswered(p)
    PROVE  DaoTypes'
<1>1. p \in BoundedCall /\ pending \subseteq BoundedCall
      /\ lastReported \in [Kinds -> Time]
    BY DEF DaoTypes
<1>2. p.block \in Blocks /\ p.check \in Kinds /\ p.level \in Level
      /\ p.block \in Time
    BY <1>1, DaoBounds DEF BoundedCall
<1>3. ASSUME NEW alert, lastReported' = reports(p, alert)
      PROVE  lastReported' \in [Kinds -> Time]
    BY <1>1, <1>2, <1>3 DEF reports
<1>4. overtaken' \in BOOLEAN /\ pending' \subseteq BoundedCall
    BY <1>1 DEF checkAnswered, bufferedAnswered, DaoTypes
<1>5. CASE checkAnswered(p)
    <2>1. (IF p.bad THEN {p.check} ELSE {}) \subseteq Kinds
        BY <1>2
    <2>2. run' \in [Blocks -> BoundedRun]
        BY <1>5, <2>1, FoundBounded DEF checkAnswered
    <2>3. lastReported' \in [Kinds -> Time]
        BY <1>3, <1>5 DEF checkAnswered
    <2> QED BY <1>4, <1>5, <2>2, <2>3 DEF checkAnswered, rewards, DaoTypes
<1>6. CASE bufferedAnswered(p)
    <2> DEFINE huge == startOf(hugePooledMaticStart, p.level = "huge", p.block)
               high == startOf(highPooledMaticStart, p.level \in {"high", "huge"}, p.block)
               alert == lasts(huge, Huge, p.block) \/ lasts(high, High, p.block)
    <2>1. /\ hugePooledMaticStart' = huge /\ highPooledMaticStart' = high
          /\ lastReported' = reports(p, alert)
          /\ finds(p, IF alert THEN {"buffered"} ELSE {})
          /\ lastSeen' = [lastSeen EXCEPT ![p.level] = p.block]
          /\ UNCHANGED <<now, lastRewardsDistributeTime, distribution, delivered, due>>
        BY <1>6 DEF bufferedAnswered, rewards
    <2>2. huge \in Time /\ high \in Time
        BY <1>2, DaoBounds DEF startOf, DaoTypes
    <2> HIDE DEF huge, high, alert
    <2>3. (IF alert THEN {"buffered"} ELSE {}) \subseteq Kinds
        BY DaoBounds
    <2>4. run' \in [Blocks -> BoundedRun]
        BY <2>1, <2>3, FoundBounded
    <2>5. lastReported' \in [Kinds -> Time]
        BY <1>3, <2>1
    <2>6. lastSeen' \in [Level -> Time]
        BY <1>2, <2>1 DEF DaoTypes
    <2> QED BY <1>4, <2>1, <2>2, <2>4, <2>5, <2>6 DEF DaoTypes
<1> QED BY <1>5, <1>6

LEMMA DaoTypesReturns ==
    ASSUME DaoOpsAssumption, DaoTypes, NEW b \in Blocks, callReturns(b) \/ timeout(b)
    PROVE  DaoTypes'
<1>1. run \in [Blocks -> BoundedRun] /\ run[b] \in BoundedRun
    BY DEF DaoTypes
<1>2. ASSUME NEW at \in {"answered", "late"} PROVE Over(run[b], at) \in BoundedRun
    <2>1. 0 \in 0..maxHandlerRetries
        BY DaoBounds
    <2> QED BY <1>1, <2>1 DEF NoRun, Over, BoundedRun, Level
<1>3. CASE callReturns(b)
    <2>1. /\ run' = [run EXCEPT ![b] = Over(run[b], "answered")]
             \/ run' = [run EXCEPT ![b] = Over(run[b], "late")]
          /\ delivered' = delivered \union (run[b].found \X {b}) \/ delivered' = delivered
          /\ UNCHANGED <<now, pending, lastReported, hugePooledMaticStart, highPooledMaticStart,
                         lastRewardsDistributeTime, distribution, due, lastSeen, overtaken>>
        BY <1>1, <1>3 DEF callReturns, timers, rewards
    <2>2. run' \in [Blocks -> BoundedRun]
        BY <1>1, <1>2, <2>1
    <2>3. delivered' \subseteq Kinds \X Blocks
        BY <1>1, <2>1 DEF DaoTypes, BoundedRun
    <2> QED BY <2>1, <2>2, <2>3 DEF DaoTypes
<1>4. CASE timeout(b)
    <2>1. run' = [run EXCEPT ![b] = [run[b] EXCEPT !.at = "timedOut", !.failed = TRUE]]
        BY <1>1, <1>4 DEF timeout
    <2>2. [run[b] EXCEPT !.at = "timedOut", !.failed = TRUE] \in BoundedRun
        BY <1>1 DEF BoundedRun
    <2>3. run' \in [Blocks -> BoundedRun]
        BY <1>1, <2>1, <2>2
    <2> QED BY <1>4, <2>3 DEF DaoTypes, timeout, timers, rewards
<1> QED BY <1>3, <1>4

(* A distribution is counted at the time of a block.                          *)
LEMMA DaoTypesRewards ==
    ASSUME DaoOpsAssumption, DaoTypes,
           handleRewardDistributionEvent \/ \E t \in distribution : checkpointsCounted(t)
    PROVE  DaoTypes'
<1>1. now \in Time
    BY DaoBounds DEF DaoTypes, Time
<1> QED BY <1>1 DEF DaoTypes, handleRewardDistributionEvent, checkpointsCounted, timers

LEMMA DaoTypesNext == DaoOpsAssumption /\ DaoTypes /\ [Next]_vars => DaoTypes'
<1> SUFFICES ASSUME DaoOpsAssumption, DaoTypes, [Next]_vars PROVE DaoTypes'
    OBVIOUS
<1>1. CASE UNCHANGED vars
    BY <1>1 DEF DaoTypes, vars, timers, rewards
<1> QED BY <1>1, DaoTypesBlock, DaoTypesAnswers, DaoTypesFails, DaoTypesReturns, DaoTypesRewards DEF Next

(* The DAO operations keep their types.                                       *)
THEOREM DaoOpsAreTyped == DaoOpsAssumption /\ Spec => []TypeOK
<1> SUFFICES ASSUME DaoOpsAssumption PROVE Spec => []TypeOK
    OBVIOUS
<1>1. Init => DaoTypes
    BY DaoTypesInit
<1>2. DaoTypes /\ [Next]_vars => DaoTypes'
    BY DaoTypesNext
<1> QED BY <1>1, <1>2, DaoTypesAre, PTL DEF Spec
=============================================================================
