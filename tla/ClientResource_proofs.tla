------------------------ MODULE ClientResource_proofs ------------------------
(***************************************************************************)
(* Proofs about ClientResource for any keys, components, poll intervals,   *)
(* versions and generations.                                               *)
(*                                                                         *)
(* The properties speak of what the newest generation may do; that rests   *)
(* on which of the requests in flight has it.  RInv, per Resource, adds    *)
(* that a generation has one request, that only its deadline aborts the    *)
(* registered one, and that what this one has read is not older than what  *)
(* is on screen.                                                           *)
(***************************************************************************)
EXTENDS ClientResource, WellFoundedInduction, TLAPS

Live(r, h) == h.epoch = r.attempt

RInv(r, v) ==
    /\ r \in Resources
    /\ r.snapshot.refreshing <=> r.attempt # 0
    /\ r.attempt # 0 => r.attempt = r.epoch /\ \E h \in r.flights : h.epoch = r.attempt
    /\ \A h \in r.flights : h.epoch # 0 /\ h.epoch <= r.epoch /\ (h.epoch # r.attempt => h.aborted)
    /\ \A h \in r.flights : \A g \in r.flights : h.epoch = g.epoch => h = g
    /\ \A h \in r.flights : Live(r, h) /\ h.aborted => h.timedOut
    /\ r.snapshot.data <= v
    /\ \A h \in r.flights : h.read <= v /\ (Live(r, h) /\ h.read # NoData => h.read >= r.snapshot.data)

ResourceInv ==
    /\ ResourceTypeOK
    /\ \A k \in Keys : RInv(res[k], version)

-----------------------------------------------------------------------------
(* Every non-empty set of numbers has a least one. *)
LEMMA Least ==
    ASSUME NEW T \in SUBSET Nat, T # {}
    PROVE  \E x \in T : \A y \in T : x <= y
<1>1. PICK x \in T : \A y \in T : <<y, x>> \notin OpToRel(<, Nat)
  BY NatLessThanWellFounded, WFMin
<1>2. \A y \in T : ~(y < x)
  BY <1>1 DEF OpToRel
<1>3. x \in Nat /\ \A y \in T : y \in Nat
  OBVIOUS
<1>4. \A y \in T : x <= y
  BY <1>2, <1>3
<1> QED
  BY <1>4

(* The empty snapshot and a new Resource are in order. *)
LEMMA NewResourceOK ==
    ASSUME NEW v \in 1 .. MaxVersion
    PROVE  RInv(NewResource, v)
<1>1. NoData \in Values
  BY ResourceAssumption DEF NoData, Values, NullData
<1>2. emptyResourceSnapshot \in Snapshots
  BY <1>1 DEF emptyResourceSnapshot, Snapshots
<1>3. NewResource \in Resources
  BY <1>2 DEF NewResource, Resources, Nobody
<1> QED
  BY <1>3 DEF RInv, NewResource, emptyResourceSnapshot, NoData

(* The interval of the pulse is a number, and 0 exactly when nobody polls. *)
LEMMA FastestPoll ==
    ASSUME NEW r \in Resources
    PROVE  /\ fastestPoll(r) \in Nat
           /\ fastestPoll(r) = 0 <=> Polling(r) = {}
<1>1. Polling(r) \subseteq Watchers
  BY DEF Polling, Watching, Resources
<1>2. \A w \in Polling(r) : PollMs[w] \in Nat /\ PollMs[w] > 0
  BY <1>1, ResourceAssumption DEF Polling
<1> DEFINE lowest == {w \in Polling(r) : \A x \in Polling(r) : PollMs[w] <= PollMs[x]}
<1>3. Polling(r) # {} => lowest # {}
  <2> SUFFICES ASSUME Polling(r) # {} PROVE lowest # {}
    OBVIOUS
  <2> DEFINE T == {PollMs[w] : w \in Polling(r)}
  <2>1. T \in SUBSET Nat /\ T # {}
    BY <1>2
  <2>2. PICK x \in T : \A y \in T : x <= y
    BY <2>1, Least
  <2> QED
    BY <2>2
<1>4. lowest # {} => PollMs[CHOOSE w \in lowest : TRUE] \in {PollMs[w] : w \in Polling(r)}
  OBVIOUS
<1>5. fastestPoll(r) = IF lowest = {} THEN 0 ELSE PollMs[CHOOSE w \in lowest : TRUE]
  BY DEF fastestPoll
<1> HIDE DEF lowest
<1>6. lowest = {} <=> Polling(r) = {}
  BY <1>3 DEF lowest
<1> QED
  BY <1>2, <1>4, <1>5, <1>6

(* Who joined first among some watchers is one of them. *)
LEMMA FirstOfWatching ==
    ASSUME NEW r \in Resources, NEW S \in SUBSET Watching(r)
    PROVE  /\ FirstOf(r, S) \in Watchers \cup {Nobody}
           /\ S # {} => FirstOf(r, S) \in S /\ FirstOf(r, S) # Nobody
<1>1. Watching(r) \subseteq Watchers /\ Nobody \notin Watchers
  BY ResourceAssumption DEF Watching, Resources, Nobody
<1> DEFINE first == {w \in S : \E i \in DOMAIN r.watchers :
                        r.watchers[i] = w /\ \A j \in 1 .. i - 1 : r.watchers[j] \notin S}
<1>2. S # {} => first # {}
  <2> SUFFICES ASSUME S # {} PROVE first # {}
    OBVIOUS
  <2> DEFINE T == {i \in DOMAIN r.watchers : r.watchers[i] \in S}
  <2>0. DOMAIN r.watchers = 1 .. Len(r.watchers) /\ Len(r.watchers) \in Nat
    BY DEF Resources
  <2>1. T \in SUBSET Nat /\ T # {}
    BY <2>0 DEF Watching
  <2>2. PICK x \in T : \A y \in T : x <= y
    BY <2>1, Least
  <2>3. \A j \in 1 .. x - 1 : r.watchers[j] \notin S
    BY <2>0, <2>2
  <2> QED
    BY <2>2, <2>3
<1>3. first # {} => (CHOOSE w \in first : TRUE) \in S
  OBVIOUS
<1>4. FirstOf(r, S) = IF first = {} THEN Nobody ELSE CHOOSE w \in first : TRUE
  BY DEF FirstOf
<1> HIDE DEF first
<1> QED
  BY <1>1, <1>2, <1>3, <1>4

(* While the page is visible, a Resource with watchers has one to take a load over. *)
LEMMA PickWatcher ==
    ASSUME NEW r \in Resources, NEW hid \in BOOLEAN
    PROVE  /\ pickWatcher(r, hid) \in Watchers \cup {Nobody}
           /\ ~hid /\ r.watchers # <<>> => pickWatcher(r, hid) # Nobody
<1>1. /\ Polling(r) \in SUBSET Watching(r) /\ Watching(r) \in SUBSET Watching(r)
      /\ {w \in Polling(r) : ~PauseWhenHidden[w]} \in SUBSET Watching(r)
  BY DEF Polling
<1>2. r.watchers # <<>> => Watching(r) # {}
  <2> SUFFICES ASSUME r.watchers # <<>> PROVE Watching(r) # {}
    OBVIOUS
  <2>1. r.watchers \in Seq(Watchers)
    BY DEF Resources
  <2>2. Len(r.watchers) \in Nat \ {0} /\ DOMAIN r.watchers = 1 .. Len(r.watchers)
    BY <2>1
  <2>3. 1 \in DOMAIN r.watchers
    BY <2>2
  <2> QED
    BY <2>3 DEF Watching
<1> QED
  BY <1>1, <1>2, FirstOfWatching DEF pickWatcher

(* Aborting the registered attempt leaves no live request. *)
LEMMA AbortOK ==
    ASSUME NEW v \in 1 .. MaxVersion, NEW r, RInv(r, v)
    PROVE  LET F == abortAttempt(r).flights IN
           /\ abortAttempt(r) = [r EXCEPT !.flights = F] /\ F \subseteq Handles
           /\ \A h \in F : h.aborted /\ h.epoch # 0 /\ h.epoch <= r.epoch /\ h.read <= v
           /\ \A h \in F : \A g \in F : h.epoch = g.epoch => h = g
<1> DEFINE A(h) == IF h.epoch = r.attempt THEN [h EXCEPT !.aborted = TRUE] ELSE h
           F == {A(h) : h \in r.flights}
<1>1. r \in Resources /\ r.flights \subseteq Handles
  BY DEF RInv, Resources
<1>2. abortAttempt(r) = [r EXCEPT !.flights = F]
  BY DEF abortAttempt
<1>3. abortAttempt(r).flights = F
  BY <1>1, <1>2 DEF Resources
<1>4. ASSUME NEW h \in r.flights
      PROVE  /\ A(h) \in Handles /\ A(h).aborted /\ A(h).epoch = h.epoch /\ A(h).read = h.read
             /\ h.epoch # 0 /\ h.epoch <= r.epoch /\ h.read <= v
  BY <1>1 DEF RInv, Handles
<1>5. \A h \in r.flights : \A g \in r.flights : h.epoch = g.epoch => h = g
  BY DEF RInv
<1> HIDE DEF A
<1> QED
  BY <1>2, <1>3, <1>4, <1>5

(* What an operation on a Resource leaves to the components that watch it. *)
SameScreen(q, r) ==
    /\ q.watchers = r.watchers /\ q.pulse = r.pulse
    /\ q.snapshot.data = r.snapshot.data /\ q.snapshot.error = r.snapshot.error

(* The attempt that is opened is the only live one. *)
LEMMA OpenOK ==
    ASSUME NEW v \in 1 .. MaxVersion, NEW r, RInv(r, v), NEW w \in Watchers, NEW f \in BOOLEAN
    PROVE  LET q == openAttempt(abortAttempt(r), w, f) IN
           RInv(q, v) /\ SameScreen(q, r) /\ q.attempt # 0
<1> DEFINE a == abortAttempt(r)
           F == a.flights
           h0 == [epoch |-> r.epoch + 1, aborted |-> FALSE, timedOut |-> FALSE, read |-> NoData]
           q == openAttempt(a, w, f)
<1>1. /\ a = [r EXCEPT !.flights = F] /\ F \subseteq Handles
      /\ \A h \in F : h.aborted /\ h.epoch # 0 /\ h.epoch <= r.epoch /\ h.read <= v
      /\ \A h \in F : \A g \in F : h.epoch = g.epoch => h = g
  BY AbortOK
<1>2. r \in Resources /\ r.epoch \in Nat /\ r.snapshot \in Snapshots /\ r.snapshot.data <= v
  BY DEF RInv, Resources
<1>3. /\ a.epoch = r.epoch /\ a.snapshot = r.snapshot /\ a.watchers = r.watchers
      /\ a.pulse = r.pulse /\ a \in Resources
  BY <1>1, <1>2 DEF Resources
<1> DEFINE s == resourceInFlightSnapshot(r.snapshot, f)
<1>4. (r.snapshot.loading \/ r.snapshot.data = NoData \/ f) \in BOOLEAN
  BY SMT
<1>5. s \in Snapshots /\ s.data = r.snapshot.data /\ s.error = r.snapshot.error /\ s.refreshing
  BY <1>2, <1>4 DEF Snapshots, resourceInFlightSnapshot
<1>6. q = [a EXCEPT !.epoch = r.epoch + 1, !.attempt = r.epoch + 1, !.owner = w,
                    !.flights = F \cup {h0}, !.snapshot = s]
  BY <1>3 DEF openAttempt
<1>7. h0 \in Handles
  BY <1>2, ResourceAssumption DEF Handles, Values, NoData, NullData
<1>8. /\ q.epoch = r.epoch + 1 /\ q.attempt = r.epoch + 1 /\ q.flights = F \cup {h0}
      /\ q.snapshot = s /\ q.watchers = r.watchers /\ q.pulse = r.pulse /\ q \in Resources
  <2>1. /\ q.epoch = r.epoch + 1 /\ q.attempt = r.epoch + 1 /\ q.flights = F \cup {h0}
        /\ q.snapshot = s /\ q.watchers = r.watchers /\ q.pulse = r.pulse
    BY <1>3, <1>6 DEF Resources
  <2> HIDE DEF a, F, h0, s
  <2>2. r.epoch + 1 \in Nat /\ F \cup {h0} \in SUBSET Handles
    BY <1>1, <1>2, <1>7
  <2>3. q \in Resources
    BY <1>3, <1>5, <1>6, <2>2 DEF Resources
  <2> QED
    BY <2>1, <2>3
<1> HIDE DEF q, s, F, a
<1>9. \A h \in q.flights : h = h0 \/ (h \in F /\ h.aborted /\ h.epoch # 0 /\ h.epoch < q.attempt /\ h.read <= v
                                      /\ h.epoch \in Nat)
  BY <1>1, <1>2, <1>8 DEF Handles
<1>10. h0.epoch = q.attempt /\ h0.aborted = FALSE /\ h0.read = NoData /\ q.attempt \in Nat /\ q.attempt # 0
  BY <1>2, <1>8
<1> HIDE DEF h0
<1>11. \A h \in q.flights : \A g \in q.flights : h.epoch = g.epoch => h = g
  BY <1>1, <1>9, <1>10
<1>12. RInv(q, v)
  BY <1>2, <1>5, <1>8, <1>9, <1>10, <1>11 DEF RInv, Live, NoData
<1> QED
  BY <1>5, <1>8, <1>10, <1>12 DEF q, a, SameScreen

(* ask opens an attempt unless one is registered and may stay. *)
LEMMA AskOK ==
    ASSUME NEW v \in 1 .. MaxVersion, NEW r, RInv(r, v), NEW w \in Watchers, NEW f \in BOOLEAN,
           NEW replace \in BOOLEAN
    PROVE  LET q == ask(r, replace, w, f) IN
           RInv(q, v) /\ SameScreen(q, r) /\ q.attempt # 0
BY OpenOK DEF ask, SameScreen

(* Asking for nobody changes nothing. *)
LEMMA AskForOK ==
    ASSUME NEW v \in 1 .. MaxVersion, NEW r, RInv(r, v), NEW w \in Watchers \cup {Nobody},
           NEW replace \in BOOLEAN
    PROVE  LET q == askFor(r, replace, w) IN
           RInv(q, v) /\ SameScreen(q, r) /\ (w # Nobody => q.attempt # 0)
<1>1. CASE w = Nobody
  BY <1>1 DEF askFor, SameScreen
<1>2. CASE w # Nobody
  <2>1. w \in Watchers /\ FALSE \in BOOLEAN /\ askFor(r, replace, w) = ask(r, replace, w, FALSE)
    BY <1>2 DEF askFor
  <2> QED
    BY <2>1, AskOK
<1> QED
  BY <1>1, <1>2

(* A Resource whose attempt is given up has no live request. *)
LEMMA GiveUpOK ==
    ASSUME NEW v \in 1 .. MaxVersion, NEW r, RInv(r, v),
           NEW q \in Resources, q.epoch = r.epoch + 1, q.attempt = 0,
           q.flights = abortAttempt(r).flights, ~q.snapshot.refreshing, q.snapshot.data <= v
    PROVE  RInv(q, v)
<1> DEFINE F == abortAttempt(r).flights
<1>1. /\ F \subseteq Handles
      /\ \A h \in F : h.aborted /\ h.epoch # 0 /\ h.epoch <= r.epoch /\ h.read <= v
      /\ \A h \in F : \A g \in F : h.epoch = g.epoch => h = g
  BY AbortOK
<1>2. r.epoch \in Nat
  BY DEF RInv, Resources
<1>3. \A h \in q.flights : h.epoch # 0 /\ h.epoch <= q.epoch /\ h.aborted /\ h.read <= v
  BY <1>1, <1>2 DEF Handles
<1>4. \A h \in q.flights : ~Live(q, h)
  BY <1>3 DEF Live
<1> QED
  BY <1>1, <1>3, <1>4 DEF RInv

(* A component that leaves takes its own attempt with it and nothing else. *)
LEMMA CancelOK ==
    ASSUME NEW v \in 1 .. MaxVersion, NEW r, RInv(r, v), NEW w \in Watchers
    PROVE  LET q == cancelOwnedBy(r, w) IN
           /\ RInv(q, v) /\ SameScreen(q, r)
           /\ ~(r.attempt # 0 /\ r.owner = w) => q.attempt = r.attempt
<1>1. CASE r.attempt = 0 \/ r.owner # w
  BY <1>1 DEF cancelOwnedBy, SameScreen
<1>2. CASE ~(r.attempt = 0 \/ r.owner # w)
  <2> DEFINE a == abortAttempt(r)
             s == [r.snapshot EXCEPT !.refreshing = FALSE]
             q == [a EXCEPT !.attempt = 0, !.owner = Nobody, !.epoch = @ + 1, !.snapshot = s]
  <2>1. r \in Resources /\ r.snapshot \in Snapshots /\ r.snapshot.data <= v /\ r.epoch \in Nat
    BY DEF RInv, Resources
  <2>2. s \in Snapshots /\ s.data = r.snapshot.data /\ s.error = r.snapshot.error /\ ~s.refreshing
    BY <2>1 DEF Snapshots
  <2>3. a = [r EXCEPT !.flights = a.flights] /\ a.flights \subseteq Handles
    BY AbortOK
  <2>4. /\ a \in Resources /\ a.snapshot = r.snapshot /\ a.epoch = r.epoch
        /\ a.watchers = r.watchers /\ a.pulse = r.pulse
    BY <2>1, <2>3 DEF Resources
  <2>5. cancelOwnedBy(r, w) = q
    BY <1>2, <2>4 DEF cancelOwnedBy
  <2> HIDE DEF a, s
  <2>6. /\ q.epoch = r.epoch + 1 /\ q.attempt = 0 /\ q.flights = a.flights /\ q.snapshot = s
        /\ q.watchers = r.watchers /\ q.pulse = r.pulse
    BY <2>4 DEF Resources
  <2>7. a.epoch + 1 \in Nat /\ Nobody \in Watchers \cup {Nobody}
    BY <2>1, <2>4
  <2>8. q \in Resources
    BY <2>2, <2>4, <2>7 DEF Resources
  <2> HIDE DEF q
  <2>9. RInv(q, v)
    BY <2>1, <2>2, <2>6, <2>8, GiveUpOK DEF a
  <2> QED
    BY <1>2, <2>2, <2>5, <2>6, <2>9 DEF SameScreen
<1> QED
  BY <1>1, <1>2

(* publish shows the value it is given. *)
LEMMA PublishOK ==
    ASSUME NEW v \in 1 .. MaxVersion, NEW r, RInv(r, v), NEW data \in 1 .. v
    PROVE  LET q == publish(r, data) IN
           /\ RInv(q, v) /\ q.watchers = r.watchers /\ q.pulse = r.pulse
           /\ q.snapshot.data = data /\ q.attempt = 0
<1> DEFINE a == abortAttempt(r)
           s == resourceSuccessSnapshot(data)
           d == r.watchers = <<>>
           q == [a EXCEPT !.attempt = 0, !.owner = Nobody, !.epoch = @ + 1, !.snapshot = s,
                          !.seedDirty = d, !.settledAt = "recent"]
<1>1. data \in Values /\ data <= v
  BY ResourceAssumption DEF Values, NullData
<1>2. s \in Snapshots /\ s.data = data /\ ~s.refreshing
  BY <1>1 DEF Snapshots, resourceSuccessSnapshot
<1>3. d \in BOOLEAN
  BY SMT
<1>4. r \in Resources /\ r.epoch \in Nat
  BY DEF RInv, Resources
<1>5. a = [r EXCEPT !.flights = a.flights] /\ a.flights \subseteq Handles
  BY AbortOK
<1>6. a \in Resources /\ a.epoch = r.epoch /\ a.watchers = r.watchers /\ a.pulse = r.pulse
  BY <1>4, <1>5 DEF Resources
<1>7. publish(r, data) = q
  BY DEF publish
<1> HIDE DEF s, d, a
<1>8. /\ q.epoch = r.epoch + 1 /\ q.attempt = 0 /\ q.flights = a.flights /\ q.snapshot = s
      /\ q.watchers = r.watchers /\ q.pulse = r.pulse
  BY <1>6 DEF Resources
<1>9. a.epoch + 1 \in Nat /\ Nobody \in Watchers \cup {Nobody}
  BY <1>4, <1>6
<1>10. q \in Resources
  BY <1>2, <1>3, <1>6, <1>9 DEF Resources
<1> HIDE DEF q
<1>11. RInv(q, v)
  BY <1>1, <1>2, <1>8, <1>10, GiveUpOK DEF a
<1> QED
  BY <1>2, <1>7, <1>8, <1>11

(* retunePulse changes the pulse only. *)
LEMMA RetuneOK ==
    ASSUME NEW v \in 1 .. MaxVersion, NEW r, RInv(r, v), NEW hid \in BOOLEAN
    PROVE  LET q == retunePulse(r, hid) IN
           /\ RInv(q, v) /\ q.watchers = r.watchers /\ q.snapshot = r.snapshot
           /\ q.attempt = r.attempt
           /\ q.pulse = IF fastestPoll(r) = 0 \/ (hid /\ ~hiddenOptOut(r)) THEN 0 ELSE fastestPoll(r)
<1> DEFINE p == IF fastestPoll(r) = 0 \/ (hid /\ ~hiddenOptOut(r)) THEN 0 ELSE fastestPoll(r)
           q == [r EXCEPT !.pulse = p]
<1>1. r \in Resources
  BY DEF RInv
<1>2. p \in Nat
  BY <1>1, FastestPoll
<1>3. retunePulse(r, hid) = q
  BY DEF retunePulse
<1> HIDE DEF p
<1>4. q \in Resources
  BY <1>1, <1>2 DEF Resources
<1>5. /\ q.watchers = r.watchers /\ q.snapshot = r.snapshot /\ q.attempt = r.attempt
      /\ q.epoch = r.epoch /\ q.flights = r.flights /\ q.pulse = p
  BY <1>1 DEF Resources
<1> HIDE DEF q
<1>6. RInv(q, v)
  BY <1>4, <1>5 DEF RInv, Live
<1> QED
  BY <1>3, <1>5, <1>6 DEF p

(* What the promise of h may bring: its answer, the null of an owner's abort, or an error. *)
Outcome(h, success, data) ==
    success => /\ ~h.timedOut
               /\ (h.read # NoData /\ data = h.read) \/ (h.aborted /\ data = NullData)

(* A Resource with nothing on screen, no error and nobody who loads. *)
Idle(r) == r.attempt = 0 /\ r.snapshot.data = NoData /\ ~r.snapshot.error

(* Settling paints only forward, and the registered attempt never closes without a result. *)
LEMMA SettleOK ==
    ASSUME NEW v \in 1 .. MaxVersion, NEW r, RInv(r, v), NEW h \in r.flights,
           NEW success \in BOOLEAN, NEW data, Outcome(h, success, data)
    PROVE  LET q == settle(r, h, success, data) IN
           /\ RInv(q, v) /\ q.watchers = r.watchers /\ q.pulse = r.pulse
           /\ q.snapshot.data >= r.snapshot.data
           /\ r.snapshot.data # NoData => q.snapshot.data # NoData
           /\ Idle(q) => Idle(r)
<1> DEFINE at == IF r.attempt = h.epoch THEN 0 ELSE r.attempt
           own == IF r.attempt = h.epoch THEN Nobody ELSE r.owner
           c == [r EXCEPT !.flights = @ \ {h}, !.attempt = at, !.owner = own]
           commit == commitResourceFetch(r, h, success)
           q == settle(r, h, success, data)
<1>1. /\ r \in Resources /\ r.snapshot \in Snapshots /\ r.snapshot.data <= v
      /\ r.attempt \in Nat /\ r.epoch \in Nat /\ r.owner \in Watchers \cup {Nobody}
      /\ r.flights \subseteq Handles /\ h \in Handles /\ r.snapshot.data \in Values
  BY DEF RInv, Resources, Snapshots
<1>2. at \in Nat /\ own \in Watchers \cup {Nobody} /\ r.flights \ {h} \in SUBSET Handles
  BY <1>1
<1> HIDE DEF at, own
<1>3. /\ c \in Resources /\ c.flights = r.flights \ {h} /\ c.attempt = at /\ c.epoch = r.epoch
      /\ c.snapshot = r.snapshot /\ c.watchers = r.watchers /\ c.pulse = r.pulse
  <2>1. c \in Resources
    BY <1>1, <1>2 DEF Resources
  <2> QED
    BY <1>1, <2>1 DEF Resources
<1>4. /\ commit \in {"ignore", "success", "failure"}
      /\ commit = "success" => success /\ h.epoch = r.epoch /\ ~h.aborted
      /\ commit = "failure" => h.epoch = r.epoch
      /\ commit = "ignore" => h.epoch # r.epoch \/ (h.aborted /\ (success \/ ~h.timedOut))
  BY DEF commitResourceFetch
<1>5. /\ commit = "ignore" => q = c
      /\ commit = "success" => q = [c EXCEPT !.snapshot = resourceSuccessSnapshot(data),
                                             !.seedDirty = FALSE, !.settledAt = "recent"]
      /\ commit = "failure" => q = [c EXCEPT !.snapshot = resourceFailureSnapshot(c.snapshot),
                                             !.seedDirty = FALSE]
  BY DEF settle, at, own
<1> HIDE DEF c, commit
(* The live request always has a result. *)
<1>6. r.attempt # 0 /\ h.epoch = r.attempt => commit # "ignore"
  BY <1>4 DEF RInv, Live, Outcome
(* Only the live request brings a value. *)
<1>7. commit = "success" => /\ h.epoch = r.attempt /\ data = h.read /\ data # NoData
                            /\ data >= r.snapshot.data /\ data <= v /\ data \in Values
  <2> SUFFICES ASSUME commit = "success"
               PROVE  /\ h.epoch = r.attempt /\ data = h.read /\ data # NoData
                      /\ data >= r.snapshot.data /\ data <= v /\ data \in Values
    OBVIOUS
  <2>1. success /\ ~h.aborted
    BY <1>4
  <2>2. h.epoch = r.attempt
    BY <2>1 DEF RInv
  <2>3. data = h.read /\ data # NoData
    BY <2>1 DEF Outcome
  <2>4. data \in Values
    BY <1>1, <2>3 DEF Handles
  <2> QED
    BY <2>2, <2>3, <2>4 DEF RInv, Live
<1>8. /\ q \in Resources /\ q.flights = r.flights \ {h} /\ q.attempt = at /\ q.epoch = r.epoch
      /\ q.watchers = r.watchers /\ q.pulse = r.pulse
      /\ q.snapshot = CASE commit = "success" -> resourceSuccessSnapshot(data)
                        [] commit = "failure" -> resourceFailureSnapshot(r.snapshot)
                        [] commit = "ignore" -> r.snapshot
  <2>1. CASE commit = "ignore"
    BY <1>3, <1>5, <2>1
  <2>2. CASE commit = "success"
    <3>1. resourceSuccessSnapshot(data) \in Snapshots
      BY <1>7, <2>2 DEF resourceSuccessSnapshot, Snapshots
    <3> HIDE DEF q
    <3>2. q \in Resources
      BY <1>3, <1>5, <2>2, <3>1 DEF Resources
    <3> QED
      BY <1>3, <1>5, <2>2, <3>2 DEF Resources
  <2>3. CASE commit = "failure"
    <3> DEFINE s == resourceFailureSnapshot(r.snapshot)
    <3>1. s \in Snapshots
      BY <1>1 DEF resourceFailureSnapshot, Snapshots
    <3>2. q = [c EXCEPT !.snapshot = s, !.seedDirty = FALSE]
      BY <1>3, <1>5, <2>3
    <3>3. c \in Resources
      BY <1>3
    <3> HIDE DEF q, s
    <3>4. q \in Resources
      BY <3>1, <3>2, <3>3 DEF Resources
    <3>5. /\ q.flights = c.flights /\ q.attempt = c.attempt /\ q.epoch = c.epoch
          /\ q.watchers = c.watchers /\ q.pulse = c.pulse /\ q.snapshot = s
      BY <3>2, <3>3 DEF Resources
    <3> QED
      BY <1>3, <2>3, <3>4, <3>5 DEF s
  <2> QED
    BY <1>4, <2>1, <2>2, <2>3
<1> HIDE DEF q
<1>9. /\ q.snapshot.data >= r.snapshot.data /\ q.snapshot.data <= v
      /\ q.snapshot.data = r.snapshot.data \/ (commit = "success" /\ q.snapshot.data # NoData)
      /\ commit = "ignore" => q.snapshot = r.snapshot
      /\ commit = "failure" => q.snapshot.error
      /\ commit = "success" => q.snapshot.data # NoData
      /\ commit # "ignore" => ~q.snapshot.refreshing
  BY <1>1, <1>4, <1>7, <1>8 DEF resourceSuccessSnapshot, resourceFailureSnapshot, Values, NullData
<1>10. RInv(q, v)
  <2>1. q.snapshot.refreshing <=> q.attempt # 0
    <3>1. CASE commit = "ignore"
      BY <1>6, <1>8, <1>9, <3>1 DEF RInv, at
    <3>2. CASE commit # "ignore"
      BY <1>4, <1>8, <1>9, <3>2 DEF RInv, at
    <3> QED
      BY <3>1, <3>2
  <2>2. q.attempt # 0 => q.attempt = q.epoch /\ \E g \in q.flights : g.epoch = q.attempt
    BY <1>8 DEF RInv, at
  <2>3. \A g \in q.flights : g.epoch # 0 /\ g.epoch <= q.epoch /\ (g.epoch # q.attempt => g.aborted)
    BY <1>8 DEF RInv, at
  <2>4. \A g \in q.flights : Live(q, g) => Live(r, g)
    BY <1>8, <2>3 DEF Live, at
  <2>5. \A g \in q.flights : Live(q, g) /\ g.aborted => g.timedOut
    BY <1>8, <2>4 DEF RInv
  <2>6. \A g \in q.flights : ~Live(q, g) \/ q.snapshot.data = r.snapshot.data
    BY <1>7, <1>8, <1>9, <2>3 DEF Live, at, RInv
  <2>7. \A g \in q.flights : g.read <= v /\ (Live(q, g) /\ g.read # NoData => g.read >= q.snapshot.data)
    BY <1>8, <2>4, <2>6 DEF RInv
  <2>8. \A g \in q.flights : \A e \in q.flights : g.epoch = e.epoch => g = e
    BY <1>8 DEF RInv
  <2> QED
    BY <1>8, <1>9, <2>1, <2>2, <2>3, <2>5, <2>7, <2>8 DEF RInv
<1>11. Idle(q) => Idle(r)
  <2>1. CASE commit = "ignore"
    BY <1>6, <1>8, <1>9, <2>1 DEF Idle, at
  <2>2. CASE commit # "ignore"
    BY <1>4, <1>9, <2>2 DEF Idle
  <2> QED
    BY <2>1, <2>2
<1> QED
  BY <1>8, <1>9, <1>10, <1>11 DEF q

-----------------------------------------------------------------------------
(* Watchers.                                                               *)

Cadence(r, hid) ==
    IF Polling(r) = {} \/ (hid /\ ~hiddenOptOut(r)) THEN 0 ELSE fastestPoll(r)

(* Who polls, and how often, depends on the watchers only. *)
LEMMA SameWatchers ==
    ASSUME NEW r, NEW q, q.watchers = r.watchers
    PROVE  /\ Watching(q) = Watching(r) /\ Polling(q) = Polling(r)
           /\ fastestPoll(q) = fastestPoll(r) /\ (hiddenOptOut(q) <=> hiddenOptOut(r))
           /\ \A hid \in BOOLEAN : Cadence(q, hid) = Cadence(r, hid)
<1>1. Watching(q) = Watching(r)
  BY DEF Watching
<1>2. Polling(q) = Polling(r)
  BY <1>1 DEF Polling
<1>3. fastestPoll(q) = fastestPoll(r) /\ (hiddenOptOut(q) <=> hiddenOptOut(r))
  BY <1>2 DEF fastestPoll, hiddenOptOut
<1> QED
  BY <1>1, <1>2, <1>3 DEF Cadence

(* The retuned pulse has the cadence of the watchers. *)
LEMMA RetuneCadence ==
    ASSUME NEW v \in 1 .. MaxVersion, NEW r, RInv(r, v), NEW hid \in BOOLEAN
    PROVE  retunePulse(r, hid).pulse = Cadence(retunePulse(r, hid), hid)
<1>1. r \in Resources
  BY DEF RInv
<1>2. retunePulse(r, hid).pulse = Cadence(r, hid)
  BY <1>1, RetuneOK, FastestPoll DEF Cadence
<1> QED
  BY <1>2, RetuneOK, SameWatchers

(* A Resource with other watchers is in order as before. *)
LEMMA WatchersOK ==
    ASSUME NEW v \in 1 .. MaxVersion, NEW r, RInv(r, v), NEW s \in Seq(Watchers)
    PROVE  LET q == [r EXCEPT !.watchers = s] IN
           /\ RInv(q, v) /\ q.watchers = s /\ q.snapshot = r.snapshot /\ q.attempt = r.attempt
           /\ q.owner = r.owner
<1> DEFINE q == [r EXCEPT !.watchers = s]
<1>1. r \in Resources
  BY DEF RInv
<1>2. q \in Resources
  BY <1>1 DEF Resources
<1>3. /\ q.watchers = s /\ q.snapshot = r.snapshot /\ q.attempt = r.attempt
      /\ q.epoch = r.epoch /\ q.flights = r.flights /\ q.owner = r.owner
  BY <1>1 DEF Resources
<1> HIDE DEF q
<1>4. RInv(q, v)
  BY <1>2, <1>3 DEF RInv, Live
<1> QED
  BY <1>3, <1>4 DEF q

(* Deleting a watcher keeps the others. *)
LEMMA WithoutOK ==
    ASSUME NEW s \in Seq(Watchers), NEW w, NEW d \in DOMAIN s, s[d] = w
    PROVE  /\ Without(s, w) \in Seq(Watchers)
           /\ \A i \in DOMAIN s : s[i] # w =>
                 \E j \in DOMAIN Without(s, w) : Without(s, w)[j] = s[i]
<1> DEFINE at == CHOOSE x \in DOMAIN s : s[x] = w
           n == Len(s) - 1
           u == [i \in 1 .. n |-> s[IF i < at THEN i ELSE i + 1]]
<1>1. at \in DOMAIN s /\ s[at] = w
  OBVIOUS
<1>2. DOMAIN s = 1 .. Len(s) /\ Len(s) \in Nat
  OBVIOUS
<1>3. Without(s, w) = u
  BY DEF Without
<1> HIDE DEF at
<1>4. n \in Nat /\ at \in 1 .. Len(s)
  BY <1>1, <1>2
<1>5. \A i \in 1 .. n : (IF i < at THEN i ELSE i + 1) \in 1 .. Len(s)
  BY <1>2, <1>4
<1>6. u \in [1 .. n -> Watchers]
  BY <1>2, <1>5
<1>7. u \in Seq(Watchers)
  BY <1>4, <1>6
<1>8. ASSUME NEW i \in DOMAIN s, s[i] # w
      PROVE  \E j \in DOMAIN u : u[j] = s[i]
  <2>1. i # at /\ i \in 1 .. Len(s)
    BY <1>1, <1>2, <1>8
  <2>2. CASE i < at
    <3>1. i \in 1 .. n /\ u[i] = s[i]
      BY <1>2, <1>4, <2>1, <2>2
    <3> QED
      BY <3>1
  <2>3. CASE i > at
    <3>1. i - 1 \in 1 .. n /\ ~(i - 1 < at) /\ (i - 1) + 1 = i
      BY <1>2, <1>4, <2>1, <2>3
    <3>2. u[i - 1] = s[i]
      BY <3>1
    <3> QED
      BY <3>1, <3>2
  <2> QED
    BY <1>4, <2>1, <2>2, <2>3
<1> HIDE DEF u
<1> QED
  BY <1>3, <1>7, <1>8

-----------------------------------------------------------------------------
(* Steps.                                                                  *)

Inv == ResourceInv /\ CadenceFollowsWatchers

(* The steps MountedKeepsData and AbandonedOnlyHidden allow. *)
KeepsData ==
    \A w \in Watchers : LET k == KeyOf[w] IN
        w \in Watching(res[k]) =>
            \/ Leave(w)
            \/ /\ w \in Watching(res'[k])
               /\ res[k].snapshot.data # NoData => res'[k].snapshot.data # NoData
NobodyAbandoned ==
    \A k \in Keys :
        (Waiting(res'[k]) /\ res'[k].attempt = 0)
            => (Waiting(res[k]) /\ res[k].attempt = 0) \/ hidden

(* What the Resource of k may become without disturbing those who watch it. *)
StaysMounted(k, q) ==
    \A w \in Watchers : KeyOf[w] = k /\ w \in Watching(res[k]) =>
        \/ Leave(w)
        \/ w \in Watching(q) /\ (res[k].snapshot.data # NoData => q.snapshot.data # NoData)
StaysCared(k, q) ==
    (q.watchers # <<>> /\ Idle(q)) => (res[k].watchers # <<>> /\ Idle(res[k])) \/ hidden
SomebodyPolls == \E j \in Keys : Polling(res[j]) # {}

(* A step that turns the Resource of k into q. *)
LEMMA KeyStep ==
    ASSUME Inv, NEW k \in Keys, NEW q, RInv(q, version), res' = [res EXCEPT ![k] = q],
           version' = version, hidden' = hidden, evictions' \in [Keys -> Nat],
           q.pulse = Cadence(q, hidden), pageListener' \in BOOLEAN,
           pageListener' <=> SomebodyPolls', StaysMounted(k, q), StaysCared(k, q)
    PROVE  Inv' /\ KeepsData /\ NobodyAbandoned
<1>1. ResourceTypeOK /\ \A j \in Keys : RInv(res[j], version)
  BY DEF Inv, ResourceInv
<1>2. q \in Resources
  BY DEF RInv
<1>3. res' \in [Keys -> Resources] /\ \A j \in Keys : res'[j] = IF j = k THEN q ELSE res[j]
  BY <1>1, <1>2 DEF ResourceTypeOK
<1>4. ResourceTypeOK'
  BY <1>1, <1>3 DEF ResourceTypeOK
<1>5. \A j \in Keys : RInv(res'[j], version')
  BY <1>1, <1>3
<1>6. CadenceFollowsWatchers'
  <2>1. \A j \in Keys : res'[j].pulse = Cadence(res'[j], hidden')
    BY <1>3 DEF Inv, CadenceFollowsWatchers, Cadence
  <2> QED
    BY <2>1 DEF CadenceFollowsWatchers, Cadence, SomebodyPolls
<1>7. KeepsData
  BY <1>3, ResourceAssumption DEF KeepsData, StaysMounted
<1>8. NobodyAbandoned
  <2>1. \A j \in Keys : Waiting(res'[j]) /\ res'[j].attempt = 0
                        <=> res'[j].watchers # <<>> /\ Idle(res'[j])
    BY DEF Waiting, Idle
  <2>2. \A j \in Keys : Waiting(res[j]) /\ res[j].attempt = 0
                        <=> res[j].watchers # <<>> /\ Idle(res[j])
    BY DEF Waiting, Idle
  <2> QED
    BY <1>3, <2>1, <2>2 DEF NobodyAbandoned, StaysCared
<1> QED
  BY <1>4, <1>5, <1>6, <1>7, <1>8 DEF Inv, ResourceInv

(* A step that leaves the watchers of k and the page alone. *)
LEMMA QuietStep ==
    ASSUME Inv, NEW k \in Keys, NEW q, RInv(q, version), res' = [res EXCEPT ![k] = q],
           version' = version, hidden' = hidden, pageListener' = pageListener,
           evictions' \in [Keys -> Nat],
           q.watchers = res[k].watchers, q.pulse = res[k].pulse,
           res[k].snapshot.data # NoData => q.snapshot.data # NoData,
           Idle(q) => Idle(res[k])
    PROVE  Inv' /\ KeepsData /\ NobodyAbandoned
<1>1. /\ ResourceTypeOK /\ hidden \in BOOLEAN /\ pageListener' \in BOOLEAN
      /\ res[k].pulse = Cadence(res[k], hidden)
      /\ pageListener <=> \E j \in Keys : Polling(res[j]) # {}
  BY DEF Inv, ResourceInv, ResourceTypeOK, CadenceFollowsWatchers, Cadence
<1>2. /\ Watching(q) = Watching(res[k]) /\ Polling(q) = Polling(res[k])
      /\ q.pulse = Cadence(q, hidden)
  BY <1>1, SameWatchers
<1>3. \A j \in Keys : res'[j] = IF j = k THEN q ELSE res[j]
  BY <1>1 DEF ResourceTypeOK
<1>4. pageListener' <=> SomebodyPolls'
  <2>1. \A j \in Keys : Polling(res'[j]) = Polling(res[j])
    BY <1>2, <1>3
  <2> QED
    BY <1>1, <2>1 DEF SomebodyPolls
<1>5. StaysMounted(k, q)
  BY <1>2 DEF StaysMounted
<1>6. StaysCared(k, q)
  BY DEF StaysCared
<1> QED
  BY <1>1, <1>2, <1>4, <1>5, <1>6, KeyStep

(* A step that leaves all Resources alone. *)
LEMMA OtherStep ==
    ASSUME Inv, res' = res, version' \in 1 .. MaxVersion, version <= version',
           hidden' = hidden, pageListener' = pageListener, evictions' \in [Keys -> Nat]
    PROVE  Inv' /\ KeepsData /\ NobodyAbandoned
<1>1. ResourceTypeOK /\ \A j \in Keys : RInv(res[j], version)
  BY DEF Inv, ResourceInv
<1>2. ResourceTypeOK'
  BY <1>1 DEF ResourceTypeOK
<1>3. ASSUME NEW j \in Keys PROVE RInv(res[j], version')
  <2>1. /\ RInv(res[j], version) /\ res[j].snapshot.data \in Int /\ version \in Int /\ version' \in Int
        /\ \A h \in res[j].flights : h.read \in Int
    BY <1>1, ResourceAssumption
       DEF ResourceTypeOK, Resources, Snapshots, Handles, Values, NullData
  <2> QED
    BY <2>1 DEF RInv
<1>4. CadenceFollowsWatchers'
  BY DEF Inv, CadenceFollowsWatchers
<1>5. KeepsData /\ NobodyAbandoned
  BY DEF KeepsData, NobodyAbandoned
<1> QED
  BY <1>2, <1>3, <1>4, <1>5 DEF Inv, ResourceInv

(* What the invariant says of one key. *)
LEMMA KeyFacts ==
    ASSUME Inv, NEW k \in Keys
    PROVE  /\ ResourceTypeOK /\ RInv(res[k], version) /\ res[k] \in Resources
           /\ version \in 1 .. MaxVersion /\ hidden \in BOOLEAN /\ pageListener \in BOOLEAN
           /\ evictions \in [Keys -> Nat]
BY DEF Inv, ResourceInv, ResourceTypeOK, RInv

(* Publish and Seed show a value. *)
LEMMA PublishStep ==
    ASSUME Inv, NEW k \in Keys, NEW data,
           Publish(k, data) \/ \E fresh \in BOOLEAN : Seed(k, data, fresh)
    PROVE  Inv' /\ KeepsData /\ NobodyAbandoned
<1> DEFINE r == res[k]
           p == publish(r, data)
           q == [p EXCEPT !.seedDirty = FALSE]
<1>1. RInv(r, version) /\ version \in 1 .. MaxVersion /\ data \in 1 .. version
  BY KeyFacts DEF Publish, Seed
<1>2. /\ RInv(p, version) /\ p.watchers = r.watchers /\ p.pulse = r.pulse
      /\ p.snapshot.data = data
  BY <1>1, PublishOK
<1>3. p \in Resources
  BY <1>2 DEF RInv
<1> HIDE DEF p
<1>4. q \in Resources
  BY <1>3 DEF Resources
<1>5. /\ q.watchers = p.watchers /\ q.pulse = p.pulse /\ q.snapshot = p.snapshot
      /\ q.attempt = p.attempt /\ q.epoch = p.epoch /\ q.flights = p.flights
  BY <1>3 DEF Resources
<1> HIDE DEF q
<1>6. RInv(q, version)
  BY <1>2, <1>4, <1>5 DEF RInv, Live
<1>7. data # NoData
  BY <1>1 DEF NoData
<1>8. ~Idle(p) /\ ~Idle(q)
  BY <1>2, <1>5, <1>7 DEF Idle
<1>9. /\ version' = version /\ hidden' = hidden /\ pageListener' = pageListener
      /\ evictions' \in [Keys -> Nat]
  BY KeyFacts DEF Publish, Seed
<1>10. CASE res' = [res EXCEPT ![k] = p]
  BY <1>2, <1>7, <1>8, <1>9, <1>10, QuietStep
<1>11. CASE res' = [res EXCEPT ![k] = q]
  BY <1>2, <1>5, <1>6, <1>7, <1>8, <1>9, <1>11, QuietStep
<1> QED
  BY <1>10, <1>11 DEF Publish, Seed, Put, p, q

(* Refresh and the quiet tick ask. *)
LEMMA AskStep ==
    ASSUME Inv, \/ \E w \in Watchers, force \in BOOLEAN : Refresh(w, force)
                \/ \E k \in Keys : quietTick(k)
    PROVE  Inv' /\ KeepsData /\ NobodyAbandoned
<1>1. ASSUME NEW w \in Watchers, NEW force \in BOOLEAN, Refresh(w, force)
      PROVE  Inv' /\ KeepsData /\ NobodyAbandoned
  <2> DEFINE k == KeyOf[w]
             q == ask(res[k], TRUE, w, force)
  <2>1. k \in Keys
    BY ResourceAssumption
  <2>2. /\ RInv(res[k], version) /\ version \in 1 .. MaxVersion /\ version' = version
        /\ hidden' = hidden /\ pageListener' = pageListener /\ evictions' \in [Keys -> Nat]
    BY <1>1, <2>1, KeyFacts DEF Refresh
  <2>3. RInv(q, version) /\ SameScreen(q, res[k]) /\ q.attempt # 0
    BY <2>2, AskOK
  <2>4. res' = [res EXCEPT ![k] = q]
    BY <1>1 DEF Refresh, Put
  <2> HIDE DEF q
  <2> QED
    BY <2>1, <2>2, <2>3, <2>4, QuietStep DEF SameScreen, Idle
<1>2. ASSUME NEW k \in Keys, quietTick(k)
      PROVE  Inv' /\ KeepsData /\ NobodyAbandoned
  <2> DEFINE w == pickWatcher(res[k], hidden)
             q == askFor(res[k], FALSE, w)
  <2>2. /\ RInv(res[k], version) /\ version \in 1 .. MaxVersion /\ version' = version
        /\ hidden' = hidden /\ pageListener' = pageListener /\ evictions' \in [Keys -> Nat]
        /\ res[k] \in Resources /\ hidden \in BOOLEAN
    BY <1>2, KeyFacts DEF quietTick
  <2>3. w \in Watchers \cup {Nobody}
    BY <2>2, PickWatcher
  <2>4. res' = [res EXCEPT ![k] = q]
    BY <1>2 DEF quietTick, Put
  <2> HIDE DEF w
  <2>5. RInv(q, version) /\ SameScreen(q, res[k]) /\ (w # Nobody => q.attempt # 0)
    BY <2>2, <2>3, AskForOK
  <2>6. w = Nobody => q = res[k]
    BY DEF askFor
  <2> HIDE DEF q
  <2>7. Idle(q) => Idle(res[k])
    BY <2>5, <2>6 DEF Idle
  <2> QED
    BY <2>2, <2>4, <2>5, <2>7, QuietStep DEF SameScreen
<1> QED
  BY <1>1, <1>2

(* A request that is answered or times out is still the only one of its generation. *)
LEMMA FlightStep ==
    ASSUME Inv, NEW k \in Keys, NEW h \in Flying(k), Answer(k, h) \/ Deadline(k, h)
    PROVE  Inv' /\ KeepsData /\ NobodyAbandoned
<1> DEFINE r == res[k]
<1>1. PICK e : /\ e = [h EXCEPT !.read = version] \/ e = [h EXCEPT !.timedOut = TRUE, !.aborted = TRUE]
               /\ res' = [res EXCEPT ![k].flights = (@ \ {h}) \cup {e}]
  BY DEF Answer, Deadline
<1>2. /\ RInv(r, version) /\ version \in 1 .. MaxVersion /\ version' = version
      /\ hidden' = hidden /\ pageListener' = pageListener /\ evictions' \in [Keys -> Nat]
      /\ r \in Resources /\ h \in r.flights /\ h \in Handles /\ r.flights \subseteq Handles
  BY KeyFacts DEF Answer, Deadline, Flying, Resources
<1>3. version \in Values /\ version \in Int /\ r.snapshot.data \in Int
  BY <1>2, ResourceAssumption DEF Values, NullData, Resources, Snapshots
<1>4. e \in Handles /\ e.epoch = h.epoch
  BY <1>1, <1>2, <1>3 DEF Handles
<1>5. /\ h.aborted => e.aborted
      /\ e.aborted => e.timedOut \/ h.aborted
      /\ h.timedOut => e.timedOut
      /\ e.read = version \/ e.read = h.read
  BY <1>1, <1>2 DEF Handles
<1> DEFINE F == (r.flights \ {h}) \cup {e}
           q == [r EXCEPT !.flights = F]
<1>6. res' = [res EXCEPT ![k] = q]
  BY <1>1, <1>2
<1>7. F \in SUBSET Handles
  BY <1>2, <1>4
<1> HIDE DEF F
<1>8. /\ q \in Resources /\ q.watchers = r.watchers /\ q.pulse = r.pulse /\ q.snapshot = r.snapshot
      /\ q.attempt = r.attempt /\ q.epoch = r.epoch /\ q.flights = F
  <2>1. q \in Resources
    BY <1>2, <1>7 DEF Resources
  <2> QED
    BY <1>2, <2>1 DEF Resources
<1> HIDE DEF q
<1>9. \A f \in F : f = e \/ (f \in r.flights /\ f # h)
  BY DEF F
<1>10. RInv(q, version)
  <2>1. q.attempt # 0 => q.attempt = q.epoch /\ \E f \in q.flights : f.epoch = q.attempt
    BY <1>2, <1>4, <1>8 DEF RInv, F
  <2>2. \A f \in q.flights : f.epoch # 0 /\ f.epoch <= q.epoch /\ (f.epoch # q.attempt => f.aborted)
    BY <1>2, <1>4, <1>5, <1>8, <1>9 DEF RInv
  <2>3. \A f \in q.flights : \A d \in q.flights : f.epoch = d.epoch => f = d
    BY <1>2, <1>4, <1>8, <1>9 DEF RInv
  <2>4. \A f \in q.flights : Live(q, f) /\ f.aborted => f.timedOut
    BY <1>2, <1>4, <1>5, <1>8, <1>9 DEF RInv, Live
  <2>5. \A f \in q.flights : f.read <= version
                             /\ (Live(q, f) /\ f.read # NoData => f.read >= q.snapshot.data)
    BY <1>2, <1>3, <1>4, <1>5, <1>8, <1>9 DEF RInv, Live
  <2> QED
    BY <1>2, <1>8, <2>1, <2>2, <2>3, <2>4, <2>5 DEF RInv
<1> QED
  BY <1>2, <1>6, <1>8, <1>10, QuietStep DEF Idle

(* Settle applies one of the outcomes of the promise. *)
LEMMA SettleOutcome ==
    ASSUME Inv, NEW k \in Keys, NEW h \in Flying(k), Settle(k, h)
    PROVE  \E q : /\ res' = [res EXCEPT ![k] = q] /\ RInv(q, version)
                  /\ q.watchers = res[k].watchers /\ q.pulse = res[k].pulse
                  /\ q.snapshot.data >= res[k].snapshot.data
                  /\ res[k].snapshot.data # NoData => q.snapshot.data # NoData
                  /\ Idle(q) => Idle(res[k])
<1>1. PICK success, data :
         /\ success \in BOOLEAN /\ Outcome(h, success, data)
         /\ res' = [res EXCEPT ![k] = settle(res[k], h, success, data)]
  <2>1. CASE h.read # NoData /\ ~h.timedOut /\ res' = [res EXCEPT ![k] = settle(res[k], h, TRUE, h.read)]
    <3>1. Outcome(h, TRUE, h.read)
      BY <2>1 DEF Outcome
    <3> QED
      BY <2>1, <3>1
  <2>2. CASE h.aborted /\ ~h.timedOut /\ res' = [res EXCEPT ![k] = settle(res[k], h, TRUE, NullData)]
    <3>1. Outcome(h, TRUE, NullData)
      BY <2>2 DEF Outcome
    <3> QED
      BY <2>2, <3>1
  <2>3. CASE res' = [res EXCEPT ![k] = settle(res[k], h, FALSE, NoData)]
    <3>1. Outcome(h, FALSE, NoData)
      BY DEF Outcome
    <3> QED
      BY <2>3, <3>1
  <2> QED
    BY <2>1, <2>2, <2>3 DEF Settle
<1>2. RInv(res[k], version) /\ version \in 1 .. MaxVersion /\ h \in res[k].flights
  BY KeyFacts DEF Flying
<1> DEFINE q == settle(res[k], h, success, data)
<1>3. /\ RInv(q, version) /\ q.watchers = res[k].watchers /\ q.pulse = res[k].pulse
      /\ q.snapshot.data >= res[k].snapshot.data
      /\ res[k].snapshot.data # NoData => q.snapshot.data # NoData
      /\ Idle(q) => Idle(res[k])
  BY <1>1, <1>2, SettleOK
<1> HIDE DEF q
<1>4. res' = [res EXCEPT ![k] = q]
  BY <1>1 DEF q
<1> QED
  BY <1>3, <1>4

(* Settling keeps the invariant and what is on screen. *)
LEMMA SettleStep ==
    ASSUME Inv, NEW k \in Keys, NEW h \in Flying(k), Settle(k, h)
    PROVE  Inv' /\ KeepsData /\ NobodyAbandoned
<1>1. PICK q : /\ res' = [res EXCEPT ![k] = q] /\ RInv(q, version)
               /\ q.watchers = res[k].watchers /\ q.pulse = res[k].pulse
               /\ res[k].snapshot.data # NoData => q.snapshot.data # NoData
               /\ Idle(q) => Idle(res[k])
  BY SettleOutcome
<1>2. /\ version' = version /\ hidden' = hidden /\ pageListener' = pageListener
      /\ evictions' \in [Keys -> Nat]
  BY KeyFacts DEF Settle
<1> QED
  BY <1>1, <1>2, QuietStep

(* A value that gets old stays. *)
LEMMA AgeStep ==
    ASSUME Inv, NEW k \in Keys, Age(k)
    PROVE  Inv' /\ KeepsData /\ NobodyAbandoned
<1> DEFINE r == res[k]
           q == [r EXCEPT !.settledAt = "old"]
<1>1. /\ RInv(r, version) /\ r \in Resources /\ version' = version /\ hidden' = hidden
      /\ pageListener' = pageListener /\ evictions' \in [Keys -> Nat]
  BY KeyFacts DEF Age
<1>2. q \in Resources
  BY <1>1 DEF Resources
<1>3. /\ q.watchers = r.watchers /\ q.pulse = r.pulse /\ q.snapshot = r.snapshot
      /\ q.attempt = r.attempt /\ q.epoch = r.epoch /\ q.flights = r.flights
  BY <1>1 DEF Resources
<1>4. res' = [res EXCEPT ![k] = q]
  BY DEF Age
<1> HIDE DEF q
<1>5. RInv(q, version)
  BY <1>1, <1>2, <1>3 DEF RInv, Live
<1> QED
  BY <1>1, <1>3, <1>4, <1>5, QuietStep DEF Idle

(* An eviction forgets a Resource that nobody watches. *)
LEMMA EvictStep ==
    ASSUME Inv, NEW k \in Keys, evict(k)
    PROVE  Inv' /\ KeepsData /\ NobodyAbandoned
<1>1. /\ RInv(res[k], version) /\ version \in 1 .. MaxVersion /\ version' = version
      /\ hidden' = hidden /\ pageListener' = pageListener /\ hidden \in BOOLEAN
      /\ pageListener \in BOOLEAN /\ evictions \in [Keys -> Nat] /\ ResourceTypeOK
  BY KeyFacts DEF evict
<1>2. evictions' \in [Keys -> Nat]
  <2>1. evictions[k] \in Nat /\ evictions[k] - 1 \in Nat
    BY <1>1 DEF evict
  <2> QED
    BY <1>1, <2>1 DEF evict
<1>3. CASE res[k].watchers = <<>>
  <2>1. res' = [res EXCEPT ![k] = NewResource]
    BY <1>3 DEF evict
  <2>2. RInv(NewResource, version)
    BY <1>1, NewResourceOK
  <2>3. NewResource.watchers = res[k].watchers /\ NewResource.pulse = 0 /\ NewResource.watchers = <<>>
    BY <1>3 DEF NewResource
  <2>4. Watching(res[k]) = {} /\ Polling(res[k]) = {}
    BY <1>3 DEF Watching, Polling
  <2>5. Polling(NewResource) = {} /\ Cadence(NewResource, hidden) = 0
    BY <1>1, <2>3, <2>4, SameWatchers DEF Cadence
  <2>6. \A j \in Keys : Polling(res'[j]) = Polling(res[j])
    BY <1>1, <2>1, <2>4, <2>5 DEF ResourceTypeOK
  <2>7. pageListener' <=> SomebodyPolls'
    BY <1>1, <2>6 DEF Inv, CadenceFollowsWatchers, SomebodyPolls
  <2>8. StaysMounted(k, NewResource)
    BY <2>4 DEF StaysMounted
  <2>9. StaysCared(k, NewResource)
    BY <2>3 DEF StaysCared
  <2> HIDE DEF NewResource
  <2> QED
    BY <1>1, <1>2, <2>1, <2>2, <2>3, <2>5, <2>7, <2>8, <2>9, KeyStep
<1>4. CASE res[k].watchers # <<>>
  <2>1. res' = res /\ version \in Int
    BY <1>1, <1>4 DEF evict
  <2> QED
    BY <1>1, <1>2, <2>1, OtherStep
<1> QED
  BY <1>3, <1>4

(* The server's state moves on. *)
LEMMA ServerWriteStep ==
    ASSUME Inv, ServerWrite
    PROVE  Inv' /\ KeepsData /\ NobodyAbandoned
<1>1. version \in 1 .. MaxVersion /\ evictions \in [Keys -> Nat]
  BY DEF Inv, ResourceInv, ResourceTypeOK
<1>2. version' \in 1 .. MaxVersion /\ version <= version' /\ evictions' \in [Keys -> Nat]
  BY <1>1, ResourceAssumption DEF ServerWrite
<1> QED
  BY <1>2, OtherStep DEF ServerWrite

(* The listener after a key was retuned is what CadenceFollowsWatchers asks for. *)
LEMMA ListenerOK ==
    ASSUME Inv, NEW k \in Keys, NEW q, RInv(q, version), res' = [res EXCEPT ![k] = q],
           pageListener' = listenerAfter(k, q)
    PROVE  pageListener' \in BOOLEAN /\ (pageListener' <=> SomebodyPolls')
<1>1. q \in Resources /\ ResourceTypeOK
  BY DEF RInv, Inv, ResourceInv
<1>2. \A j \in Keys : res[j] \in Resources
  BY <1>1 DEF ResourceTypeOK
<1>3. fastestPoll(q) # 0 <=> Polling(q) # {}
  BY <1>1, FastestPoll
<1>4. \A j \in Keys : fastestPoll(res[j]) # 0 <=> Polling(res[j]) # {}
  BY <1>2, FastestPoll
<1>5. \A j \in Keys : res'[j] = IF j = k THEN q ELSE res[j]
  BY <1>1 DEF ResourceTypeOK
<1>6. pageListener <=> \E j \in Keys : Polling(res[j]) # {}
  BY DEF Inv, CadenceFollowsWatchers
<1>7. listenerAfter(k, q) \in BOOLEAN
  BY SMT DEF listenerAfter
<1>8. listenerAfter(k, q) <=> \E j \in Keys : Polling(res'[j]) # {}
  BY <1>3, <1>4, <1>5, <1>6 DEF listenerAfter
<1> QED
  BY <1>7, <1>8 DEF SomebodyPolls

(* A component joins: it disturbs nobody, and the first one loads what is not there. *)
LEMMA JoinStep ==
    ASSUME Inv, NEW w \in Watchers, Join(w)
    PROVE  Inv' /\ KeepsData /\ NobodyAbandoned
<1> DEFINE k == KeyOf[w]
           r == res[k]
           s == Append(r.watchers, w)
           joined == [r EXCEPT !.watchers = s]
           loads == Len(joined.watchers) = 1 /\ needsOpeningLoad(joined, w)
           asked == IF loads THEN ask(joined, TRUE, w, FALSE) ELSE joined
           q == retunePulse(asked, hidden)
<1>0. k \in Keys
  BY ResourceAssumption
<1>1. /\ RInv(r, version) /\ r \in Resources /\ version \in 1 .. MaxVersion /\ hidden \in BOOLEAN
      /\ version' = version /\ hidden' = hidden /\ evictions' \in [Keys -> Nat]
  BY <1>0, KeyFacts DEF Join
<1>2. r.watchers \in Seq(Watchers)
  BY <1>1 DEF Resources
<1>3. /\ s \in Seq(Watchers) /\ Len(s) = Len(r.watchers) + 1 /\ Len(r.watchers) \in Nat
      /\ \A i \in DOMAIN r.watchers : i \in DOMAIN s /\ s[i] = r.watchers[i]
  BY <1>2
<1>4. r.watchers = <<>> => Len(s) = 1
  BY <1>3
<1> HIDE DEF s
<1>5. /\ RInv(joined, version) /\ joined.watchers = s /\ joined.snapshot = r.snapshot
      /\ joined.attempt = r.attempt
  BY <1>1, <1>3, WatchersOK
<1> HIDE DEF joined
<1>6. /\ RInv(asked, version) /\ asked.watchers = s /\ asked.snapshot.data = r.snapshot.data
      /\ asked.snapshot.error = r.snapshot.error
      /\ loads => asked.attempt # 0
      /\ ~loads => asked.attempt = r.attempt
  <2>1. CASE loads
    <3>1. asked = ask(joined, TRUE, w, FALSE) /\ TRUE \in BOOLEAN /\ FALSE \in BOOLEAN
      BY <2>1
    <3>2. RInv(asked, version) /\ SameScreen(asked, joined) /\ asked.attempt # 0
      BY <1>1, <1>5, <3>1, AskOK
    <3> HIDE DEF asked
    <3> QED
      BY <1>5, <2>1, <3>2 DEF SameScreen
  <2>2. CASE ~loads
    BY <1>5, <2>2
  <2> QED
    BY <2>1, <2>2
<1> HIDE DEF asked
<1>7. /\ RInv(q, version) /\ q.watchers = asked.watchers /\ q.snapshot = asked.snapshot
      /\ q.attempt = asked.attempt /\ q.pulse = Cadence(q, hidden)
  BY <1>1, <1>6, RetuneOK, RetuneCadence
<1>8. res' = [res EXCEPT ![k] = q] /\ pageListener' = listenerAfter(k, q)
  BY DEF Join, Put, asked, joined, s
<1> HIDE DEF q
<1>9. pageListener' \in BOOLEAN /\ (pageListener' <=> SomebodyPolls')
  BY <1>0, <1>7, <1>8, ListenerOK
<1>10. StaysMounted(k, q)
  <2>1. Watching(r) \subseteq Watching(q)
    BY <1>3, <1>6, <1>7 DEF Watching
  <2> QED
    BY <1>6, <1>7, <2>1 DEF StaysMounted
<1>11. StaysCared(k, q)
  <2> SUFFICES ASSUME Idle(q) PROVE r.watchers # <<>> /\ Idle(r)
    BY DEF StaysCared
  <2>1. ~loads /\ r.attempt = 0
    BY <1>6, <1>7 DEF Idle
  <2>2. joined.snapshot.data = NoData /\ needsOpeningLoad(joined, w)
    BY <1>5, <1>6, <1>7 DEF Idle, needsOpeningLoad
  <2>3. r.watchers # <<>>
    BY <1>4, <1>5, <2>1, <2>2
  <2> QED
    BY <1>6, <1>7, <2>1, <2>3 DEF Idle
<1> HIDE DEF k
<1> QED
  BY <1>0, <1>1, <1>7, <1>8, <1>9, <1>10, <1>11, KeyStep

(* A component leaves: in a visible tab somebody else takes its load over. *)
LEMMA LeaveStep ==
    ASSUME Inv, NEW w \in Watchers, Leave(w)
    PROVE  Inv' /\ KeepsData /\ NobodyAbandoned
<1> DEFINE k == KeyOf[w]
           r == res[k]
           s == Without(r.watchers, w)
           left == [r EXCEPT !.watchers = s]
           killed == r.attempt # 0 /\ r.owner = w
           dropped == cancelOwnedBy(left, w)
           pick == pickWatcher(dropped, hidden)
           next == IF killed THEN askFor(dropped, TRUE, pick) ELSE dropped
           kept == IF left.watchers = <<>> THEN dropped ELSE next
           q == retunePulse(kept, hidden)
<1>0. k \in Keys
  BY ResourceAssumption
<1>1. /\ RInv(r, version) /\ r \in Resources /\ version \in 1 .. MaxVersion /\ hidden \in BOOLEAN
      /\ version' = version /\ hidden' = hidden /\ evictions \in [Keys -> Nat]
  BY <1>0, KeyFacts DEF Leave
<1>2. r.watchers \in Seq(Watchers)
  BY <1>1 DEF Resources
<1>3. PICK d \in DOMAIN r.watchers : r.watchers[d] = w
  BY DEF Leave, Watching
<1>4. /\ s \in Seq(Watchers)
      /\ \A i \in DOMAIN r.watchers : r.watchers[i] # w =>
            \E j \in DOMAIN s : s[j] = r.watchers[i]
  BY <1>2, <1>3, WithoutOK
<1>5. r.watchers # <<>>
  BY <1>3
<1> HIDE DEF s
<1>6. /\ RInv(left, version) /\ left.watchers = s /\ left.snapshot = r.snapshot
      /\ left.attempt = r.attempt /\ left.owner = r.owner
  BY <1>1, <1>4, WatchersOK
<1> HIDE DEF left
<1>7. /\ RInv(dropped, version) /\ SameScreen(dropped, left)
      /\ ~killed => dropped.attempt = r.attempt
  BY <1>1, <1>6, CancelOK
<1>8. dropped \in Resources
  BY <1>7 DEF RInv
<1> HIDE DEF dropped
<1>9. /\ pick \in Watchers \cup {Nobody}
      /\ ~hidden /\ dropped.watchers # <<>> => pick # Nobody
  BY <1>1, <1>8, PickWatcher
<1> HIDE DEF pick
<1>10. /\ RInv(next, version) /\ SameScreen(next, left)
       /\ killed /\ ~hidden /\ s # <<>> => next.attempt # 0
       /\ ~killed => next.attempt = r.attempt
  <2>1. CASE killed
    <3>1. /\ RInv(next, version) /\ SameScreen(next, dropped)
          /\ pick # Nobody => next.attempt # 0
      BY <1>1, <1>7, <1>9, <2>1, AskForOK
    <3> QED
      BY <1>6, <1>7, <1>9, <2>1, <3>1 DEF SameScreen
  <2>2. CASE ~killed
    BY <1>7, <2>2
  <2> QED
    BY <2>1, <2>2
<1> HIDE DEF next
<1>11. RInv(kept, version) /\ SameScreen(kept, left) /\ (s # <<>> => kept = next)
  BY <1>6, <1>7, <1>10
<1> HIDE DEF kept
<1>12. /\ RInv(q, version) /\ q.watchers = kept.watchers /\ q.snapshot = kept.snapshot
       /\ q.attempt = kept.attempt /\ q.pulse = Cadence(q, hidden)
  BY <1>1, <1>11, RetuneOK, RetuneCadence
<1>13. /\ res' = [res EXCEPT ![k] = q] /\ pageListener' = listenerAfter(k, q)
       /\ evictions' = [evictions EXCEPT ![k] = IF q.watchers = <<>> THEN @ + 1 ELSE @]
  BY DEF Leave, Put, kept, next, pick, dropped, left, s
<1> HIDE DEF q
<1>14. pageListener' \in BOOLEAN /\ (pageListener' <=> SomebodyPolls')
  BY <1>0, <1>12, <1>13, ListenerOK
<1>15. evictions' \in [Keys -> Nat]
  <2>1. evictions[k] \in Nat /\ evictions[k] + 1 \in Nat
    BY <1>0, <1>1
  <2> QED
    BY <1>1, <1>13, <2>1
<1>16. q.watchers = s /\ q.snapshot.data = r.snapshot.data /\ q.snapshot.error = r.snapshot.error
  BY <1>6, <1>11, <1>12 DEF SameScreen
<1>17. StaysMounted(k, q)
  <2> SUFFICES ASSUME NEW x \in Watchers, x \in Watching(r), x # w
               PROVE  x \in Watching(q)
    BY <1>16 DEF StaysMounted
  <2> QED
    BY <1>4, <1>16 DEF Watching
<1>18. StaysCared(k, q)
  <2> SUFFICES ASSUME q.watchers # <<>>, Idle(q), ~hidden PROVE Idle(r)
    BY <1>5 DEF StaysCared
  <2>1. kept = next /\ s # <<>>
    BY <1>11, <1>16
  <2>2. ~killed /\ r.attempt = 0
    BY <1>10, <1>12, <2>1 DEF Idle
  <2> QED
    BY <1>16, <2>2 DEF Idle
<1> HIDE DEF k
<1> QED
  BY <1>0, <1>1, <1>12, <1>13, <1>14, <1>15, <1>17, <1>18, KeyStep

(* What the visibility listener does to one Resource. *)
LEMMA ShownOK ==
    ASSUME NEW v \in 1 .. MaxVersion, NEW r, RInv(r, v), NEW hid \in BOOLEAN
    PROVE  LET q == shown(r, hid) IN
           /\ RInv(q, v) /\ q.watchers = r.watchers /\ q.snapshot.data = r.snapshot.data
           /\ q.pulse = Cadence(q, hid)
           /\ Idle(q) => Idle(r)
           /\ ~hid /\ Polling(r) # {} => q.attempt # 0
<1> DEFINE t == retunePulse(r, hid)
           pick == pickWatcher(t, FALSE)
           a == askFor(t, FALSE, pick)
           q == shown(r, hid)
<1>1. /\ RInv(t, v) /\ t.watchers = r.watchers /\ t.snapshot = r.snapshot /\ t.attempt = r.attempt
      /\ t.pulse = Cadence(t, hid)
  BY RetuneOK, RetuneCadence
<1>2. t \in Resources /\ r \in Resources
  BY <1>1 DEF RInv
<1>3. q = IF hid \/ fastestPoll(r) = 0 THEN t ELSE a
  BY DEF shown
<1>4. fastestPoll(r) = 0 <=> Polling(r) = {}
  BY <1>2, FastestPoll
<1> HIDE DEF t, q
<1>5. CASE hid \/ fastestPoll(r) = 0
  <2>1. Idle(t) => Idle(r)
    BY <1>1 DEF Idle
  <2> QED
    BY <1>1, <1>3, <1>4, <1>5, <2>1 DEF q
<1>6. CASE ~hid /\ fastestPoll(r) # 0
  <2>1. /\ pick \in Watchers \cup {Nobody}
        /\ t.watchers # <<>> => pick # Nobody
    BY <1>2, PickWatcher
  <2>2. t.watchers # <<>>
    BY <1>1, <1>4, <1>6 DEF Polling, Watching
  <2> HIDE DEF pick
  <2>3. RInv(a, v) /\ SameScreen(a, t) /\ a.attempt # 0
    BY <1>1, <2>1, <2>2, AskForOK
  <2> HIDE DEF a
  <2>4. a.pulse = Cadence(a, hid) /\ ~Idle(a)
    BY <1>1, <2>3, SameWatchers DEF SameScreen, Idle
  <2> QED
    BY <1>1, <1>3, <1>6, <2>3, <2>4 DEF SameScreen, q
<1> QED
  BY <1>5, <1>6

(* The change of visibility keeps the invariant, and coming back catches up. *)
LEMMA VisibilityStep ==
    ASSUME Inv, VisibilityChange
    PROVE  /\ Inv' /\ KeepsData /\ NobodyAbandoned
           /\ (hidden /\ ~hidden') => \A k \in Keys : Polling(res[k]) # {} => res'[k].attempt # 0
<1>1. /\ ResourceTypeOK /\ version' = version /\ evictions' = evictions /\ hidden \in BOOLEAN
      /\ hidden' = ~hidden /\ version \in 1 .. MaxVersion
      /\ pageListener <=> \E j \in Keys : Polling(res[j]) # {}
      /\ \A k \in Keys : RInv(res[k], version) /\ res[k] \in Resources
                         /\ res[k].pulse = Cadence(res[k], hidden)
  BY DEF Inv, ResourceInv, ResourceTypeOK, CadenceFollowsWatchers, VisibilityChange, RInv, Cadence
<1>2. hidden' \in BOOLEAN
  BY <1>1
(* What holds of the Resource of every key after the step. *)
<1>3. ASSUME NEW k \in Keys
      PROVE  /\ RInv(res'[k], version) /\ res'[k].watchers = res[k].watchers
             /\ res'[k].snapshot.data = res[k].snapshot.data
             /\ res'[k].pulse = Cadence(res'[k], hidden')
             /\ Idle(res'[k]) => Idle(res[k])
             /\ ~hidden' /\ Polling(res[k]) # {} => res'[k].attempt # 0
  <2>1. CASE pageListener
    <3> DEFINE hid == ~hidden
    <3>1. res'[k] = shown(res[k], hid)
      BY <2>1 DEF VisibilityChange
    <3>2. hid \in BOOLEAN
      BY SMT
    <3> HIDE DEF hid
    <3>3. /\ RInv(res'[k], version) /\ res'[k].watchers = res[k].watchers
          /\ res'[k].snapshot.data = res[k].snapshot.data
          /\ res'[k].pulse = Cadence(res'[k], hid)
          /\ Idle(res'[k]) => Idle(res[k])
          /\ ~hid /\ Polling(res[k]) # {} => res'[k].attempt # 0
      BY <1>1, <3>1, <3>2, ShownOK
    <3> QED
      BY <1>1, <3>3 DEF hid, Cadence
  <2>2. CASE ~pageListener
    <3>1. res'[k] = res[k] /\ Polling(res[k]) = {}
      BY <1>1, <2>2 DEF VisibilityChange
    <3>2. Cadence(res[k], hidden) = Cadence(res[k], hidden')
      BY <3>1 DEF Cadence
    <3> QED
      BY <1>1, <3>1, <3>2
  <2> QED
    BY <2>1, <2>2
<1>4. res' \in [Keys -> Resources]
  <2>1. DOMAIN res' = Keys /\ res' = [k \in Keys |-> res'[k]]
    BY <1>1 DEF VisibilityChange, ResourceTypeOK
  <2>2. \A k \in Keys : res'[k] \in Resources
    BY <1>3 DEF RInv
  <2> QED
    BY <2>1, <2>2
<1>5. \A k \in Keys : Watching(res'[k]) = Watching(res[k]) /\ Polling(res'[k]) = Polling(res[k])
  BY <1>3, SameWatchers
<1>6. pageListener' \in BOOLEAN /\ (pageListener' <=> \E k \in Keys : Polling(res'[k]) # {})
  <2>1. \A k \in Keys : fastestPoll(res[k]) # 0 <=> Polling(res[k]) # {}
    BY <1>1, FastestPoll
  <2>2. pageListener' = (pageListener /\ \E k \in Keys : fastestPoll(res[k]) # 0)
    BY DEF VisibilityChange
  <2>3. (pageListener /\ \E k \in Keys : fastestPoll(res[k]) # 0) \in BOOLEAN
    BY SMT
  <2> QED
    BY <1>1, <1>5, <2>1, <2>2, <2>3
<1>7. Inv'
  <2>1. ResourceTypeOK'
    BY <1>1, <1>2, <1>4, <1>6 DEF ResourceTypeOK
  <2>2. CadenceFollowsWatchers'
    BY <1>3, <1>6 DEF CadenceFollowsWatchers, Cadence
  <2> QED
    BY <1>1, <1>3, <2>1, <2>2 DEF Inv, ResourceInv
<1>8. KeepsData
  BY <1>3, <1>5, ResourceAssumption DEF KeepsData
<1>9. NobodyAbandoned
  <2>1. \A k \in Keys : Waiting(res'[k]) /\ res'[k].attempt = 0 => Waiting(res[k]) /\ res[k].attempt = 0
    BY <1>3 DEF Waiting, Idle
  <2> QED
    BY <2>1 DEF NobodyAbandoned
<1>10. (hidden /\ ~hidden') => \A k \in Keys : Polling(res[k]) # {} => res'[k].attempt # 0
  BY <1>3
<1> QED
  BY <1>7, <1>8, <1>9, <1>10

-----------------------------------------------------------------------------
(* The initial state satisfies the invariant. *)
LEMMA InitInv == ResourceInit => Inv
<1> SUFFICES ASSUME ResourceInit PROVE Inv
  OBVIOUS
<1>1. version \in 1 .. MaxVersion /\ \A k \in Keys : res[k] = NewResource
  BY ResourceAssumption DEF ResourceInit
<1>2. RInv(NewResource, version)
  BY <1>1, NewResourceOK
<1>3. NewResource \in Resources /\ NewResource.watchers = <<>> /\ NewResource.pulse = 0
  BY <1>2 DEF RInv, NewResource
<1> HIDE DEF NewResource
<1>4. Polling(NewResource) = {}
  BY <1>3 DEF Polling, Watching
<1>5. ResourceTypeOK
  BY <1>1, <1>3 DEF ResourceInit, ResourceTypeOK
<1>6. CadenceFollowsWatchers
  BY <1>1, <1>3, <1>4 DEF ResourceInit, CadenceFollowsWatchers
<1> QED
  BY <1>1, <1>2, <1>5, <1>6 DEF Inv, ResourceInv

(* Every callback keeps the invariant and disturbs nobody. *)
LEMMA NextInv ==
    ASSUME Inv, [ResourceNext]_resourceVars
    PROVE  Inv' /\ KeepsData /\ NobodyAbandoned
<1>1. ASSUME NEW w \in Watchers, Join(w) \/ Leave(w)
      PROVE  Inv' /\ KeepsData /\ NobodyAbandoned
  BY <1>1, JoinStep, LeaveStep
<1>2. CASE \/ \E w \in Watchers, force \in BOOLEAN : Refresh(w, force)
           \/ \E k \in Keys : quietTick(k)
  BY <1>2, AskStep
<1>3. ASSUME NEW k \in Keys, NEW data \in 1 .. MaxVersion,
             Publish(k, data) \/ \E fresh \in BOOLEAN : Seed(k, data, fresh)
      PROVE  Inv' /\ KeepsData /\ NobodyAbandoned
  BY <1>3, PublishStep
<1>4. ASSUME NEW k \in Keys, evict(k) \/ Age(k)
      PROVE  Inv' /\ KeepsData /\ NobodyAbandoned
  BY <1>4, EvictStep, AgeStep
<1>5. ASSUME NEW k \in Keys, NEW h \in Flying(k), Answer(k, h) \/ Deadline(k, h) \/ Settle(k, h)
      PROVE  Inv' /\ KeepsData /\ NobodyAbandoned
  BY <1>5, FlightStep, SettleStep
<1>6. CASE VisibilityChange
  BY <1>6, VisibilityStep
<1>7. CASE ServerWrite
  BY <1>7, ServerWriteStep
<1>8. CASE UNCHANGED resourceVars
  <2>1. version \in 1 .. MaxVersion /\ evictions \in [Keys -> Nat] /\ version \in Int
    BY DEF Inv, ResourceInv, ResourceTypeOK
  <2> QED
    BY <1>8, <2>1, OtherStep DEF resourceVars
<1> QED
  BY <1>1, <1>2, <1>3, <1>4, <1>5, <1>6, <1>7, <1>8 DEF ResourceNext

(* The inductive invariant, for any keys, components, intervals and versions. *)
THEOREM ResourceInvariant == ResourceSpec => []Inv
<1>1. Inv /\ [ResourceNext]_resourceVars => Inv'
  BY NextInv
<1> QED
  BY <1>1, InitInv, PTL DEF ResourceSpec

(* The state of the resource runtime keeps its shape. *)
THEOREM ResourceTypeCorrect == ResourceSpec => []ResourceTypeOK
<1>1. Inv => ResourceTypeOK
  BY DEF Inv, ResourceInv
<1> QED
  BY <1>1, ResourceInvariant, PTL

(***************************************************************************)
(* At most one request of a key is live, it has the newest generation, and *)
(* the snapshot says refreshing exactly while it is registered.            *)
(***************************************************************************)
THEOREM AtMostOneLive == ResourceSpec => []OneLiveAttempt
<1>1. Inv => OneLiveAttempt
  BY DEF Inv, ResourceInv, RInv, OneLiveAttempt
<1> QED
  BY <1>1, ResourceInvariant, PTL

(* Pulses and the page listener follow the watchers of all keys. *)
THEOREM CadenceIsRight == ResourceSpec => []CadenceFollowsWatchers
<1>1. Inv => CadenceFollowsWatchers
  BY DEF Inv
<1> QED
  BY <1>1, ResourceInvariant, PTL

(* A load that settles late never replaces what is on screen by something older. *)
THEOREM StaleNeverPaints == ResourceSpec => PaintsForward
<1>1. ASSUME Inv
      PROVE  \A k \in Keys : \A h \in Flying(k) :
                Settle(k, h) => res'[k].snapshot.data >= res[k].snapshot.data
  <2> SUFFICES ASSUME NEW k \in Keys, NEW h \in Flying(k), Settle(k, h)
               PROVE  res'[k].snapshot.data >= res[k].snapshot.data
    OBVIOUS
  <2>1. PICK q : res' = [res EXCEPT ![k] = q] /\ q.snapshot.data >= res[k].snapshot.data
    BY <1>1, SettleOutcome
  <2>2. DOMAIN res = Keys
    BY <1>1 DEF Inv, ResourceInv, ResourceTypeOK
  <2> QED
    BY <2>1, <2>2
<1> QED
  BY <1>1, ResourceInvariant, PTL DEF ResourceSpec, PaintsForward

(* A mounted component keeps its place and its value. *)
THEOREM MountedStays == ResourceSpec => MountedKeepsData
<1>1. Inv /\ [ResourceNext]_resourceVars => KeepsData
  BY NextInv
<1> QED
  BY <1>1, ResourceInvariant, PTL DEF ResourceSpec, MountedKeepsData, KeepsData

(* While the tab is visible, somebody takes over the load of a component that leaves. *)
THEOREM SomebodyTakesOver == ResourceSpec => AbandonedOnlyHidden
<1>1. Inv /\ [ResourceNext]_resourceVars => NobodyAbandoned
  BY NextInv
<1> QED
  BY <1>1, ResourceInvariant, PTL DEF ResourceSpec, AbandonedOnlyHidden, NobodyAbandoned

(* Coming back to the tab, every key that polls has a request in flight. *)
THEOREM BackCatchesUp == ResourceSpec => ShownCatchesUp
<1>1. ASSUME Inv, [ResourceNext]_resourceVars, hidden, ~hidden'
      PROVE  \A k \in Keys : Polling(res[k]) # {} => res'[k].attempt # 0
  <2>1. VisibilityChange
    <3>1. hidden' # hidden
      BY <1>1
    <3> QED
      BY <1>1, <3>1
         DEF ResourceNext, resourceVars, Join, Leave, Refresh, Publish, Seed, quietTick, evict, Age,
             Answer, Deadline, Settle, ServerWrite
  <2> QED
    BY <1>1, <2>1, VisibilityStep
<1> QED
  BY <1>1, ResourceInvariant, PTL DEF ResourceSpec, ShownCatchesUp
=============================================================================
