---------------------------- MODULE NetworkProofs ----------------------------
(***************************************************************************)
(* Proofs about authorities, relays and a client that follow the schedule  *)
(* on their own, for any schedule that satisfies the assumption of module  *)
(* Epoch, any number of relays, and any amount of trouble at any time.     *)
(***************************************************************************)
EXTENDS NetworkCalm, FiniteSetTheorems, TLAPS

-----------------------------------------------------------------------------
(* The schedule.                                                           *)

\* Numbers that are multiples of a duration plus less than it.
LEMMA Remainder ==
  ASSUME NEW d \in Nat \ {0}, NEW x \in Int
  PROVE  /\ x % d \in 0..d - 1
         /\ x = d * (x \div d) + (x % d)
         /\ x \div d \in Int
OBVIOUS

\* A number has one remainder only.
LEMMA RemainderIs ==
  ASSUME NEW d \in Nat \ {0}, NEW q \in Int, NEW s \in 0..d - 1
  PROVE  (d * q + s) % d = s
<1> DEFINE x == d * q + s
           p == x \div d
           t == x % d
<1>1. x \in Int /\ p \in Int /\ t \in 0..d - 1 /\ x = d * p + t
  BY Remainder
<1>2. d * p + t = d * q + s
  BY <1>1
<1> HIDE DEF x, p, t
<1>3. p = q
  <2>1. d * (p - q) = s - t
    BY <1>1, <1>2
  <2> DEFINE e == p - q
  <2>2. e \in Int /\ d * e = s - t /\ s - t < d /\ t - s < d
    BY <1>1, <2>1
  <2> HIDE DEF e
  <2>3. e < 1
    <3>1. e >= 1 => d * e >= d
      BY <2>2
    <3> QED BY <2>2, <3>1
  <2>4. e > -1
    <3>1. e <= -1 => d * e <= -d
      BY <2>2
    <3> QED BY <2>2, <3>1, <1>1
  <2>5. e = 0
    BY <2>2, <2>3, <2>4
  <2> QED BY <2>5, <1>1 DEF e
<1> QED BY <1>1, <1>2, <1>3 DEF t, x

\* Epoch::next() is the epoch of the first registration time in the future.
LEMMA NextIs ==
  ASSUME NEW t \in Int
  PROVE  /\ next(t) = from_registration(next(t).registration)
         /\ RegistrationTime(next(t).registration)
         /\ t < next(t).registration /\ next(t).registration <= t + EPOCH_DURATION
<1> DEFINE d == EPOCH_DURATION
           x == t - REGISTRATION
           n == t + d - (x % d)
<1>1. d \in Nat \ {0} /\ x \in Int /\ REGISTRATION \in Nat
  BY EpochAssumption
<1>2. next(t) = from_registration(n) /\ next(t).registration = n
  BY DEF next, from_registration
<1>3. x % d \in 0..d - 1 /\ x = d * (x \div d) + (x % d) /\ x \div d \in Int
  BY <1>1, Remainder
<1>4. n - REGISTRATION = d * (x \div d + 1) + 0
  BY <1>1, <1>3
<1>5. (d * (x \div d + 1) + 0) % d = 0
  <2>1. x \div d + 1 \in Int /\ 0 \in 0..d - 1
    BY <1>1, <1>3
  <2> QED BY <2>1, <1>1, RemainderIs
<1>6. n \in Int /\ t < n /\ n <= t + d
  BY <1>1, <1>3
<1> QED BY <1>2, <1>4, <1>5, <1>6 DEF RegistrationTime

\* Registration times are a duration apart.
LEMMA Spaced ==
  ASSUME NEW s, NEW t, RegistrationTime(s), RegistrationTime(t), s < t
  PROVE  s + EPOCH_DURATION <= t
<1> DEFINE d == EPOCH_DURATION
           p == (s - REGISTRATION) \div d
           q == (t - REGISTRATION) \div d
<1>1. d \in Nat \ {0} /\ REGISTRATION \in Nat /\ s \in Int /\ t \in Int
  BY EpochAssumption DEF RegistrationTime
<1>2. /\ s - REGISTRATION = d * p + 0 /\ p \in Int
      /\ t - REGISTRATION = d * q + 0 /\ q \in Int
  <2>1. s - REGISTRATION \in Int /\ t - REGISTRATION \in Int
    BY <1>1
  <2> QED BY <1>1, <2>1, Remainder DEF RegistrationTime
<1> HIDE DEF p, q
<1>3. d * p < d * q
  BY <1>1, <1>2
<1> DEFINE e == q - p
<1>4. e \in Int /\ d * e > 0 /\ t - s = d * e
  BY <1>1, <1>2, <1>3
<1> HIDE DEF e
<1>5. e >= 1
  <2>1. e <= 0 => d * e <= 0
    BY <1>1, <1>4
  <2> QED BY <1>1, <1>4, <2>1
<1>6. d * e >= d
  BY <1>1, <1>4, <1>5
<1> QED BY <1>1, <1>4, <1>6

\* The next registration time and the instants of an epoch.
LEMMA Instants ==
  ASSUME NEW t, RegistrationTime(t)
  PROVE  /\ RegistrationTime(t + EPOCH_DURATION) /\ RegistrationTime(t - EPOCH_DURATION)
         /\ Instant(t) /\ Instant(t + ALLOCATION_START)
         /\ Instant(t + ALLOCATION_FINISH) /\ Instant(t + SWITCHOVER)
<1> DEFINE d == EPOCH_DURATION
           x == t - REGISTRATION
           q == x \div d
<1>1. d \in Nat \ {0} /\ REGISTRATION \in Nat /\ t \in Int /\ x \in Int /\ x % d = 0
  BY EpochAssumption DEF RegistrationTime
<1>2. x = d * q + 0 /\ q \in Int
  BY <1>1, Remainder
<1>3. \A s \in 0..d - 1 : ((t + s) - REGISTRATION) % d = s
  <2> SUFFICES ASSUME NEW s \in 0..d - 1 PROVE ((t + s) - REGISTRATION) % d = s
    OBVIOUS
  <2>1. (t + s) - REGISTRATION = d * q + s
    BY <1>1, <1>2
  <2>2. (d * q + s) % d = s
    BY <1>1, <1>2, RemainderIs
  <2> QED BY <2>1, <2>2
<1>4. ((t + d) - REGISTRATION) % d = 0 /\ ((t - d) - REGISTRATION) % d = 0
  <2>1. (t + d) - REGISTRATION = d * (q + 1) + 0 /\ (t - d) - REGISTRATION = d * (q - 1) + 0
    BY <1>1, <1>2
  <2>2. q + 1 \in Int /\ q - 1 \in Int /\ 0 \in 0..d - 1
    BY <1>1, <1>2
  <2>3. (d * (q + 1) + 0) % d = 0 /\ (d * (q - 1) + 0) % d = 0
    BY <1>1, <2>2, RemainderIs
  <2> QED BY <2>1, <2>3
<1>5. /\ ALLOCATION_START \in 0..d - 1 /\ ALLOCATION_FINISH \in 0..d - 1
      /\ SWITCHOVER \in 0..d - 1
  BY EpochAssumption
<1>6. /\ ((t + ALLOCATION_START) - REGISTRATION) % d = ALLOCATION_START
      /\ ((t + ALLOCATION_FINISH) - REGISTRATION) % d = ALLOCATION_FINISH
      /\ ((t + SWITCHOVER) - REGISTRATION) % d = SWITCHOVER
  <2> HIDE DEF d
  <2> QED BY <1>3, <1>5
<1>7. t + d \in Int /\ t - d \in Int
  BY <1>1
<1>8. Instant(t) /\ Instant(t + ALLOCATION_START)
  BY <1>1, <1>6, Zenon DEF Instant
<1>9. Instant(t + ALLOCATION_FINISH) /\ Instant(t + SWITCHOVER)
  BY <1>6, Zenon DEF Instant
<1> QED BY <1>4, <1>7, <1>8, <1>9, Zenon DEF RegistrationTime

\* The last registration time is one duration before the one that next() gives.
LEMMA RemainderBefore ==
  ASSUME NEW t \in Int
  PROVE  t - ((t - REGISTRATION) % EPOCH_DURATION) = next(t).registration - EPOCH_DURATION
<1> DEFINE x == (t - REGISTRATION) % EPOCH_DURATION
<1>1. x \in Int /\ EPOCH_DURATION \in Int
  BY EpochAssumption, Remainder
<1>2. next(t).registration = t + EPOCH_DURATION - x
  BY DEF next, from_registration
<1> HIDE DEF x
<1>3. t - x = next(t).registration - EPOCH_DURATION
  BY <1>1, <1>2
<1> QED BY <1>3 DEF x

\* The present epoch is the one before the epoch that next() gives.
LEMMA LastIs ==
  ASSUME now \in Int
  PROVE  Last = next(now).registration - EPOCH_DURATION
BY RemainderBefore DEF Last

\* The present epoch is the one whose registration time was last.
LEMMA Schedule ==
  ASSUME now \in Int
  PROVE  RegistrationTime(Last) /\ Last \in Int /\ Last <= now /\ now < Last + EPOCH_DURATION
<1>1. /\ RegistrationTime(next(now).registration) /\ EPOCH_DURATION \in Nat
      /\ now < next(now).registration /\ next(now).registration <= now + EPOCH_DURATION
  BY NextIs, EpochAssumption
<1>2. RegistrationTime(Last)
  BY <1>1, LastIs, Instants
<1>3. next(now).registration \in Int
  BY <1>1 DEF RegistrationTime
<1> QED BY <1>1, <1>2, <1>3, LastIs

\* Where a registration time is that is at most the next one.
LEMMA EpochsAre ==
  ASSUME now \in Int, NEW t, RegistrationTime(t)
  PROVE  /\ t \in Int
         /\ t > Last /\ t <= Last + EPOCH_DURATION => t = Last + EPOCH_DURATION
         /\ t <= now => t <= Last
         /\ t > Last - EPOCH_DURATION /\ t <= Last => t = Last
<1>1. /\ RegistrationTime(Last) /\ Last \in Int /\ Last <= now
      /\ now < Last + EPOCH_DURATION
  BY Schedule
<1>2. t \in Int /\ EPOCH_DURATION \in Nat
  BY EpochAssumption DEF RegistrationTime
<1>3. t > Last => t >= Last + EPOCH_DURATION
  BY <1>1, <1>2, Spaced
<1>4. t < Last => t + EPOCH_DURATION <= Last
  BY <1>1, <1>2, Spaced
<1> QED BY <1>1, <1>2, <1>3, <1>4

\* The epoch that next() gives begins one duration after the present one.
LEMMA Upcoming ==
  ASSUME now \in Int
  PROVE  IsEpoch(next(now)) /\ next(now).registration = Last + EPOCH_DURATION
<1>1. next(now).registration \in Int /\ EPOCH_DURATION \in Nat
  BY NextIs, EpochAssumption DEF RegistrationTime
<1>2. IsEpoch(next(now))
  BY NextIs DEF IsEpoch
<1> QED BY <1>1, <1>2, LastIs

\* The instants of an epoch follow its registration time.
LEMMA InstantsAre ==
  ASSUME NEW epoch, IsEpoch(epoch)
  PROVE  /\ RegistrationTime(epoch.registration) /\ epoch.registration \in Int
         /\ epoch.allocation_start = epoch.registration + ALLOCATION_START
         /\ epoch.allocation_finish = epoch.registration + ALLOCATION_FINISH
         /\ epoch.switchover = epoch.registration + SWITCHOVER
<1>1. epoch = from_registration(epoch.registration) /\ RegistrationTime(epoch.registration)
  BY DEF IsEpoch
<1>2. /\ epoch.allocation_start = epoch.registration + ALLOCATION_START
      /\ epoch.allocation_finish = epoch.registration + ALLOCATION_FINISH
      /\ epoch.switchover = epoch.registration + SWITCHOVER
  <2> DEFINE t == epoch.registration
  <2>1. epoch = from_registration(t)
    BY <1>1
  <2> HIDE DEF t
  <2>2. /\ epoch.allocation_start = t + ALLOCATION_START
        /\ epoch.allocation_finish = t + ALLOCATION_FINISH
        /\ epoch.switchover = t + SWITCHOVER
    BY <2>1 DEF from_registration
  <2> QED BY <2>2 DEF t
<1> QED BY <1>1, <1>2 DEF RegistrationTime

-----------------------------------------------------------------------------
(* What a step leaves alone.                                               *)

TimeKept == now' = now /\ trouble' = trouble

AuthorityKept(a) ==
  /\ Requests(a)' = Requests(a) /\ Current(a)' = Current(a) /\ Coming(a)' = Coming(a)
  /\ EpochOf(a)' = EpochOf(a) /\ Pc(a)' = Pc(a) /\ served'[a] = served[a]

RelayKept(r) ==
  /\ relay_pc'[r] = relay_pc[r] /\ relay_epoch'[r] = relay_epoch[r]
  /\ drawn'[r] = drawn[r] /\ contacted'[r] = contacted[r]
  /\ public_key'[r] = public_key[r] /\ next_authorities'[r] = next_authorities[r]
  /\ live_authorities'[r] = live_authorities[r]

ClientKept ==
  /\ client_pc' = client_pc /\ client_epoch' = client_epoch /\ client_since' = client_since
  /\ next_public_keys' = next_public_keys /\ public_keys' = public_keys

\* Calm lasts as long as nothing happens to it.
LEMMA CalmKept ==
  ASSUME TimeKept
  PROVE  /\ Last' = Last /\ Calm' = Calm /\ CalmForTwo' = CalmForTwo
         /\ CalmForThree' = CalmForThree /\ Beginning' = Beginning
         /\ \A s, t : Within(s, t)' = Within(s, t)
BY DEF TimeKept, Last, Calm, CalmForTwo, CalmForThree, Beginning, Within

\* What is said of an authority alone remains true while it does nothing.
LEMMA AuthorityStays ==
  ASSUME TimeKept, NEW a \in Authorities, AuthorityKept(a)
  PROVE  /\ HasAllocated(a)' = HasAllocated(a) /\ HasAdvanced(a)' = HasAdvanced(a)
         /\ Fresh(a)' = Fresh(a) /\ New(a)' = New(a)
         /\ AuthorityAnyTime(a) => AuthorityAnyTime(a)'
         /\ ServedOnTime(a) => ServedOnTime(a)'
         /\ AuthorityOnTime(a) => AuthorityOnTime(a)'
         /\ RequestsTaken(a) => RequestsTaken(a)'
<1>1. /\ Last' = Last /\ now' = now /\ Calm' = Calm /\ CalmForTwo' = CalmForTwo
      /\ Beginning' = Beginning /\ \A s, t : Within(s, t)' = Within(s, t)
  BY CalmKept DEF TimeKept
<1>2. /\ HasAllocated(a)' = HasAllocated(a) /\ HasAdvanced(a)' = HasAdvanced(a)
      /\ New(a)' = New(a)
  BY <1>1 DEF AuthorityKept, HasAllocated, HasAdvanced, New
<1>3. Fresh(a)' = Fresh(a)
  BY <1>2 DEF AuthorityKept, Fresh
<1>4. AuthorityAnyTime(a) => AuthorityAnyTime(a)'
  BY <1>1, <1>2 DEF AuthorityKept, AuthorityAnyTime
<1>5. ServedOnTime(a) => ServedOnTime(a)'
  BY <1>1, <1>2 DEF AuthorityKept, ServedOnTime
<1>6. AuthorityOnTime(a) => AuthorityOnTime(a)'
  BY <1>1 DEF AuthorityKept, AuthorityOnTime
<1>7. RequestsTaken(a) => RequestsTaken(a)'
  BY <1>2 DEF RequestsTaken
<1> QED BY <1>2, <1>3, <1>4, <1>5, <1>6, <1>7

\* The same of a relay.
LEMMA RelayStays ==
  ASSUME TimeKept, NEW r \in Relay, RelayKept(r)
  PROVE  /\ Participates(r)' = Participates(r) /\ HasSwapped(r)' = HasSwapped(r)
         /\ used_key(r)' = used_key(r) /\ Fetching(r)' = Fetching(r)
         /\ RelayAnyTime(r) => RelayAnyTime(r)'
         /\ RelayOnTime(r) => RelayOnTime(r)'
<1>1. /\ Last' = Last /\ now' = now /\ Beginning' = Beginning
      /\ \A s, t : Within(s, t)' = Within(s, t)
  BY CalmKept DEF TimeKept
<1>2. HasSwapped(r)' = HasSwapped(r)
  BY <1>1 DEF RelayKept, HasSwapped
<1>3. Participates(r)' = Participates(r)
  BY <1>1, <1>2 DEF RelayKept, Participates
<1>4. used_key(r)' = used_key(r) /\ Fetching(r)' = Fetching(r)
  BY DEF RelayKept, used_key, Fetching
<1>5. RelayAnyTime(r) => RelayAnyTime(r)'
  BY <1>1 DEF RelayKept, RelayAnyTime
<1>6. RelayOnTime(r) => RelayOnTime(r)'
  BY <1>1, <1>2 DEF RelayKept, RelayOnTime
<1> QED BY <1>2, <1>3, <1>4, <1>5, <1>6

\* And of the client.
LEMMA ClientStays ==
  ASSUME TimeKept, ClientKept
  PROVE  /\ ClientAnyTime => ClientAnyTime'
         /\ ClientOnTime => ClientOnTime'
<1>1. /\ Last' = Last /\ now' = now /\ Beginning' = Beginning
      /\ \A s, t : Within(s, t)' = Within(s, t)
  BY CalmKept DEF TimeKept
<1> QED BY <1>1 DEF ClientKept, ClientAnyTime, ClientOnTime

-----------------------------------------------------------------------------
(* What a step has to show.                                                *)

\* Calm for long is calm.
LEMMA CalmIsLess ==
  ASSUME AnyTime
  PROVE  (CalmForThree => CalmForTwo) /\ (CalmForTwo => Calm)
<1>1. Last \in Int /\ trouble \in Int /\ EPOCH_DURATION \in Nat
  BY Schedule, EpochAssumption DEF AnyTime
<1> QED BY <1>1 DEF Calm, CalmForTwo, CalmForThree

AllRelaysKept == \A r \in Relay : RelayKept(r)

\* As long as no relay moves, the same ones take part, under the same keys.
LEMMA RelaysStay ==
  ASSUME TimeKept, AllRelaysKept
  PROVE  /\ Present' = Present /\ KeyOf' = KeyOf
         /\ \A a \in Authorities : Registered(a)' = Registered(a)
<1>1. \A r \in Relay : /\ Participates(r)' = Participates(r)
                        /\ used_key(r)' = used_key(r)
  BY RelayStays DEF AllRelaysKept
<1>2. Present' = Present
  BY <1>1 DEF Present
<1>3. KeyOf' = KeyOf
  <2>1. \A r \in Present : r \in Relay
    BY DEF Present
  <2> QED BY <1>1, <1>2, <2>1 DEF KeyOf
<1>4. ASSUME NEW a \in Authorities PROVE Registered(a)' = Registered(a)
  <2>1. \A r \in Present : relay_pc'[r] = relay_pc[r] /\ contacted'[r] = contacted[r]
    BY DEF Present, AllRelaysKept, RelayKept
  <2> QED BY <1>2, <2>1 DEF Registered
<1> QED BY <1>2, <1>3, <1>4

OnlyAuthority(a) ==
  /\ TimeKept /\ ClientKept /\ AllRelaysKept /\ Maps'
  /\ \A b \in Authorities \ {a} : AuthorityKept(b)

\* Relays that have fetched keys have done so when the allocations were made.
LEMMA FetchedAfter ==
  ASSUME NEW r \in Relay, AnyTime, RelayOnTime(r), Participates(r),
         relay_pc[r] \in Fetched \cup {"swap"} \/ HasSwapped(r)
  PROVE  Within(ALLOCATION_FINISH, EPOCH_DURATION) /\ ~Beginning
<1>1. /\ Last \in Int /\ now \in Int /\ Last <= now /\ now < Last + EPOCH_DURATION
      /\ EPOCH_DURATION > 0
  BY Schedule, EpochAssumption DEF AnyTime
<1>2. relay_pc[r] \notin {"off", "dead"} /\ (relay_pc[r] = "wait_registration" => HasSwapped(r))
  BY DEF Fetched, HasSwapped
<1>3. Within(SWITCHOVER, EPOCH_DURATION) => Within(ALLOCATION_FINISH, EPOCH_DURATION)
  BY <1>1, EpochAssumption DEF Within
<1>4. CASE HasSwapped(r) \/ relay_pc[r] = "swap"
  <2>1. relay_epoch[r].registration = Last => ~HasSwapped(r)
    BY <1>1 DEF HasSwapped
  <2> QED BY <1>1, <1>2, <1>3, <1>4, <2>1, EpochAssumption DEF RelayOnTime, HasSwapped, Within
<1>5. CASE ~HasSwapped(r) /\ relay_pc[r] # "swap"
  <2>1. relay_pc[r] \in Fetched
    BY <1>5
  <2>2. /\ ~Beginning
        /\ Within(0, ALLOCATION_START) =>
             relay_pc[r] \in {"wait_registration", "register", "wait_finish"}
        /\ Within(ALLOCATION_START, ALLOCATION_FINISH) => relay_pc[r] = "wait_finish"
    BY <1>2, <1>5, <2>1 DEF RelayOnTime
  <2>3. ~Within(0, ALLOCATION_START) /\ ~Within(ALLOCATION_START, ALLOCATION_FINISH)
    BY <2>1, <2>2 DEF Fetched
  <2> QED BY <1>1, <2>2, <2>3, EpochAssumption DEF Within
<1> QED BY <1>4, <1>5

\* The same of the client.
LEMMA ClientFetchedAfter ==
  ASSUME AnyTime, ClientOnTime,
         \/ client_pc \in {"fetch_next", "wait_switchover"}
         \/ client_pc = "wait_finish" /\ client_epoch.registration = Last + EPOCH_DURATION
              /\ client_since < Last
  PROVE  Within(ALLOCATION_FINISH, EPOCH_DURATION) /\ ~Beginning
<1>1. /\ Last \in Int /\ now \in Int /\ Last <= now /\ now < Last + EPOCH_DURATION
      /\ EPOCH_DURATION > 0
  BY Schedule, EpochAssumption DEF AnyTime
<1> QED BY <1>1, EpochAssumption DEF ClientOnTime, Within

\* Every step keeps the invariants.
Keeps == CalmInvariant' /\ (NetworkInvariant /\ AllocatesDisjointly => NetworkInvariant')

\* The old keys remain in use as long as nobody gives them up for anything but
\* the new ones.
OldKeysKept ==
  /\ \A a \in Authorities : ~HasAdvanced(a)' => ~HasAdvanced(a) /\ Current(a)' = Current(a)
  /\ \A r \in Relay :
       /\ live_authorities'[r] = live_authorities[r] \/ HasSwapped(r)'
       /\ HasSwapped(r) => HasSwapped(r)'
       /\ relay_pc[r] = "dead" => relay_pc'[r] = "dead"
       /\ Participates(r) => Participates(r)'

LEMMA OldKeysStay ==
  ASSUME CalmForThree' => CalmForThree, CalmInvariant', CalmForThree => OldKeysKept
  PROVE  Keeps
<1> SUFFICES ASSUME CalmForThree, NEW a \in Authorities, OldKeys(a), OldKeysKept
             PROVE  OldKeys(a)'
  BY DEF Keeps, NetworkInvariant
<1>1. ~HasAdvanced(a)' => ~HasAdvanced(a) /\ Current(a)' = Current(a)
  BY DEF OldKeysKept
<1>2. \A r \in Relay : live_authorities'[r] = <<>> => live_authorities[r] = <<>>
  BY DEF OldKeysKept, HasSwapped
<1>3. \A x \in Identity :
        ~HasAdvanced(a)' => get_relay_address(a, x)' = get_relay_address(a, x)
  BY <1>1 DEF get_relay_address
<1>4. ASSUME ~HasAdvanced(a)', NEW x \in Identity, NEW r \in get_relay_address(a, x)'
      PROVE  /\ get_relay_address(a, x)' = {r}
             /\ r \in Present' /\ live_authorities'[r] # <<>>
  <2>1. /\ get_relay_address(a, x) = {r} /\ get_relay_address(a, x)' = {r}
        /\ r \in Present /\ live_authorities[r] # <<>>
    BY <1>1, <1>3, <1>4 DEF OldKeys
  <2>2. r \in Relay /\ Participates(r)
    BY <2>1 DEF Present
  <2> QED BY <1>2, <2>1, <2>2 DEF OldKeysKept, Present
<1>5. ASSUME ~HasAdvanced(a)', NEW r \in Relay, live_authorities'[r] # <<>>,
             relay_pc'[r] # "dead", ~HasSwapped(r)'
      PROVE  InSync(live_authorities'[r][a], Current(a)', r)
  <2>1. /\ live_authorities'[r] = live_authorities[r] /\ live_authorities[r] # <<>>
        /\ relay_pc[r] # "dead" /\ ~HasSwapped(r)
    BY <1>5 DEF OldKeysKept
  <2> QED BY <1>1, <1>5, <2>1 DEF OldKeys
<1>6. \A kept, allocs, r : InSync(kept, allocs, r)' = InSync(kept', allocs', r)
  BY DEF InSync
<1> QED BY <1>4, <1>5, <1>6 DEF OldKeys

\* A relay on its way to the keys of this epoch asks one authority after another.
LEMMA AnswersAre ==
  ASSUME NEW r \in Relay, RelayAnyTime(r), KeysFetched(r), Participates(r),
         relay_pc[r] \in Fetched \cup {"swap"}
  PROVE  /\ DOMAIN next_authorities[r] = 1..Len(next_authorities[r])
         /\ next_authorities[r] \in Seq({next_authorities[r][i] : i \in DOMAIN next_authorities[r]})
         /\ DOMAIN next_authorities[r] \subseteq Authorities
         /\ relay_pc[r] \in {"wait_switchover", "swap"} => Len(next_authorities[r]) = 2
         /\ relay_pc[r] \notin {"wait_switchover", "swap"} =>
              Len(next_authorities[r]) \in {0, 1} /\ Fetching(r) \in Authorities
<1> DEFINE n == next_authorities[r]
<1>1. n \in Seq({n[i] : i \in DOMAIN n})
  BY DEF RelayAnyTime, IsSequence
<1>2. /\ relay_pc[r] \in {"wait_switchover", "swap"} => Len(n) = 2
      /\ relay_pc[r] \notin {"wait_switchover", "swap"} => Len(n) \in {0, 1}
  BY DEF KeysFetched
<1> HIDE DEF n
<1>3. DOMAIN n = 1..Len(n)
  BY <1>1
<1>4. DOMAIN n \subseteq Authorities
  <2>1. Len(n) \in {0, 1, 2}
    BY <1>2
  <2> QED BY <1>3, <2>1 DEF Authorities
<1>5. Len(n) \in {0, 1} => Len(n) + 1 \in Authorities
  <2>1. \A m \in {0, 1} : m + 1 \in 1..2
    OBVIOUS
  <2> QED BY <2>1 DEF Authorities
<1>6. Fetching(r) = Len(n) + 1
  BY DEF Fetching, n
<1> QED BY <1>1, <1>2, <1>3, <1>4, <1>5, <1>6 DEF n

\* A step of one authority keeps the invariant if it does so for this authority
\* and changes neither the allocation for the epoch once relays may fetch from
\* it nor, before the switchover, the current one.
AuthorityKeepsOn(a) ==
  /\ Calm =>
       /\ AuthorityOnTime(a)' /\ RequestsTaken(a)'
       /\ Within(ALLOCATION_FINISH, EPOCH_DURATION) /\ ~Beginning => Fresh(a)' = Fresh(a)
       /\ HasAdvanced(a) => HasAdvanced(a)'
       /\ ~HasAdvanced(a)' => Current(a)' = Current(a)
  /\ CalmForTwo => RequestsCollected(a)' /\ AllocationMade(a)'

LEMMA AuthorityFrame ==
  ASSUME CalmInvariant, NEW a \in Authorities, OnlyAuthority(a),
         AuthorityAnyTime(a)', ServedOnTime(a)', AuthorityKeepsOn(a)
  PROVE  Keeps
<1>1. /\ AnyTime /\ TimeKept /\ ClientKept /\ AllRelaysKept /\ Maps'
      /\ \A b \in Authorities \ {a} : AuthorityKept(b)
      /\ (Calm => OnTime) /\ (CalmForTwo => FreshKeysAgree)
      /\ (CalmForThree => OldAddressesAgree)
      /\ (CalmForThree => CalmForTwo) /\ (CalmForTwo => Calm)
  BY CalmIsLess DEF CalmInvariant, OnlyAuthority
<1>2. /\ Last' = Last /\ now' = now /\ trouble' = trouble
      /\ Calm' = Calm /\ CalmForTwo' = CalmForTwo /\ CalmForThree' = CalmForThree
      /\ Beginning' = Beginning /\ \A s, t : Within(s, t)' = Within(s, t)
  BY <1>1, CalmKept DEF TimeKept
<1>3. /\ Present' = Present /\ KeyOf' = KeyOf
      /\ \A b \in Authorities : Registered(b)' = Registered(b)
  BY <1>1, RelaysStay
<1>4. \A r \in Relay : /\ RelayKept(r) /\ Participates(r)' = Participates(r)
                       /\ HasSwapped(r)' = HasSwapped(r) /\ used_key(r)' = used_key(r)
                       /\ Fetching(r)' = Fetching(r)
                       /\ RelayAnyTime(r) => RelayAnyTime(r)'
                       /\ RelayOnTime(r) => RelayOnTime(r)'
  BY <1>1, RelayStays DEF AllRelaysKept
<1>5. \A b \in Authorities \ {a} :
        /\ AuthorityKept(b) /\ HasAllocated(b)' = HasAllocated(b)
        /\ HasAdvanced(b)' = HasAdvanced(b)
        /\ Fresh(b)' = Fresh(b) /\ New(b)' = New(b)
        /\ AuthorityAnyTime(b) => AuthorityAnyTime(b)'
        /\ ServedOnTime(b) => ServedOnTime(b)'
        /\ AuthorityOnTime(b) => AuthorityOnTime(b)'
        /\ RequestsTaken(b) => RequestsTaken(b)'
  BY <1>1, AuthorityStays
<1>6. AnyTime'
  BY <1>1, <1>2, <1>4, <1>5, ClientStays DEF AnyTime
<1>7. ASSUME Calm PROVE OnTime'
  <2>1. OnTime /\ AuthorityOnTime(a)' /\ RequestsTaken(a)'
        /\ (Within(ALLOCATION_FINISH, EPOCH_DURATION) /\ ~Beginning => Fresh(a)' = Fresh(a))
    BY <1>1, <1>7 DEF AuthorityKeepsOn
  <2>2. ClientOnTime'
    BY <1>1, <2>1, ClientStays DEF OnTime
  <2>3. PublicKeysFetched'
    <3>1. PublicKeysFetched /\ ClientOnTime
      BY <2>1 DEF OnTime
    <3>2. CASE Within(ALLOCATION_FINISH, EPOCH_DURATION) /\ ~Beginning
      <4>1. \A b \in Authorities : Fresh(b)' = Fresh(b)
        BY <1>5, <2>1, <3>2
      <4>2. client_pc \in {"fetch_next", "wait_switchover"} /\ client_epoch.registration = Last =>
              DOMAIN next_public_keys \subseteq Authorities
        <5>1. next_public_keys \in Seq({next_public_keys[i] : i \in DOMAIN next_public_keys})
          BY <1>1 DEF AnyTime, ClientAnyTime, IsSequence
        <5> QED BY <3>1, <5>1 DEF PublicKeysFetched, Authorities
      <4> QED BY <1>1, <1>2, <3>1, <4>1, <4>2 DEF PublicKeysFetched, ClientKept
    <3>3. CASE ~(Within(ALLOCATION_FINISH, EPOCH_DURATION) /\ ~Beginning)
      <4>1. ~(client_pc \in {"fetch_next", "wait_switchover"})
        BY <1>1, <3>1, <3>3, ClientFetchedAfter
      <4>2. ~(client_pc = "wait_finish" /\ client_epoch.registration = Last + EPOCH_DURATION
              /\ client_since < Last)
        BY <1>1, <3>1, <3>3, ClientFetchedAfter
      <4> QED BY <1>1, <1>2, <4>1, <4>2 DEF PublicKeysFetched, ClientKept
    <3> QED BY <3>2, <3>3
  <2> QED BY <1>4, <1>5, <2>1, <2>2, <2>3 DEF OnTime
<1>8. ASSUME CalmForTwo PROVE FreshKeysAgree'
  <2>1. /\ OnTime /\ FreshKeysAgree /\ RequestsCollected(a)' /\ AllocationMade(a)'
        /\ (Within(ALLOCATION_FINISH, EPOCH_DURATION) /\ ~Beginning => Fresh(a)' = Fresh(a))
        /\ (HasAdvanced(a) => HasAdvanced(a)')
        /\ (~HasAdvanced(a)' => Current(a)' = Current(a))
    BY <1>1, <1>8 DEF AuthorityKeepsOn
  <2>2. ASSUME NEW b \in Authorities \ {a}
        PROVE  RequestsCollected(b)' /\ AllocationMade(b)'
    <3>1. RequestsCollected(b) /\ AllocationMade(b) /\ AuthorityKept(b)
      BY <1>1, <2>1 DEF FreshKeysAgree
    <3>2. RequestsCollected(b)'
      <4>1. \A r \in Registered(b) : used_key(r)' = used_key(r)
        BY <1>4 DEF Registered, Present
      <4> QED BY <1>2, <1>3, <1>5, <3>1, <4>1 DEF RequestsCollected, AuthorityKept
    <3>3. AllocationMade(b)'
      BY <1>3, <1>5, <3>1 DEF AllocationMade
    <3> QED BY <3>2, <3>3
  <2>3. ASSUME NEW b \in Authorities PROVE OldPublicKeys(b)'
    <3>1. OldPublicKeys(b) /\ ClientRuns' = ClientRuns
      BY <1>1, <2>1 DEF FreshKeysAgree, ClientRuns, ClientKept
    <3>2. ~HasAdvanced(b)' => ~HasAdvanced(b) /\ Current(b)' = Current(b)
      BY <1>5, <2>1 DEF AuthorityKept
    <3> QED BY <1>1, <1>2, <3>1, <3>2 DEF OldPublicKeys, ClientKept
  <2>4. ASSUME NEW r \in Relay PROVE KeysFetched(r)'
    <3>1. KeysFetched(r) /\ RelayOnTime(r) /\ RelayKept(r)
      BY <1>4, <2>1 DEF FreshKeysAgree, OnTime
    <3>2. CASE Within(ALLOCATION_FINISH, EPOCH_DURATION) /\ ~Beginning
      <4>1. \A b \in Authorities : Fresh(b)' = Fresh(b)
        BY <1>5, <2>1, <3>2
      <4>2. relay_pc[r] \in Fetched \cup {"swap"} /\ Participates(r) =>
              /\ DOMAIN next_authorities[r] \subseteq Authorities
              /\ relay_pc[r] = "fetch_keys" => Fetching(r) \in Authorities
        BY <1>1, <3>1, AnswersAre DEF AnyTime, Fetched
      <4> QED BY <1>4, <3>1, <4>1, <4>2 DEF KeysFetched, RelayKept
    <3>3. CASE ~(Within(ALLOCATION_FINISH, EPOCH_DURATION) /\ ~Beginning)
      <4>1. ~(relay_pc[r] \in Fetched \cup {"swap"} /\ Participates(r))
        BY <1>1, <3>1, <3>3, FetchedAfter
      <4>2. ~HasSwapped(r)
        <5>1. HasSwapped(r) => Participates(r)
          BY DEF Participates
        <5> QED BY <1>1, <3>1, <3>3, <5>1, FetchedAfter
      <4> QED BY <1>4, <3>1, <4>1, <4>2 DEF KeysFetched, RelayKept
    <3> QED BY <3>2, <3>3
  <2> QED BY <2>1, <2>2, <2>3, <2>4 DEF FreshKeysAgree
<1>9. ASSUME CalmForThree PROVE OldAddressesAgree'
  <2>1. /\ OldAddressesAgree /\ (HasAdvanced(a) => HasAdvanced(a)')
        /\ (~HasAdvanced(a)' => Current(a)' = Current(a))
    BY <1>1, <1>9 DEF AuthorityKeepsOn
  <2>2. \A b \in Authorities :
          ~HasAdvanced(b)' => ~HasAdvanced(b) /\ Current(b)' = Current(b)
    BY <1>5, <2>1 DEF AuthorityKept
  <2>3. 1 \in Authorities /\ 2 \in Authorities
    BY DEF Authorities
  <2>4. ~HasAdvanced(1)' /\ ~HasAdvanced(2)' =>
          \A b \in {1, 2}, x \in Identity : get_relay_address(b, x)' = get_relay_address(b, x)
    BY <2>2, <2>3 DEF get_relay_address
  <2> QED BY <2>1, <2>2, <2>3, <2>4 DEF OldAddressesAgree
<1>10. CalmInvariant'
  BY <1>2, <1>6, <1>7, <1>8, <1>9 DEF CalmInvariant
<1>11. CalmForThree => OldKeysKept
  BY <1>1, <1>4, <1>5 DEF OldKeysKept, AuthorityKeepsOn, AuthorityKept, RelayKept
<1> QED BY <1>2, <1>10, <1>11, OldKeysStay

-----------------------------------------------------------------------------
(* What the authorities do, each step of the scheduler by itself.          *)

ScheduleKept(a) == EpochOf(a)' = EpochOf(a) /\ served'[a] = served[a]
AllocationsKept(a) == Current(a)' = Current(a) /\ Coming(a)' = Coming(a)

\* What is left to show of a step that does not change the authority's epoch.
LEMMA AuthorityGoesOn ==
  ASSUME CalmInvariant, NEW a \in Authorities, OnlyAuthority(a),
         Pc(a)' \in {"allocate", "wait_switchover", "dead"} \cup Advancing,
         EpochOf(a).allocation_start <= now,
         EpochOf(a)' = EpochOf(a), Requests(a)' = <<Requests(a)'[1], New(a)'>>,
         IdsDiffer(New(a))', ServedOnTime(a)',
         served'[a] = served[a] \/ served'[a] = Serves(EpochOf(a)),
         AuthorityKeepsOn(a)
  PROVE  Keeps
<1>1. /\ AnyTime /\ OnlyAuthority(a) /\ AuthorityAnyTime(a) /\ TimeKept
  BY DEF CalmInvariant, AnyTime, OnlyAuthority
<1>2. Last' = Last /\ now' = now
  BY <1>1, CalmKept DEF TimeKept
<1>3. served'[a] # NoEpoch => RegistrationTime(served'[a]) /\ served'[a] <= now
  <2>1. IsEpoch(EpochOf(a)) /\ now \in Int
    BY <1>1 DEF AnyTime, AuthorityAnyTime
  <2>2. RegistrationTime(EpochOf(a).registration) /\ EpochOf(a).registration <= now
    BY <2>1, InstantsAre, EpochAssumption
  <2> QED BY <1>1, <2>2 DEF AuthorityAnyTime, Serves
<1>4. AuthorityAnyTime(a)'
  BY <1>1, <1>2, <1>3 DEF AuthorityAnyTime
<1> QED BY <1>1, <1>4, AuthorityFrame

\* The epoch an authority prepares while it is not waiting for the next one.
LEMMA PreparesThisEpoch ==
  ASSUME AnyTime, Calm => OnTime, NEW a \in Authorities,
         Pc(a) # "wait_allocation" \/ EpochOf(a).allocation_start <= now
  PROVE  /\ EpochOf(a).registration # Last + EPOCH_DURATION
         /\ Calm => /\ EpochOf(a).registration = Last /\ ~Beginning
                    /\ Within(0, ALLOCATION_START) => Pc(a) = "wait_allocation"
                    /\ Within(ALLOCATION_START, ALLOCATION_FINISH) =>
                         Pc(a) \in {"wait_allocation", "allocate", "wait_switchover", "dead"}
                    /\ Within(ALLOCATION_FINISH, SWITCHOVER) => Pc(a) = "wait_switchover"
                    /\ Within(SWITCHOVER, EPOCH_DURATION) =>
                         Pc(a) \in {"wait_switchover"} \cup Advancing
<1>1. /\ Last \in Int /\ now \in Int /\ Last <= now /\ now < Last + EPOCH_DURATION
      /\ AuthorityAnyTime(a)
  BY Schedule DEF AnyTime
<1>2. EpochOf(a).allocation_start <= now
  BY <1>1 DEF AuthorityAnyTime
<1>3. /\ EpochOf(a).allocation_start = EpochOf(a).registration + ALLOCATION_START
      /\ EpochOf(a).registration \in Int
  BY <1>1, InstantsAre DEF AuthorityAnyTime
<1>4. EpochOf(a).registration # Last + EPOCH_DURATION
  BY <1>1, <1>2, <1>3, EpochAssumption
<1> QED BY <1>4 DEF OnTime, AuthorityOnTime

\* An instant that has come for this epoch begins the time after it.
LEMMA HasComeIs ==
  ASSUME AnyTime
  PROVE  /\ Last + ALLOCATION_START <= now => ~Within(0, ALLOCATION_START)
         /\ Last + ALLOCATION_FINISH <= now =>
              ~Within(0, ALLOCATION_START) /\ ~Within(ALLOCATION_START, ALLOCATION_FINISH)
                /\ ~Within(0, ALLOCATION_FINISH)
         /\ Last + SWITCHOVER <= now =>
              /\ ~Within(0, ALLOCATION_START) /\ ~Within(ALLOCATION_START, ALLOCATION_FINISH)
              /\ ~Within(ALLOCATION_FINISH, SWITCHOVER) /\ ~Within(0, ALLOCATION_FINISH)
              /\ Within(SWITCHOVER, EPOCH_DURATION)
         /\ \/ Within(0, ALLOCATION_START) \/ Within(ALLOCATION_START, ALLOCATION_FINISH)
            \/ Within(ALLOCATION_FINISH, SWITCHOVER) \/ Within(SWITCHOVER, EPOCH_DURATION)
         /\ Within(SWITCHOVER, EPOCH_DURATION) =>
              Within(ALLOCATION_FINISH, EPOCH_DURATION)
         /\ Within(ALLOCATION_FINISH, EPOCH_DURATION) <=>
              Within(ALLOCATION_FINISH, SWITCHOVER) \/ Within(SWITCHOVER, EPOCH_DURATION)
         /\ Within(0, ALLOCATION_FINISH) <=>
              Within(0, ALLOCATION_START) \/ Within(ALLOCATION_START, ALLOCATION_FINISH)
<1>1. /\ Last \in Int /\ now \in Int /\ Last <= now /\ now < Last + EPOCH_DURATION
  BY Schedule DEF AnyTime
<1> QED BY <1>1, EpochAssumption DEF Within

Starts(a) ==
  /\ OnlyAuthority(a) /\ Pc(a) = "wait_allocation" /\ Pc(a)' = "allocate"
  /\ EpochOf(a).allocation_start <= now
  /\ Requests(a)' = Requests(a) /\ ScheduleKept(a) /\ AllocationsKept(a)

LEMMA StartsKeeps ==
  ASSUME CalmInvariant, NEW a \in Authorities, Starts(a)
  PROVE  Keeps
<1>1. /\ AnyTime /\ AuthorityAnyTime(a) /\ ServedOnTime(a) /\ (Calm => OnTime) /\ TimeKept
      /\ (CalmForTwo => Calm) /\ (CalmForTwo => RequestsCollected(a)) /\ AllRelaysKept
      /\ EpochOf(a).allocation_start <= now /\ Pc(a) = "wait_allocation" /\ Pc(a)' = "allocate"
      /\ EpochOf(a)' = EpochOf(a) /\ served'[a] = served[a] /\ Requests(a)' = Requests(a)
      /\ Current(a)' = Current(a) /\ Coming(a)' = Coming(a)
  BY CalmIsLess DEF CalmInvariant, FreshKeysAgree, AnyTime, Starts, OnlyAuthority,
     ScheduleKept, AllocationsKept
<1>2. /\ Last' = Last /\ Calm' = Calm /\ CalmForTwo' = CalmForTwo /\ Beginning' = Beginning
      /\ \A s, t : Within(s, t)' = Within(s, t)
  BY <1>1, CalmKept
<1>3. /\ EpochOf(a).registration # Last + EPOCH_DURATION
      /\ Calm => /\ EpochOf(a).registration = Last /\ ~Beginning
                 /\ ~Within(0, ALLOCATION_START) /\ ~Within(ALLOCATION_FINISH, SWITCHOVER)
                 /\ ~Within(SWITCHOVER, EPOCH_DURATION)
  <2>1. EpochOf(a).allocation_start = EpochOf(a).registration + ALLOCATION_START
    BY <1>1, InstantsAre DEF AuthorityAnyTime
  <2> QED BY <1>1, <2>1, PreparesThisEpoch, HasComeIs DEF Advancing
<1>4. /\ ~HasAdvanced(a) /\ ~HasAdvanced(a)' /\ ~HasAllocated(a)' /\ Fresh(a)' = Fresh(a)
      /\ New(a)' = New(a)
  BY <1>1, <1>2, <1>3 DEF HasAdvanced, HasAllocated, Clearing, Advancing, Fresh, New
<1>5. ServedOnTime(a)'
  BY <1>1, <1>2, <1>4 DEF ServedOnTime
<1>6. ASSUME CalmForTwo PROVE RequestsCollected(a)'
  <2>1. \A r \in Registered(a) : used_key(r)' = used_key(r)
    BY <1>1 DEF Registered, Present, AllRelaysKept, RelayKept, used_key
  <2> QED BY <1>1, <1>2, <1>3, <1>4, <1>6, <2>1, RelaysStay DEF RequestsCollected
<1>7. AuthorityKeepsOn(a)
  BY <1>1, <1>2, <1>3, <1>4, <1>6
     DEF AuthorityKeepsOn, AuthorityOnTime, RequestsTaken, AllocationMade
<1>8. Requests(a)' = <<Requests(a)'[1], New(a)'>> /\ IdsDiffer(New(a))'
  BY <1>1, <1>4 DEF AuthorityAnyTime, IdsDiffer
<1> QED BY <1>1, <1>5, <1>7, <1>8, AuthorityGoesOn DEF Starts

\* The steps around the switchover that leave the allocations alone: the time
\* has come, the registrations are copied, the new ones are cleared.
AdvancesOn(a) ==
  /\ OnlyAuthority(a)
  /\ \/ Pc(a) = "wait_switchover" /\ EpochOf(a).switchover <= now /\ Pc(a)' = "advance_requests"
     \/ Pc(a) = "advance_requests" /\ Pc(a)' = "advance_allocations"
     \/ Pc(a) = "clear_requests" /\ Pc(a)' = "clear_allocations"
  /\ Requests(a)' = <<Requests(a)'[1], New(a)'>> /\ New(a)' \in {New(a), A!NoRequests}
  /\ ScheduleKept(a) /\ AllocationsKept(a)

LEMMA NoRequestsDiffer == IdsDiffer(A!NoRequests) /\ DOMAIN A!NoRequests.requests = {}
<1>1. DOMAIN A!NoRequests.requests = {} /\ DOMAIN A!NoRequests.addresses = {}
  BY DEF A!NoRequests
<1>2. IsFiniteSet({})
  BY FS_EmptySet
<1> QED BY <1>1, <1>2 DEF IdsDiffer, A!NoRequests

\* What the steps of advance() start from.
LEMMA AtSwitchover ==
  ASSUME CalmInvariant, NEW a \in Authorities,
         \/ Pc(a) \in Advancing
         \/ Pc(a) = "wait_switchover" /\ EpochOf(a).switchover <= now
  PROVE  /\ EpochOf(a).allocation_start <= now /\ EpochOf(a).registration # Last + EPOCH_DURATION
         /\ Calm => /\ EpochOf(a).registration = Last /\ ~Beginning
                    /\ ~Within(0, ALLOCATION_START) /\ ~Within(ALLOCATION_START, ALLOCATION_FINISH)
                    /\ ~Within(ALLOCATION_FINISH, SWITCHOVER) /\ Within(SWITCHOVER, EPOCH_DURATION)
<1>1. /\ AnyTime /\ AuthorityAnyTime(a) /\ (Calm => OnTime)
      /\ EpochOf(a).allocation_start <= now /\ Pc(a) # "wait_allocation"
  BY DEF CalmInvariant, AnyTime, AuthorityAnyTime, Advancing
<1>2. EpochOf(a).switchover = EpochOf(a).registration + SWITCHOVER
  BY <1>1, InstantsAre DEF AuthorityAnyTime
<1>3. Pc(a) \in Advancing => Pc(a) \notin {"wait_allocation", "allocate", "wait_switchover", "dead"}
  BY DEF Advancing
<1> QED BY <1>1, <1>2, <1>3, PreparesThisEpoch, HasComeIs

LEMMA AdvancesOnKeeps ==
  ASSUME CalmInvariant, NEW a \in Authorities, AdvancesOn(a)
  PROVE  Keeps
<1>1. /\ AnyTime /\ AuthorityAnyTime(a) /\ ServedOnTime(a) /\ (Calm => RequestsTaken(a)) /\ TimeKept
      /\ (CalmForTwo => Calm) /\ (CalmForTwo => AllocationMade(a)) /\ AllRelaysKept
      /\ OnlyAuthority(a)
      /\ EpochOf(a)' = EpochOf(a) /\ served'[a] = served[a] /\ New(a)' \in {New(a), A!NoRequests}
      /\ Current(a)' = Current(a) /\ Coming(a)' = Coming(a)
      /\ Pc(a) \in {"wait_switchover"} \cup Advancing /\ Pc(a)' \in Advancing
      /\ Pc(a)' \in Clearing <=> Pc(a) \in Clearing
  BY CalmIsLess DEF CalmInvariant, OnTime, FreshKeysAgree, AnyTime, AdvancesOn, OnlyAuthority,
     ScheduleKept, AllocationsKept, Advancing, Clearing
<1>2. /\ Last' = Last /\ Calm' = Calm /\ CalmForTwo' = CalmForTwo /\ Beginning' = Beginning
      /\ \A s, t : Within(s, t)' = Within(s, t)
  BY <1>1, CalmKept
<1>3. /\ EpochOf(a).allocation_start <= now /\ EpochOf(a).registration # Last + EPOCH_DURATION
      /\ Calm => /\ EpochOf(a).registration = Last /\ ~Beginning
                 /\ ~Within(0, ALLOCATION_START) /\ ~Within(ALLOCATION_START, ALLOCATION_FINISH)
                 /\ ~Within(ALLOCATION_FINISH, SWITCHOVER) /\ Within(SWITCHOVER, EPOCH_DURATION)
  BY AtSwitchover DEF AdvancesOn, Advancing
<1>4. /\ HasAdvanced(a)' = HasAdvanced(a) /\ HasAllocated(a) /\ HasAllocated(a)'
      /\ Fresh(a)' = Fresh(a) /\ KeyOf' = KeyOf
  BY <1>1, <1>2, RelaysStay DEF HasAdvanced, HasAllocated, Fresh
<1>5. ServedOnTime(a)'
  BY <1>1, <1>2, <1>4 DEF ServedOnTime
<1>6. /\ Calm => RequestsTaken(a)'
      /\ IdsDiffer(New(a))'
  BY <1>1, <1>4, NoRequestsDiffer DEF RequestsTaken, AuthorityAnyTime, IdsDiffer
<1>7. Calm => AuthorityOnTime(a)'
  BY <1>1, <1>2, <1>3 DEF AuthorityOnTime
<1>8. Pc(a)' \notin {"wait_allocation", "allocate"}
  BY <1>1 DEF Advancing
<1>9. AuthorityKeepsOn(a)
  BY <1>1, <1>4, <1>6, <1>7, <1>8 DEF AuthorityKeepsOn, RequestsCollected, AllocationMade
<1> QED BY <1>1, <1>3, <1>5, <1>6, <1>9, AuthorityGoesOn DEF AdvancesOn

\* The new allocations are copied to the current ones.
Switches(a) ==
  /\ OnlyAuthority(a) /\ Pc(a) = "advance_allocations" /\ Pc(a)' = "clear_requests"
  /\ Requests(a)' = Requests(a) /\ EpochOf(a)' = EpochOf(a)
  /\ Current(a)' = Coming(a) /\ Coming(a)' = Coming(a)
  /\ served'[a] = Serves(EpochOf(a))

LEMMA SwitchesKeeps ==
  ASSUME CalmInvariant, NEW a \in Authorities, Switches(a)
  PROVE  Keeps
<1>1. /\ AnyTime /\ AuthorityAnyTime(a) /\ (Calm => RequestsTaken(a)) /\ TimeKept
      /\ (CalmForTwo => Calm) /\ (CalmForTwo => AllocationMade(a)) /\ AllRelaysKept
      /\ OnlyAuthority(a)
      /\ EpochOf(a)' = EpochOf(a) /\ served'[a] = Serves(EpochOf(a)) /\ New(a)' = New(a)
      /\ Pc(a) = "advance_allocations" /\ Pc(a)' = "clear_requests"
      /\ Current(a)' = Coming(a) /\ Coming(a)' = Coming(a)
  BY CalmIsLess DEF CalmInvariant, OnTime, FreshKeysAgree, AnyTime, Switches, OnlyAuthority, New
<1>2. /\ Last' = Last /\ Calm' = Calm /\ CalmForTwo' = CalmForTwo /\ Beginning' = Beginning
      /\ now < Last + EPOCH_DURATION
      /\ \A s, t : Within(s, t)' = Within(s, t)
  BY <1>1, CalmKept, Schedule DEF AnyTime
<1>3. /\ EpochOf(a).allocation_start <= now /\ EpochOf(a).registration # Last + EPOCH_DURATION
      /\ Calm => /\ EpochOf(a).registration = Last /\ ~Beginning
                 /\ ~Within(0, ALLOCATION_START) /\ ~Within(ALLOCATION_START, ALLOCATION_FINISH)
                 /\ ~Within(ALLOCATION_FINISH, SWITCHOVER) /\ Within(SWITCHOVER, EPOCH_DURATION)
  BY <1>1, AtSwitchover DEF Advancing
<1>4. /\ ~HasAdvanced(a) /\ HasAdvanced(a)' /\ HasAllocated(a) /\ HasAllocated(a)'
      /\ Fresh(a)' = Fresh(a) /\ KeyOf' = KeyOf
  BY <1>1, <1>2, <1>3, RelaysStay DEF HasAdvanced, HasAllocated, Fresh, Clearing, Advancing
<1>5. ServedOnTime(a)'
  <2>1. Calm => Serves(EpochOf(a)) = Last
    BY <1>2, <1>3 DEF Serves, succeeding, from_registration
  <2> QED BY <1>1, <1>2, <1>3, <1>4, <2>1 DEF ServedOnTime
<1>6. /\ Calm => RequestsTaken(a)'
      /\ IdsDiffer(New(a))' /\ Requests(a)' = <<Requests(a)'[1], New(a)'>>
  BY <1>1, <1>4 DEF RequestsTaken, AuthorityAnyTime, IdsDiffer, Switches
<1>7. Calm => AuthorityOnTime(a)'
  BY <1>1, <1>2, <1>3 DEF AuthorityOnTime, Advancing
<1>8. AuthorityKeepsOn(a)
  BY <1>1, <1>4, <1>6, <1>7 DEF AuthorityKeepsOn, RequestsCollected, AllocationMade
<1> QED BY <1>1, <1>3, <1>5, <1>6, <1>8, AuthorityGoesOn DEF Advancing

\* The new allocations are cleared, and the next epoch is prepared.
TurnsToNext(a) ==
  /\ OnlyAuthority(a) /\ Pc(a) = "clear_allocations" /\ Pc(a)' = "wait_allocation"
  /\ Requests(a)' = Requests(a) /\ Current(a)' = Current(a)
  /\ EpochOf(a)' = next(now) /\ served'[a] = served[a]

LEMMA TurnsToNextKeeps ==
  ASSUME CalmInvariant, NEW a \in Authorities, TurnsToNext(a)
  PROVE  Keeps
<1>1. /\ AnyTime /\ AuthorityAnyTime(a) /\ ServedOnTime(a) /\ (Calm => RequestsTaken(a)) /\ TimeKept
      /\ (CalmForTwo => Calm) /\ (CalmForTwo => AllocationMade(a)) /\ AllRelaysKept
      /\ OnlyAuthority(a) /\ now' = now
      /\ served'[a] = served[a] /\ New(a)' = New(a) /\ Requests(a)' = Requests(a)
      /\ Pc(a) = "clear_allocations" /\ Pc(a)' = "wait_allocation"
      /\ Current(a)' = Current(a)
  BY CalmIsLess DEF CalmInvariant, OnTime, FreshKeysAgree, AnyTime, TurnsToNext, OnlyAuthority,
     New, TimeKept
<1>2. /\ Last' = Last /\ Calm' = Calm /\ CalmForTwo' = CalmForTwo /\ Beginning' = Beginning
      /\ Last \in Int
      /\ \A s, t : Within(s, t)' = Within(s, t)
  BY <1>1, CalmKept, Schedule DEF AnyTime
<1>3. IsEpoch(EpochOf(a)') /\ EpochOf(a)'.registration = Last + EPOCH_DURATION
  BY <1>1, Upcoming DEF AnyTime, TurnsToNext
<1>4. Calm => ~Beginning /\ Within(SWITCHOVER, EPOCH_DURATION)
  BY <1>1, AtSwitchover DEF Advancing
<1>5. /\ HasAdvanced(a) /\ HasAdvanced(a)' /\ HasAllocated(a) /\ HasAllocated(a)'
      /\ Fresh(a)' = Fresh(a) /\ KeyOf' = KeyOf
  BY <1>1, <1>2, <1>3, RelaysStay DEF HasAdvanced, HasAllocated, Fresh, Clearing, Advancing
<1>6. ServedOnTime(a)'
  BY <1>1, <1>2, <1>5 DEF ServedOnTime
<1>7. AuthorityAnyTime(a)'
  <2>1. IdsDiffer(New(a))'
    BY <1>1 DEF AuthorityAnyTime, IdsDiffer
  <2>2. IsEpoch(EpochOf(a))'
    BY <1>3 DEF IsEpoch, RegistrationTime
  <2> QED BY <1>1, <1>2, <1>3, <2>1, <2>2, EpochAssumption DEF AuthorityAnyTime
<1>8. /\ Calm => RequestsTaken(a)' /\ AuthorityOnTime(a)'
      /\ EpochOf(a)'.registration # Last'
  BY <1>1, <1>2, <1>3, <1>4, <1>5, EpochAssumption DEF RequestsTaken, AuthorityOnTime
<1>9. AuthorityKeepsOn(a)
  BY <1>1, <1>5, <1>8 DEF AuthorityKeepsOn, RequestsCollected, AllocationMade
<1> QED BY <1>1, <1>6, <1>7, <1>9, AuthorityFrame

\* Requests with different ids, one of each relay under its key.
RequestsOf(reqs, keys) ==
  /\ IdsDiffer(reqs)
  /\ \A q, r \in DOMAIN keys : keys[q] = keys[r] => q = r
  /\ DOMAIN reqs.requests = {keys[r] : r \in DOMAIN keys}
  /\ \A r \in DOMAIN keys : reqs.requests[keys[r]].weight = WeightOf[r]

\* The allocation that an authority makes of such requests gives each key what
\* allocation::allocate computes for it: ids and keys name the same requests.
LEMMA AllocatedIs ==
  ASSUME NEW reqs, NEW keys, RequestsOf(reqs, keys)
  PROVE  /\ DOMAIN A!Allocated(reqs) = DOMAIN reqs.requests
         /\ \A k \in DOMAIN reqs.requests :
              A!Allocated(reqs)[k] = Allocate(WeightsOf(keys))[k]
<1> DEFINE requests == reqs.requests
           ids == {requests[k].id : k \in DOMAIN requests}
           weights == [k \in DOMAIN requests |-> requests[k].weight]
           granted == Allocate(weights)
           of_id(id) == UNION {granted[k] : k \in {q \in DOMAIN requests : requests[q].id = id}}
           reverse_keys == [id \in ids |-> CHOOSE k \in DOMAIN requests : requests[k].id = id]
<1>1. A!Allocated(reqs) = [k \in {reverse_keys[id] : id \in ids} |-> of_id(requests[k].id)]
  BY DEF A!Allocated
<1>2. weights = WeightsOf(keys)
  <2>1. \A r \in DOMAIN keys : (CHOOSE q \in DOMAIN keys : keys[q] = keys[r]) = r
    BY DEF RequestsOf
  <2> QED BY <2>1 DEF WeightsOf, RequestsOf
<1>3. \A k, l \in DOMAIN requests : requests[k].id = requests[l].id => k = l
  BY DEF IdsDiffer, RequestsOf
<1> HIDE DEF granted, weights, requests
<1>4. {reverse_keys[id] : id \in ids} = DOMAIN requests
  <2>1. \A k \in DOMAIN requests : requests[k].id \in ids /\ reverse_keys[requests[k].id] = k
    BY <1>3
  <2>2. \A id \in ids : reverse_keys[id] \in DOMAIN requests
    BY <2>1
  <2> HIDE DEF reverse_keys, ids
  <2> QED BY <2>1, <2>2
<1>5. \A k \in DOMAIN requests : of_id(requests[k].id) = granted[k]
  <2> SUFFICES ASSUME NEW k \in DOMAIN requests PROVE of_id(requests[k].id) = granted[k]
    OBVIOUS
  <2>1. {q \in DOMAIN requests : requests[q].id = requests[k].id} = {k}
    BY <1>3
  <2> QED BY <2>1
<1> QED BY <1>1, <1>2, <1>4, <1>5 DEF granted, requests

\* The keys of different relays differ.
LEMMA KeysDiffer ==
  /\ DOMAIN KeyOf = Present /\ \A r \in Present : KeyOf[r] = used_key(r)
  /\ \A q, r \in Present : KeyOf[q] = KeyOf[r] => q = r
BY DEF KeyOf, used_key

\* The allocation is made, or the scheduler dies of weights that are all zero.
Makes(a) ==
  /\ OnlyAuthority(a) /\ Pc(a) = "allocate"
  /\ Pc(a)' = IF A!Weightless(New(a)) THEN "dead" ELSE "wait_switchover"
  /\ Requests(a)' = <<Requests(a)[1], A!NoRequests>>
  /\ ScheduleKept(a) /\ Current(a)' = Current(a)
  /\ ~A!Weightless(New(a)) =>
       /\ Coming(a)'.allocations = A!Allocated(New(a))
       /\ Coming(a)'.addresses = New(a).addresses

LEMMA MakesKeeps ==
  ASSUME CalmInvariant, NEW a \in Authorities, Makes(a)
  PROVE  Keeps
<1>1. /\ AnyTime /\ AuthorityAnyTime(a) /\ ServedOnTime(a) /\ (Calm => OnTime) /\ TimeKept
      /\ (CalmForTwo => Calm) /\ (CalmForTwo => RequestsCollected(a)) /\ AllRelaysKept
      /\ OnlyAuthority(a)
      /\ EpochOf(a)' = EpochOf(a) /\ served'[a] = served[a]
      /\ New(a)' = A!NoRequests /\ Requests(a)' = <<Requests(a)'[1], New(a)'>>
      /\ Current(a)' = Current(a)
      /\ Pc(a) = "allocate" /\ Pc(a)' \in {"dead", "wait_switchover"}
      /\ Pc(a)' = "wait_switchover" => ~A!Weightless(New(a))
  BY CalmIsLess DEF CalmInvariant, OnTime, FreshKeysAgree, AnyTime, Makes, OnlyAuthority,
     ScheduleKept, New
<1>2. /\ Last' = Last /\ Calm' = Calm /\ CalmForTwo' = CalmForTwo /\ Beginning' = Beginning
      /\ \A s, t : Within(s, t)' = Within(s, t)
  BY <1>1, CalmKept
<1>3. /\ EpochOf(a).allocation_start <= now /\ EpochOf(a).registration # Last + EPOCH_DURATION
      /\ Calm => /\ EpochOf(a).registration = Last /\ ~Beginning
                 /\ ~Within(0, ALLOCATION_START) /\ Within(ALLOCATION_START, ALLOCATION_FINISH)
                 /\ ~Within(ALLOCATION_FINISH, SWITCHOVER) /\ ~Within(SWITCHOVER, EPOCH_DURATION)
                 /\ ~Within(ALLOCATION_FINISH, EPOCH_DURATION)
  BY <1>1, PreparesThisEpoch, HasComeIs DEF Advancing, AuthorityAnyTime
<1>4. ~HasAdvanced(a) /\ ~HasAdvanced(a)'
  BY <1>1, <1>2, <1>3 DEF HasAdvanced, Clearing
<1>5. ServedOnTime(a)'
  BY <1>1, <1>2, <1>4 DEF ServedOnTime
<1>6. /\ RequestsTaken(a)' /\ IdsDiffer(New(a))'
  BY <1>1, NoRequestsDiffer DEF RequestsTaken, IdsDiffer
<1>7. Calm => AuthorityOnTime(a)'
  BY <1>1, <1>2, <1>3 DEF AuthorityOnTime
<1>8. ASSUME CalmForTwo PROVE AllocationMade(a)'
  <2> SUFFICES ASSUME Pc(a)' = "wait_switchover" PROVE IsFor(Coming(a), KeyOf)'
    BY <1>1, <1>4 DEF AllocationMade, HasAllocated, Fresh, Advancing
  <2>1. Registered(a) = Present
    <3>1. \A r \in Present : relay_pc[r] = "wait_finish"
      <4> SUFFICES ASSUME NEW r \in Relay, Participates(r) PROVE relay_pc[r] = "wait_finish"
        BY DEF Present
      <4> QED BY <1>1, <1>3, <1>8, EpochAssumption, Schedule
              DEF OnTime, RelayOnTime, Participates, HasSwapped, AnyTime
    <3> QED BY <3>1 DEF Registered
  <2>2. KeyOf' = KeyOf
    BY <1>1, RelaysStay
  <2>3. /\ DOMAIN New(a).requests = {used_key(r) : r \in Present}
        /\ \A r \in Present : /\ New(a).requests[used_key(r)].weight = WeightOf[r]
                              /\ New(a).addresses[used_key(r)] = r
    BY <1>1, <1>3, <1>8, <2>1, CalmIsLess DEF RequestsCollected
  <2>4. DOMAIN New(a).requests = {KeyOf[r] : r \in DOMAIN KeyOf}
    BY <2>3, KeysDiffer
  <2>5. \A r \in DOMAIN KeyOf : /\ New(a).requests[KeyOf[r]].weight = WeightOf[r]
                                /\ New(a).addresses[KeyOf[r]] = r
    BY <2>3, KeysDiffer
  <2>6. RequestsOf(New(a), KeyOf)
    BY <1>1, <2>4, <2>5, KeysDiffer DEF RequestsOf, AuthorityAnyTime
  <2>7. \E r \in DOMAIN KeyOf : WeightOf[r] # 0
    <3>1. PICK k \in DOMAIN New(a).requests : New(a).requests[k].weight # 0
      BY <1>1 DEF A!Weightless
    <3> QED BY <2>4, <2>5, <3>1
  <2> DEFINE keys == KeyOf
             made == Coming(a)'
  <2>8. IsFor(made, keys)
    <3>1. made.allocations = A!Allocated(New(a)) /\ made.addresses = New(a).addresses
      BY <1>1 DEF Makes
    <3>2. /\ DOMAIN A!Allocated(New(a)) = DOMAIN New(a).requests
          /\ \A k \in DOMAIN New(a).requests :
               A!Allocated(New(a))[k] = Allocate(WeightsOf(keys))[k]
      BY <2>6, AllocatedIs
    <3> HIDE DEF made
    <3> QED BY <2>4, <2>5, <2>7, <3>1, <3>2 DEF IsFor
  <2> QED BY <2>2, <2>8 DEF IsFor
<1>9. AuthorityKeepsOn(a)
  BY <1>1, <1>3, <1>4, <1>6, <1>7, <1>8 DEF AuthorityKeepsOn, RequestsCollected
<1> QED BY <1>1, <1>3, <1>5, <1>6, <1>9, AuthorityGoesOn DEF Makes

-----------------------------------------------------------------------------
(* Trouble: only what holds at any time has to be shown.                   *)

LEMMA TroubleFrame ==
  ASSUME AnyTime, now' = now, trouble' = now, Maps',
         \A a \in Authorities : AuthorityAnyTime(a)', \A r \in Relay : RelayAnyTime(r)',
         ClientAnyTime'
  PROVE  Keeps
<1>1. now \in Nat /\ Last' = Last /\ Last \in Int /\ Last <= now /\ EPOCH_DURATION \in Nat
  BY Schedule, EpochAssumption DEF AnyTime, Last
<1>2. ~Calm' /\ ~CalmForTwo' /\ ~CalmForThree'
  BY <1>1 DEF Calm, CalmForTwo, CalmForThree
<1>3. \A a \in Authorities : ServedOnTime(a)'
  BY <1>2 DEF ServedOnTime
<1>4. AnyTime'
  BY <1>1, <1>3 DEF AnyTime
<1> QED BY <1>2, <1>4 DEF Keeps, CalmInvariant, NetworkInvariant

\* What does nothing remains as it may be at any time.
LEMMA AnyTimeStays ==
  ASSUME now' = now
  PROVE  /\ \A a \in Authorities : AuthorityKept(a) /\ AuthorityAnyTime(a) => AuthorityAnyTime(a)'
         /\ \A r \in Relay : RelayKept(r) /\ RelayAnyTime(r) => RelayAnyTime(r)'
         /\ ClientKept /\ ClientAnyTime => ClientAnyTime'
<1>1. Last' = Last
  BY DEF Last
<1>2. ASSUME NEW a \in Authorities, AuthorityKept(a), AuthorityAnyTime(a) PROVE AuthorityAnyTime(a)'
  <2>1. New(a)' = New(a)
    BY <1>2 DEF AuthorityKept, New
  <2> QED BY <1>1, <1>2, <2>1 DEF AuthorityKept, AuthorityAnyTime
<1>3. ASSUME NEW r \in Relay, RelayKept(r), RelayAnyTime(r) PROVE RelayAnyTime(r)'
  BY <1>1, <1>3 DEF RelayKept, RelayAnyTime
<1>4. ClientKept /\ ClientAnyTime => ClientAnyTime'
  BY <1>1 DEF ClientKept, ClientAnyTime
<1> QED BY <1>2, <1>3, <1>4

Restarts(a) ==
  /\ now' = now /\ trouble' = now /\ Maps' /\ ClientKept /\ AllRelaysKept
  /\ \A b \in Authorities \ {a} : AuthorityKept(b)
  /\ Requests(a)' = <<A!NoRequests, A!NoRequests>> /\ EpochOf(a)' = next(now)
  /\ Pc(a)' = "wait_allocation" /\ served'[a] = NoEpoch

LEMMA RestartsKeeps ==
  ASSUME CalmInvariant, NEW a \in Authorities, Restarts(a)
  PROVE  Keeps
<1>1. AnyTime
  BY DEF CalmInvariant
<1>2. IsEpoch(EpochOf(a)') /\ EpochOf(a)'.registration = Last + EPOCH_DURATION /\ Last \in Int
  BY <1>1, Upcoming, Schedule DEF AnyTime, Restarts
<1>3. AuthorityAnyTime(a)'
  <2>1. Requests(a)' = <<Requests(a)'[1], New(a)'>> /\ IdsDiffer(New(a))'
    <3>1. Requests(a)' = <<A!NoRequests, A!NoRequests>> /\ New(a)' = A!NoRequests
      BY DEF Restarts, New
    <3>2. Requests(a)' = <<Requests(a)'[1], New(a)'>>
      BY <3>1
    <3> QED BY <3>1, <3>2, NoRequestsDiffer DEF IdsDiffer
  <2>2. IsEpoch(EpochOf(a))'
    BY <1>2 DEF IsEpoch, RegistrationTime
  <2>3. Last' = Last
    BY DEF Restarts, Last
  <2> QED BY <1>2, <2>1, <2>2, <2>3, EpochAssumption DEF AuthorityAnyTime, Restarts
<1>4. now' = now /\ AllRelaysKept /\ \A b \in Authorities \ {a} : AuthorityKept(b)
  BY DEF Restarts
<1>5. \A b \in Authorities : AuthorityAnyTime(b)'
  BY <1>1, <1>3, <1>4, AnyTimeStays DEF AnyTime
<1>6. (\A r \in Relay : RelayAnyTime(r)') /\ ClientAnyTime'
  BY <1>1, <1>4, AnyTimeStays DEF AnyTime, Restarts, AllRelaysKept
<1> QED BY <1>1, <1>5, <1>6, TroubleFrame DEF Restarts

-----------------------------------------------------------------------------
(* What the relays do.                                                     *)

\* The authorities do nothing, or only answer a registration.
AuthorityRests(a) == AllocationsKept(a) /\ ScheduleKept(a) /\ Pc(a)' = Pc(a)

OnlyRelay(r) ==
  /\ TimeKept /\ ClientKept /\ Maps'
  /\ \A q \in Relay \ {r} : RelayKept(q)
  /\ \A a \in Authorities : AuthorityRests(a)

RelayKeepsOn(r) ==
  /\ RelayAnyTime(r)' /\ \A a \in Authorities : AuthorityAnyTime(a)'
  /\ Calm => RelayOnTime(r)' /\ \A a \in Authorities : RequestsTaken(a)'
  /\ CalmForTwo =>
       /\ Participates(r)' <=> Participates(r)
       /\ used_key(r)' = used_key(r) \/ \A a \in Authorities : ~HasAllocated(a)
       /\ KeysFetched(r)' /\ \A a \in Authorities : RequestsCollected(a)'
  /\ CalmForThree =>
       /\ live_authorities'[r] = live_authorities[r] \/ HasSwapped(r)'
       /\ HasSwapped(r) => HasSwapped(r)'
       /\ relay_pc[r] = "dead" => relay_pc'[r] = "dead"

LEMMA AuthorityResting ==
  ASSUME TimeKept, NEW a \in Authorities, AuthorityRests(a)
  PROVE  /\ HasAllocated(a)' = HasAllocated(a) /\ HasAdvanced(a)' = HasAdvanced(a)
         /\ Fresh(a)' = Fresh(a) /\ Current(a)' = Current(a)
         /\ ServedOnTime(a) => ServedOnTime(a)'
         /\ AuthorityOnTime(a) => AuthorityOnTime(a)'
<1>1. /\ Last' = Last /\ Calm' = Calm /\ CalmForTwo' = CalmForTwo
      /\ Beginning' = Beginning /\ \A s, t : Within(s, t)' = Within(s, t)
  BY CalmKept
<1>2. HasAllocated(a)' = HasAllocated(a) /\ HasAdvanced(a)' = HasAdvanced(a)
  BY <1>1 DEF AuthorityRests, ScheduleKept, HasAllocated, HasAdvanced
<1>3. Fresh(a)' = Fresh(a) /\ Current(a)' = Current(a)
  BY <1>2 DEF AuthorityRests, AllocationsKept, Fresh
<1>4. ServedOnTime(a) => ServedOnTime(a)'
  BY <1>1, <1>2 DEF AuthorityRests, ScheduleKept, ServedOnTime
<1>5. AuthorityOnTime(a) => AuthorityOnTime(a)'
  BY <1>1 DEF AuthorityRests, ScheduleKept, AuthorityOnTime
<1> QED BY <1>2, <1>3, <1>4, <1>5

LEMMA RelayFrame ==
  ASSUME CalmInvariant, NEW r \in Relay, OnlyRelay(r), RelayKeepsOn(r)
  PROVE  Keeps
<1>1. /\ AnyTime /\ TimeKept /\ ClientKept /\ Maps'
      /\ (Calm => OnTime) /\ (CalmForTwo => FreshKeysAgree)
      /\ (CalmForThree => OldAddressesAgree)
      /\ (CalmForThree => CalmForTwo) /\ (CalmForTwo => Calm)
  BY CalmIsLess DEF CalmInvariant, OnlyRelay
<1>2. /\ Last' = Last /\ now' = now /\ trouble' = trouble
      /\ Calm' = Calm /\ CalmForTwo' = CalmForTwo /\ CalmForThree' = CalmForThree
  BY <1>1, CalmKept DEF TimeKept
<1>3. \A a \in Authorities :
        /\ HasAllocated(a)' = HasAllocated(a) /\ HasAdvanced(a)' = HasAdvanced(a)
        /\ Fresh(a)' = Fresh(a) /\ Current(a)' = Current(a)
        /\ ServedOnTime(a) => ServedOnTime(a)'
        /\ AuthorityOnTime(a) => AuthorityOnTime(a)'
  BY <1>1, AuthorityResting DEF OnlyRelay
<1>4. \A q \in Relay \ {r} :
        /\ RelayKept(q) /\ Participates(q)' = Participates(q) /\ HasSwapped(q)' = HasSwapped(q)
        /\ used_key(q)' = used_key(q) /\ Fetching(q)' = Fetching(q)
        /\ RelayAnyTime(q) => RelayAnyTime(q)'
        /\ RelayOnTime(q) => RelayOnTime(q)'
  BY <1>1, RelayStays DEF OnlyRelay
<1>5. AnyTime'
  BY <1>1, <1>2, <1>3, <1>4, ClientStays DEF AnyTime, RelayKeepsOn
<1>6. ASSUME Calm PROVE OnTime'
  <2>1. PublicKeysFetched'
    <3>1. client_pc \in {"fetch_next", "wait_switchover"} /\ client_epoch.registration = Last =>
            DOMAIN next_public_keys \subseteq Authorities
      <4>1. next_public_keys \in Seq({next_public_keys[i] : i \in DOMAIN next_public_keys})
        BY <1>1 DEF AnyTime, ClientAnyTime, IsSequence
      <4> QED BY <1>1, <1>6, <4>1 DEF OnTime, PublicKeysFetched, Authorities
    <3> QED BY <1>1, <1>2, <1>3, <1>6, <3>1 DEF OnTime, PublicKeysFetched, ClientKept
  <2> QED BY <1>1, <1>3, <1>4, <1>6, <2>1, ClientStays DEF OnTime, RelayKeepsOn
<1>7. ASSUME CalmForTwo PROVE FreshKeysAgree'
  <2>1. ASSUME NEW a \in Authorities PROVE AllocationMade(a)'
    <3>1. Present' = Present
      BY <1>4, <1>7 DEF Present, RelayKeepsOn
    <3>2. CASE used_key(r)' = used_key(r)
      <4>1. \A q \in Relay : used_key(q)' = used_key(q)
        BY <1>4, <3>2
      <4>2. KeyOf' = KeyOf
        <5>1. \A q \in Present : q \in Relay
          BY DEF Present
        <5> QED BY <3>1, <4>1, <5>1 DEF KeyOf
      <4> QED BY <1>1, <1>3, <1>7, <4>2 DEF FreshKeysAgree, AllocationMade
    <3>3. CASE \A b \in Authorities : ~HasAllocated(b)
      BY <1>3, <3>3 DEF AllocationMade
    <3> QED BY <1>7, <3>2, <3>3 DEF RelayKeepsOn
  <2>2. ASSUME NEW a \in Authorities PROVE OldPublicKeys(a)'
    <3>1. ClientRuns' = ClientRuns
      BY <1>1 DEF ClientRuns, ClientKept
    <3> QED BY <1>1, <1>2, <1>3, <1>7, <3>1 DEF FreshKeysAgree, OldPublicKeys, ClientKept
  <2>3. ASSUME NEW q \in Relay \ {r} PROVE KeysFetched(q)'
    <3>1. KeysFetched(q) /\ RelayAnyTime(q)
      BY <1>1, <1>7 DEF FreshKeysAgree, AnyTime
    <3>2. relay_pc[q] \in Fetched \cup {"swap"} /\ Participates(q) =>
            /\ DOMAIN next_authorities[q] \subseteq Authorities
            /\ relay_pc[q] = "fetch_keys" => Fetching(q) \in Authorities
      BY <3>1, AnswersAre DEF Fetched
    <3> QED BY <1>3, <1>4, <3>1, <3>2 DEF KeysFetched, RelayKept
  <2> QED BY <1>7, <2>1, <2>2, <2>3 DEF FreshKeysAgree, RelayKeepsOn
<1>8. ASSUME CalmForThree PROVE OldAddressesAgree'
  <2>1. \A a \in {1, 2}, x \in Identity : get_relay_address(a, x)' = get_relay_address(a, x)
    BY <1>3 DEF get_relay_address, Authorities
  <2> QED BY <1>1, <1>3, <1>8, <2>1 DEF OldAddressesAgree, Authorities
<1>9. CalmInvariant'
  BY <1>2, <1>5, <1>6, <1>7, <1>8 DEF CalmInvariant
<1>10. CalmForThree => OldKeysKept
  BY <1>1, <1>3, <1>4 DEF OldKeysKept, RelayKeepsOn, RelayKept
<1> QED BY <1>2, <1>9, <1>10, OldKeysStay

\* When an authority has made the allocation, and when it has not.
LEMMA AllocationTimes ==
  ASSUME AnyTime, OnTime, NEW a \in Authorities, ~Beginning
  PROVE  /\ Within(0, ALLOCATION_START) =>
              /\ EpochOf(a).registration = Last /\ Pc(a) = "wait_allocation"
              /\ ~HasAllocated(a) /\ ~HasAdvanced(a)
         /\ Within(ALLOCATION_FINISH, EPOCH_DURATION) =>
              /\ HasAllocated(a)
              /\ ~(EpochOf(a).registration = Last /\ Pc(a) \in {"wait_allocation", "allocate"})
         /\ Within(ALLOCATION_FINISH, SWITCHOVER) => ~HasAdvanced(a) /\ Fresh(a) = Coming(a)
<1>1. /\ Last \in Int /\ now \in Int /\ Last <= now /\ now < Last + EPOCH_DURATION
      /\ AuthorityOnTime(a)
  BY Schedule DEF AnyTime, OnTime
<1>2. CASE EpochOf(a).registration = Last + EPOCH_DURATION
  <2>1. Pc(a) = "wait_allocation" /\ Within(SWITCHOVER, EPOCH_DURATION)
    BY <1>1, <1>2, EpochAssumption DEF AuthorityOnTime
  <2>2. ~Within(0, ALLOCATION_START) /\ ~Within(ALLOCATION_FINISH, SWITCHOVER)
    BY <1>1, <2>1, EpochAssumption DEF Within
  <2> QED BY <1>1, <1>2, <2>1, <2>2, EpochAssumption DEF HasAllocated
<1>3. CASE EpochOf(a).registration # Last + EPOCH_DURATION
  <2>1. /\ EpochOf(a).registration = Last
        /\ Within(0, ALLOCATION_START) => Pc(a) = "wait_allocation"
        /\ Within(ALLOCATION_FINISH, SWITCHOVER) => Pc(a) = "wait_switchover"
        /\ Within(SWITCHOVER, EPOCH_DURATION) => Pc(a) \in {"wait_switchover"} \cup Advancing
    BY <1>1, <1>3 DEF AuthorityOnTime
  <2>2. Within(ALLOCATION_FINISH, EPOCH_DURATION) =>
          Within(ALLOCATION_FINISH, SWITCHOVER) \/ Within(SWITCHOVER, EPOCH_DURATION)
    BY HasComeIs
  <2> QED BY <1>3, <2>1, <2>2 DEF HasAllocated, HasAdvanced, Clearing, Advancing, Fresh
<1> QED BY <1>2, <1>3

\* What is left to show of a step of one relay to which no authority listens.
RelayGoesOn(r) ==
  /\ RelayAnyTime(r)'
  /\ Calm => RelayOnTime(r)'
  /\ CalmForTwo =>
       /\ KeysFetched(r)' /\ (Participates(r)' <=> Participates(r))
       /\ used_key(r)' = used_key(r) \/ (Within(0, ALLOCATION_START) /\ ~Beginning)
       /\ \/ Within(ALLOCATION_FINISH, EPOCH_DURATION) /\ ~Beginning
          \/ \A a \in Authorities : r \notin Registered(a) /\ r \notin Registered(a)'
  /\ CalmForThree =>
       /\ live_authorities'[r] = live_authorities[r] \/ HasSwapped(r)'
       /\ HasSwapped(r) => HasSwapped(r)'
       /\ relay_pc[r] = "dead" => relay_pc'[r] = "dead"

ByItself(r) ==
  /\ ClientKept /\ Maps'
  /\ \A q \in Relay \ {r} : RelayKept(q)
  /\ \A a \in Authorities : AuthorityKept(a)

LEMMA RelayAlone ==
  ASSUME CalmInvariant, NEW r \in Relay, TimeKept, ByItself(r), RelayGoesOn(r)
  PROVE  Keeps
<1>1. /\ AnyTime /\ (Calm => OnTime) /\ (CalmForTwo => FreshKeysAgree) /\ (CalmForTwo => Calm)
  BY CalmIsLess DEF CalmInvariant
<1>2. OnlyRelay(r)
  BY DEF OnlyRelay, ByItself, AuthorityKept, AuthorityRests, AllocationsKept, ScheduleKept
<1>3. \A a \in Authorities : /\ AuthorityAnyTime(a)' /\ New(a)' = New(a)
                             /\ RequestsTaken(a) => RequestsTaken(a)'
  BY <1>1, AuthorityStays DEF ByItself, AnyTime
<1>4. ASSUME CalmForTwo, NEW a \in Authorities PROVE RequestsCollected(a)'
  <2>1. /\ EpochOf(a)' = EpochOf(a) /\ Pc(a)' = Pc(a) /\ New(a)' = New(a) /\ Last' = Last
        /\ RequestsCollected(a)
    BY <1>1, <1>3, <1>4, CalmKept DEF ByItself, AuthorityKept, FreshKeysAgree
  <2>2. CASE Within(ALLOCATION_FINISH, EPOCH_DURATION) /\ ~Beginning
    <3>1. ~(EpochOf(a).registration = Last /\ Pc(a) \in {"wait_allocation", "allocate"})
      BY <1>1, <1>4, <2>2, AllocationTimes
    <3> QED BY <2>1, <3>1 DEF RequestsCollected
  <2>3. CASE r \notin Registered(a) /\ r \notin Registered(a)'
    <3>1. \A q \in Relay \ {r} :
            /\ Participates(q)' = Participates(q) /\ used_key(q)' = used_key(q)
            /\ relay_pc'[q] = relay_pc[q] /\ contacted'[q] = contacted[q]
      BY RelayStays DEF ByItself, RelayKept
    <3>2. Registered(a)' = Registered(a)
      BY <2>3, <3>1 DEF Registered, Present
    <3>3. \A q \in Registered(a) : used_key(q)' = used_key(q)
      BY <2>3, <3>1 DEF Registered, Present
    <3> QED BY <2>1, <3>2, <3>3 DEF RequestsCollected
  <2> QED BY <1>4, <2>2, <2>3 DEF RelayGoesOn
<1>5. CalmForTwo => used_key(r)' = used_key(r) \/ \A a \in Authorities : ~HasAllocated(a)
  BY <1>1, AllocationTimes DEF RelayGoesOn
<1>6. RelayKeepsOn(r)
  BY <1>1, <1>3, <1>4, <1>5 DEF RelayKeepsOn, RelayGoesOn, OnTime
<1> QED BY <1>2, <1>6, RelayFrame

\* The same of trouble with a relay.
LEMMA RelayTrouble ==
  ASSUME CalmInvariant, NEW r \in Relay, now' = now, trouble' = now, ByItself(r), RelayAnyTime(r)'
  PROVE  Keeps
<1>1. AnyTime /\ Maps'
  BY DEF CalmInvariant, ByItself
<1>2. \A a \in Authorities : AuthorityAnyTime(a)'
  BY <1>1, AnyTimeStays DEF ByItself, AnyTime
<1>3. \A q \in Relay : RelayAnyTime(q)'
  <2>1. ASSUME NEW q \in Relay \ {r} PROVE RelayAnyTime(q)'
    BY <1>1, AnyTimeStays DEF ByItself, AnyTime
  <2> QED BY <2>1
<1>4. ClientAnyTime'
  BY <1>1, AnyTimeStays DEF ByItself, AnyTime
<1> QED BY <1>1, <1>2, <1>3, <1>4, TroubleFrame

\* The rest of the system while a relay works by itself.
Elsewhere == ClientKept /\ served' = served /\ \A a \in Authorities : AuthorityKept(a)

\* Where a relay is on its way through this epoch.
LEMMA OnItsWay ==
  ASSUME AnyTime, NEW r \in Relay, RelayOnTime(r),
         relay_pc[r] \in {"register", "wait_finish"} \cup Fetched
  PROVE  /\ relay_epoch[r].registration = Last /\ Participates(r) /\ ~HasSwapped(r) /\ ~Beginning
         /\ Within(0, ALLOCATION_START) =>
              relay_pc[r] \in {"wait_registration", "register", "wait_finish"}
         /\ Within(ALLOCATION_START, ALLOCATION_FINISH) => relay_pc[r] = "wait_finish"
         /\ Within(ALLOCATION_FINISH, SWITCHOVER) => relay_pc[r] \in {"wait_finish"} \cup Fetched
         /\ Within(SWITCHOVER, EPOCH_DURATION) => relay_pc[r] = "wait_switchover"
<1>1. relay_pc[r] \notin {"off", "dead", "wait_registration", "swap"}
  BY DEF Fetched
<1> QED BY <1>1 DEF RelayOnTime, HasSwapped, Participates

LEMMA StartRelayKeeps ==
  ASSUME CalmInvariant, NEW r \in Relay, TimeKept, Elsewhere, StartRelay(r)
  PROVE  Keeps
<1>1. AnyTime /\ RelayAnyTime(r) /\ Maps /\ now \in Int /\ Last \in Int
  BY Schedule DEF CalmInvariant, AnyTime
<1>2. /\ relay_pc[r] = "off" /\ relay_pc'[r] = "wait_registration"
      /\ relay_epoch'[r] = next(now) /\ live_authorities[r] = <<>>
      /\ drawn'[r] = drawn[r] /\ next_authorities'[r] = next_authorities[r]
      /\ live_authorities'[r] = live_authorities[r]
  BY <1>1 DEF StartRelay, GoTo, Maps, RelayAnyTime
<1>3. ByItself(r)
  BY <1>1 DEF StartRelay, GoTo, Maps, Elsewhere, ByItself, RelayKept
<1>4. Last' = Last /\ now' = now
  BY CalmKept DEF TimeKept
<1>5. IsEpoch(relay_epoch'[r]) /\ relay_epoch'[r].registration = Last + EPOCH_DURATION
  BY <1>1, <1>2, Upcoming
<1>6. RelayAnyTime(r)'
  <2>1. IsEpoch(relay_epoch[r])'
    BY <1>5 DEF IsEpoch, RegistrationTime
  <2> QED BY <1>1, <1>2, <1>4, <1>5, <2>1, EpochAssumption DEF RelayAnyTime, Fetched, IsSequence
<1>7. ~HasSwapped(r) /\ ~HasSwapped(r)' /\ ~Participates(r) /\ ~Participates(r)'
  BY <1>1, <1>2, <1>4, <1>5, EpochAssumption DEF HasSwapped, Participates
<1>8. RelayOnTime(r)' /\ KeysFetched(r)' /\ used_key(r)' = used_key(r)
  BY <1>2, <1>4, <1>5, <1>7 DEF RelayOnTime, KeysFetched, used_key
<1>9. RelayGoesOn(r)
  BY <1>2, <1>6, <1>7, <1>8 DEF RelayGoesOn, Registered, Present
<1> QED BY <1>3, <1>9, RelayAlone

LEMMA BeginRegistrationKeeps ==
  ASSUME CalmInvariant, NEW r \in Relay, TimeKept, Elsewhere, BeginRegistration(r)
  PROVE  Keeps
<1>1. /\ AnyTime /\ RelayAnyTime(r) /\ Maps /\ now \in Int /\ Last \in Int
      /\ now < Last + EPOCH_DURATION /\ (Calm => RelayOnTime(r)) /\ (CalmForTwo => Calm)
  BY Schedule, CalmIsLess DEF CalmInvariant, AnyTime, OnTime
<1>2. /\ relay_pc[r] = "wait_registration" /\ relay_pc'[r] = "register"
      /\ relay_epoch[r].registration <= now /\ contacted'[r] = 0
      /\ relay_epoch'[r] = relay_epoch[r]
      /\ drawn'[r] = drawn[r] + 1 /\ next_authorities'[r] = next_authorities[r]
      /\ live_authorities'[r] = live_authorities[r]
  BY <1>1 DEF BeginRegistration, GoTo, has_come, Maps
<1>3. ByItself(r)
  BY <1>1 DEF BeginRegistration, GoTo, Maps, Elsewhere, ByItself, RelayKept
<1>4. /\ Last' = Last /\ now' = now /\ Beginning' = Beginning
      /\ \A s, t : Within(s, t)' = Within(s, t)
  BY CalmKept DEF TimeKept
<1>5. RelayAnyTime(r)'
  <2>1. IsEpoch(relay_epoch[r])'
    BY <1>1, <1>2 DEF RelayAnyTime, IsEpoch, RegistrationTime
  <2> QED BY <1>1, <1>2, <1>4, <2>1 DEF RelayAnyTime, Fetched, IsSequence
<1>6. ~HasSwapped(r) /\ ~HasSwapped(r)' /\ (Participates(r)' <=> Participates(r))
  <2>1. relay_epoch[r].registration # Last + EPOCH_DURATION
    BY <1>1, <1>2, EpochAssumption
  <2> QED BY <1>1, <1>2, <1>4, <2>1 DEF HasSwapped, Participates
<1>7. Calm => ~Beginning /\ Within(0, ALLOCATION_START) /\ relay_epoch[r].registration = Last
  <2>1. relay_epoch[r].registration # Last + EPOCH_DURATION
    BY <1>1, <1>2, EpochAssumption
  <2>2. Calm => /\ relay_epoch[r].registration = Last /\ ~Beginning
                /\ ~Within(ALLOCATION_START, ALLOCATION_FINISH)
                /\ ~Within(ALLOCATION_FINISH, SWITCHOVER) /\ ~Within(SWITCHOVER, EPOCH_DURATION)
    BY <1>1, <1>2, <1>6, <2>1 DEF RelayOnTime, Fetched
  <2> QED BY <1>1, <2>2, HasComeIs
<1>8. Calm => RelayOnTime(r)'
  <2>1. Within(0, ALLOCATION_START) =>
          /\ ~Within(ALLOCATION_START, ALLOCATION_FINISH)
          /\ ~Within(ALLOCATION_FINISH, SWITCHOVER) /\ ~Within(SWITCHOVER, EPOCH_DURATION)
    BY <1>1, EpochAssumption DEF Within
  <2> QED BY <1>2, <1>4, <1>7, <2>1 DEF RelayOnTime
<1>9. KeysFetched(r)'
  BY <1>2, <1>6 DEF KeysFetched, Fetched
<1>10. \A a \in Authorities : r \notin Registered(a) /\ r \notin Registered(a)'
  BY <1>2 DEF Registered, Authorities
<1>11. RelayGoesOn(r)
  BY <1>1, <1>2, <1>5, <1>6, <1>7, <1>8, <1>9, <1>10 DEF RelayGoesOn
<1> QED BY <1>3, <1>11, RelayAlone

LEMMA BeginFetchKeeps ==
  ASSUME CalmInvariant, NEW r \in Relay, TimeKept, Elsewhere, BeginFetch(r)
  PROVE  Keeps
<1>1. /\ AnyTime /\ RelayAnyTime(r) /\ Maps /\ now \in Int /\ Last \in Int
      /\ (Calm => RelayOnTime(r)) /\ (CalmForTwo => Calm)
  BY Schedule, CalmIsLess DEF CalmInvariant, AnyTime, OnTime
<1>2. /\ relay_pc[r] = "wait_finish" /\ relay_pc'[r] = "fetch_public"
      /\ relay_epoch[r].allocation_finish <= now /\ relay_epoch'[r] = relay_epoch[r]
      /\ drawn'[r] = drawn[r] /\ next_authorities'[r] = <<>>
      /\ live_authorities'[r] = live_authorities[r]
  BY <1>1 DEF BeginFetch, GoTo, has_come, Maps
<1>3. ByItself(r)
  BY <1>1 DEF BeginFetch, GoTo, Maps, Elsewhere, ByItself, RelayKept
<1>4. /\ Last' = Last /\ now' = now /\ Beginning' = Beginning
      /\ \A s, t : Within(s, t)' = Within(s, t)
  BY CalmKept DEF TimeKept
<1>5. RelayAnyTime(r)'
  <2>1. IsEpoch(relay_epoch[r])' /\ IsSequence(next_authorities[r])'
    BY <1>1, <1>2 DEF RelayAnyTime, IsEpoch, RegistrationTime, IsSequence
  <2> QED BY <1>1, <1>2, <1>4, <2>1 DEF RelayAnyTime, Fetched, IsSequence
<1>6. ~HasSwapped(r) /\ ~HasSwapped(r)' /\ (Participates(r)' <=> Participates(r))
  BY <1>1, <1>2, <1>4 DEF HasSwapped, Participates
<1>7. Calm => /\ ~Beginning /\ Within(ALLOCATION_FINISH, SWITCHOVER)
              /\ Within(ALLOCATION_FINISH, EPOCH_DURATION)
              /\ ~Within(0, ALLOCATION_START) /\ ~Within(ALLOCATION_START, ALLOCATION_FINISH)
              /\ ~Within(SWITCHOVER, EPOCH_DURATION)
              /\ relay_epoch[r].registration = Last
  <2>1. relay_epoch[r].allocation_finish = relay_epoch[r].registration + ALLOCATION_FINISH
    BY <1>1, InstantsAre DEF RelayAnyTime
  <2> QED BY <1>1, <1>2, <2>1, OnItsWay, HasComeIs
<1>8. Calm => RelayOnTime(r)'
  BY <1>2, <1>4, <1>7 DEF RelayOnTime, Fetched
<1>9. KeysFetched(r)' /\ used_key(r)' = used_key(r)
  BY <1>2, <1>6 DEF KeysFetched, Fetched, used_key
<1>10. RelayGoesOn(r)
  BY <1>1, <1>2, <1>5, <1>6, <1>7, <1>8, <1>9 DEF RelayGoesOn
<1> QED BY <1>3, <1>10, RelayAlone

LEMMA FetchPublicKeyKeeps ==
  ASSUME CalmInvariant, NEW r \in Relay, TimeKept, Elsewhere,
         FetchPublicKey(r, get_next_public_key(Fetching(r)))
  PROVE  Keeps
<1>1. /\ AnyTime /\ RelayAnyTime(r) /\ Maps /\ now \in Int /\ Last \in Int
      /\ (Calm => OnTime /\ RelayOnTime(r)) /\ (CalmForTwo => Calm)
      /\ (CalmForTwo => KeysFetched(r))
  BY Schedule, CalmIsLess DEF CalmInvariant, AnyTime, OnTime, FreshKeysAgree
<1>2. /\ relay_pc[r] = "fetch_public" /\ relay_pc'[r] = "fetch_keys"
      /\ public_key'[r] = Coming(Fetching(r)).params /\ relay_epoch'[r] = relay_epoch[r]
      /\ drawn'[r] = drawn[r] /\ next_authorities'[r] = next_authorities[r]
      /\ live_authorities'[r] = live_authorities[r]
  BY <1>1 DEF FetchPublicKey, get_next_public_key, GoTo, Maps
<1>3. ByItself(r)
  BY <1>1 DEF FetchPublicKey, GoTo, Maps, Elsewhere, ByItself, RelayKept
<1>4. /\ Last' = Last /\ now' = now /\ Beginning' = Beginning
      /\ \A s, t : Within(s, t)' = Within(s, t)
  BY CalmKept DEF TimeKept
<1>5. RelayAnyTime(r)'
  <2>1. /\ IsEpoch(relay_epoch[r])'
        /\ relay_epoch[r].allocation_finish <= now
    BY <1>1, <1>2 DEF RelayAnyTime, IsEpoch, RegistrationTime, Fetched
  <2> QED BY <1>1, <1>2, <1>4, <2>1 DEF RelayAnyTime, Fetched, IsSequence
<1>6. ~HasSwapped(r) /\ ~HasSwapped(r)' /\ (Participates(r)' <=> Participates(r))
  BY <1>1, <1>2, <1>4 DEF HasSwapped, Participates
<1>7. Calm => /\ ~Beginning /\ Within(ALLOCATION_FINISH, SWITCHOVER)
              /\ Within(ALLOCATION_FINISH, EPOCH_DURATION)
              /\ ~Within(0, ALLOCATION_START) /\ ~Within(ALLOCATION_START, ALLOCATION_FINISH)
              /\ ~Within(SWITCHOVER, EPOCH_DURATION)
              /\ relay_epoch[r].registration = Last /\ Participates(r)
  BY <1>1, <1>2, OnItsWay, HasComeIs DEF Fetched
<1>8. Calm => RelayOnTime(r)'
  BY <1>2, <1>4, <1>7 DEF RelayOnTime, Fetched
<1>9. used_key(r)' = used_key(r) /\ Fetching(r)' = Fetching(r)
  BY <1>2 DEF used_key, Fetching
<1>10. ASSUME CalmForTwo PROVE KeysFetched(r)'
  <2>1. /\ DOMAIN next_authorities[r] \subseteq Authorities
        /\ Len(next_authorities[r]) \in {0, 1} /\ Fetching(r) \in Authorities
    BY <1>1, <1>2, <1>7, <1>10, AnswersAre DEF Fetched
  <2>2. \A a \in Authorities : Fresh(a) = Coming(a) /\ Fresh(a)' = Fresh(a)
    <3>1. \A a \in Authorities : Fresh(a) = Coming(a)
      BY <1>1, <1>7, <1>10, AllocationTimes
    <3>2. \A a \in Authorities : Fresh(a)' = Fresh(a)
      BY AuthorityStays DEF Elsewhere
    <3> QED BY <3>1, <3>2
  <2>3. \A a \in DOMAIN next_authorities[r] :
          IsGiven(next_authorities[r][a], Fresh(a), used_key(r))
    BY <1>1, <1>2, <1>7, <1>10 DEF KeysFetched, Fetched
  <2> QED BY <1>2, <1>6, <1>9, <2>1, <2>2, <2>3 DEF KeysFetched
<1>11. RelayGoesOn(r)
  BY <1>1, <1>2, <1>5, <1>6, <1>7, <1>8, <1>9, <1>10 DEF RelayGoesOn
<1> QED BY <1>3, <1>11, RelayAlone

\* A sequence remains one when something is appended to it.
LEMMA Appended ==
  ASSUME NEW s, IsSequence(s), NEW x
  PROVE  /\ IsSequence(Append(s, x)) /\ Len(Append(s, x)) = Len(s) + 1 /\ Len(s) \in Nat
         /\ DOMAIN Append(s, x) = DOMAIN s \cup {Len(s) + 1}
         /\ \A i \in DOMAIN s : Append(s, x)[i] = s[i] /\ i \in 1..Len(s)
         /\ Append(s, x)[Len(s) + 1] = x
<1> DEFINE S == {s[i] : i \in DOMAIN s}
           T == S \cup {x}
           n == Append(s, x)
<1>1. s \in Seq(T)
  BY DEF IsSequence
<1> HIDE DEF T
<1>2. /\ n \in Seq(T) /\ Len(n) = Len(s) + 1 /\ Len(s) \in Nat
      /\ DOMAIN n = 1..Len(s) + 1 /\ DOMAIN s = 1..Len(s)
      /\ \A i \in 1..Len(s) : n[i] = s[i]
      /\ n[Len(s) + 1] = x
  <2>1. x \in T
    BY DEF T
  <2> QED BY <1>1, <2>1
<1>3. DOMAIN n = DOMAIN s \cup {Len(s) + 1}
  BY <1>2
<1> HIDE DEF n
<1>4. n \in Seq({n[i] : i \in DOMAIN n})
  <2>1. DOMAIN n = 1..Len(n) /\ Len(n) \in Nat
    BY <1>2
  <2>2. n = [i \in 1..Len(n) |-> n[i]]
    BY <1>2, <2>1
  <2> QED BY <2>1, <2>2
<1> QED BY <1>2, <1>3, <1>4 DEF n, IsSequence

LEMMA FetchKeysKeeps ==
  ASSUME CalmInvariant, NEW r \in Relay, TimeKept, Elsewhere, NumAuthorities = 2,
         FetchKeys(r, get_hibe_keys(Fetching(r), used_key(r)))
  PROVE  Keeps
<1> DEFINE n == next_authorities[r]
           f == Len(n) + 1
           kept == LiveAuthority(public_key[r], get_hibe_keys(f, used_key(r)), used_key(r))
<1>1. /\ AnyTime /\ RelayAnyTime(r) /\ Maps /\ now \in Int /\ Last \in Int
      /\ (Calm => OnTime /\ RelayOnTime(r)) /\ (CalmForTwo => Calm)
      /\ (CalmForTwo => FreshKeysAgree /\ KeysFetched(r))
  BY Schedule, CalmIsLess DEF CalmInvariant, AnyTime, OnTime, FreshKeysAgree
<1>2. /\ relay_pc[r] = "fetch_keys"
      /\ relay_pc'[r] = IF f = 2 THEN "wait_switchover" ELSE "fetch_public"
      /\ relay_epoch'[r] = relay_epoch[r]
      /\ drawn'[r] = drawn[r] /\ next_authorities'[r] = Append(n, kept)
      /\ live_authorities'[r] = live_authorities[r]
  BY <1>1 DEF FetchKeys, Fetching, GoTo, Maps
<1>3. ByItself(r)
  BY <1>1 DEF FetchKeys, GoTo, Maps, Elsewhere, ByItself, RelayKept
<1>4. /\ Last' = Last /\ now' = now /\ Beginning' = Beginning
      /\ \A s, t : Within(s, t)' = Within(s, t)
  BY CalmKept DEF TimeKept
<1>5. RelayAnyTime(r)'
  <2>1. /\ IsEpoch(relay_epoch[r])'
        /\ relay_epoch[r].allocation_finish <= now
    BY <1>1, <1>2 DEF RelayAnyTime, IsEpoch, RegistrationTime, Fetched
  <2>2. IsSequence(next_authorities[r])'
    <3>1. IsSequence(n)
      BY <1>1 DEF RelayAnyTime
    <3> HIDE DEF n, kept
    <3>2. IsSequence(Append(n, kept))
      BY <3>1, Appended
    <3> QED BY <1>2, <3>2 DEF IsSequence
  <2>3. IsSequence(live_authorities[r])'
    BY <1>1, <1>2 DEF RelayAnyTime, IsSequence
  <2> QED BY <1>1, <1>2, <1>4, <2>1, <2>2, <2>3 DEF RelayAnyTime, Fetched
<1>6. ~HasSwapped(r) /\ ~HasSwapped(r)' /\ (Participates(r)' <=> Participates(r))
  BY <1>1, <1>2, <1>4 DEF HasSwapped, Participates
<1>7. Calm => /\ ~Beginning /\ Within(ALLOCATION_FINISH, SWITCHOVER)
              /\ Within(ALLOCATION_FINISH, EPOCH_DURATION)
              /\ ~Within(0, ALLOCATION_START) /\ ~Within(ALLOCATION_START, ALLOCATION_FINISH)
              /\ ~Within(SWITCHOVER, EPOCH_DURATION)
              /\ relay_epoch[r].registration = Last /\ Participates(r)
  BY <1>1, <1>2, OnItsWay, HasComeIs DEF Fetched
<1>8. Calm => RelayOnTime(r)'
  BY <1>2, <1>4, <1>7 DEF RelayOnTime, Fetched
<1>9. used_key(r)' = used_key(r)
  BY <1>2 DEF used_key
<1>10. ASSUME CalmForTwo PROVE KeysFetched(r)'
  <2>1. /\ DOMAIN n \subseteq Authorities
        /\ Len(n) \in {0, 1} /\ f \in Authorities
    BY <1>1, <1>2, <1>7, <1>10, AnswersAre DEF Fetched, Fetching
  <2>2. \A a \in Authorities : /\ Fresh(a) = Coming(a) /\ Fresh(a)' = Fresh(a)
                               /\ IsFor(Fresh(a), KeyOf)
    <3>1. \A a \in Authorities : Fresh(a) = Coming(a) /\ HasAllocated(a)
      BY <1>1, <1>7, <1>10, AllocationTimes
    <3>2. \A a \in Authorities : Fresh(a)' = Fresh(a)
      BY AuthorityStays DEF Elsewhere
    <3> QED BY <1>1, <1>10, <3>1, <3>2 DEF FreshKeysAgree, AllocationMade
  <2>3. /\ \A a \in DOMAIN n : IsGiven(n[a], Fresh(a), used_key(r))
        /\ public_key[r] = Fresh(f).params
    BY <1>1, <1>2, <1>7, <1>10 DEF KeysFetched, Fetched, Fetching
  <2>4. IsGiven(kept, Fresh(f), used_key(r))
    <3>1. used_key(r) \in DOMAIN Fresh(f).allocations
      <4>1. r \in Present
        BY <1>7, <1>1, <1>10 DEF Present
      <4> QED BY <2>1, <2>2, <4>1, KeysDiffer DEF IsFor
    <3>2. kept.public_key = public_key[r] /\ kept.received_keys = get_hibe_keys(f, used_key(r))
      BY DEF LiveAuthority
    <3> HIDE DEF kept
    <3> QED BY <2>1, <2>2, <2>3, <3>1, <3>2 DEF IsGiven, get_hibe_keys, A!get_hibe_keys
  <2>5. /\ Len(Append(n, kept)) = Len(n) + 1
        /\ DOMAIN Append(n, kept) = DOMAIN n \cup {f}
        /\ \A i \in DOMAIN n : Append(n, kept)[i] = n[i]
        /\ Append(n, kept)[f] = kept
    <3>1. IsSequence(n)
      BY <1>1 DEF RelayAnyTime
    <3> HIDE DEF n, kept
    <3> QED BY <3>1, Appended
  <2>6. \A a \in DOMAIN Append(n, kept) : IsGiven(Append(n, kept)[a], Fresh(a)', used_key(r))
    <3> HIDE DEF n, kept, f
    <3> QED BY <2>1, <2>2, <2>3, <2>4, <2>5
  <2>7. Len(next_authorities'[r]) \in IF relay_pc'[r] = "wait_switchover" THEN {2} ELSE {0, 1}
    BY <1>2, <2>1, <2>5
  <2>8. \A a \in DOMAIN next_authorities'[r] :
          IsGiven(next_authorities'[r][a], Fresh(a)', used_key(r)')
    BY <1>2, <1>9, <2>6
  <2> QED BY <1>2, <1>6, <2>7, <2>8 DEF KeysFetched, IsGiven
<1>11. RelayGoesOn(r)
  BY <1>1, <1>2, <1>5, <1>6, <1>7, <1>8, <1>9, <1>10 DEF RelayGoesOn
<1> QED BY <1>3, <1>11, RelayAlone

LEMMA ReachSwitchoverKeeps ==
  ASSUME CalmInvariant, NEW r \in Relay, TimeKept, Elsewhere, ReachSwitchover(r)
  PROVE  Keeps
<1>1. /\ AnyTime /\ RelayAnyTime(r) /\ Maps /\ now \in Int /\ Last \in Int
      /\ (Calm => RelayOnTime(r)) /\ (CalmForTwo => Calm) /\ (CalmForTwo => KeysFetched(r))
  BY Schedule, CalmIsLess DEF CalmInvariant, AnyTime, OnTime, FreshKeysAgree
<1>2. /\ relay_pc[r] = "wait_switchover" /\ relay_pc'[r] = "swap"
      /\ relay_epoch[r].switchover <= now /\ relay_epoch'[r] = next(now)
      /\ drawn'[r] = drawn[r] /\ next_authorities'[r] = next_authorities[r]
      /\ live_authorities'[r] = live_authorities[r]
  BY <1>1 DEF ReachSwitchover, GoTo, has_come, Maps
<1>3. ByItself(r)
  BY <1>1 DEF ReachSwitchover, GoTo, Maps, Elsewhere, ByItself, RelayKept
<1>4. /\ Last' = Last /\ now' = now /\ Beginning' = Beginning
      /\ \A s, t : Within(s, t)' = Within(s, t)
  BY CalmKept DEF TimeKept
<1>5. IsEpoch(relay_epoch'[r]) /\ relay_epoch'[r].registration = Last + EPOCH_DURATION
  BY <1>1, <1>2, Upcoming
<1>6. RelayAnyTime(r)'
  <2>1. IsEpoch(relay_epoch[r])'
    BY <1>5 DEF IsEpoch, RegistrationTime
  <2> QED BY <1>1, <1>2, <1>4, <1>5, <2>1, EpochAssumption DEF RelayAnyTime, Fetched, IsSequence
<1>7. ~HasSwapped(r) /\ ~HasSwapped(r)' /\ Participates(r)'
  BY <1>2 DEF HasSwapped, Participates
<1>8. Calm => /\ ~Beginning /\ Within(SWITCHOVER, EPOCH_DURATION)
              /\ Within(ALLOCATION_FINISH, EPOCH_DURATION) /\ Participates(r)
  <2>1. relay_epoch[r].switchover = relay_epoch[r].registration + SWITCHOVER
    BY <1>1, InstantsAre DEF RelayAnyTime
  <2> QED BY <1>1, <1>2, <2>1, OnItsWay, HasComeIs DEF Fetched
<1>9. Calm => RelayOnTime(r)'
  BY <1>2, <1>4, <1>5, <1>8 DEF RelayOnTime
<1>10. used_key(r)' = used_key(r)
  BY <1>2 DEF used_key
<1>11. ASSUME CalmForTwo PROVE KeysFetched(r)'
  <2>1. /\ DOMAIN next_authorities[r] \subseteq Authorities
        /\ Len(next_authorities[r]) = 2
    BY <1>1, <1>2, <1>8, <1>11, AnswersAre DEF Fetched
  <2>2. \A a \in Authorities : Fresh(a)' = Fresh(a)
    BY AuthorityStays DEF Elsewhere
  <2>3. \A a \in DOMAIN next_authorities[r] :
          IsGiven(next_authorities[r][a], Fresh(a), used_key(r))
    BY <1>1, <1>2, <1>8, <1>11 DEF KeysFetched, Fetched
  <2> QED BY <1>2, <1>7, <1>10, <2>1, <2>2, <2>3 DEF KeysFetched
<1>12. RelayGoesOn(r)
  BY <1>1, <1>2, <1>6, <1>7, <1>8, <1>9, <1>10, <1>11 DEF RelayGoesOn
<1> QED BY <1>3, <1>12, RelayAlone

LEMMA SwapKeeps ==
  ASSUME CalmInvariant, NEW r \in Relay, TimeKept, Elsewhere, Swap(r)
  PROVE  Keeps
<1>1. /\ AnyTime /\ RelayAnyTime(r) /\ Maps /\ now \in Int /\ Last \in Int
      /\ (Calm => RelayOnTime(r)) /\ (CalmForTwo => Calm) /\ (CalmForTwo => KeysFetched(r))
  BY Schedule, CalmIsLess DEF CalmInvariant, AnyTime, OnTime, FreshKeysAgree
<1>2. /\ relay_pc[r] = "swap" /\ relay_pc'[r] = "wait_registration"
      /\ relay_epoch'[r] = relay_epoch[r]
      /\ drawn'[r] = drawn[r] /\ next_authorities'[r] = <<>>
      /\ live_authorities'[r] = next_authorities[r]
  BY <1>1 DEF Swap, GoTo, Maps
<1>3. ByItself(r)
  BY <1>1 DEF Swap, GoTo, Maps, Elsewhere, ByItself, RelayKept
<1>4. /\ Last' = Last /\ now' = now /\ Beginning' = Beginning
      /\ \A s, t : Within(s, t)' = Within(s, t)
  BY CalmKept DEF TimeKept
<1>5. RelayAnyTime(r)'
  <2>1. IsEpoch(relay_epoch[r])' /\ IsSequence(next_authorities[r])' /\ IsSequence(live_authorities[r])'
    BY <1>1, <1>2 DEF RelayAnyTime, IsEpoch, RegistrationTime, IsSequence
  <2> QED BY <1>1, <1>2, <1>4, <2>1 DEF RelayAnyTime, Fetched
<1>6. ~HasSwapped(r) /\ Participates(r)
  BY <1>2 DEF HasSwapped, Participates
<1>7. Calm => /\ ~Beginning /\ Within(SWITCHOVER, EPOCH_DURATION)
              /\ Within(ALLOCATION_FINISH, EPOCH_DURATION)
              /\ relay_epoch[r].registration = Last + EPOCH_DURATION
  <2>1. relay_pc[r] \notin {"off", "dead", "wait_registration", "register", "wait_finish"} \cup Fetched
    BY <1>2 DEF Fetched
  <2> QED BY <1>1, <1>2, <1>6, <2>1, HasComeIs DEF RelayOnTime
<1>8. Calm => RelayOnTime(r)'
  BY <1>2, <1>4, <1>7 DEF RelayOnTime, HasSwapped
<1>9. used_key(r)' = used_key(r)
  BY <1>2 DEF used_key
<1>10. ASSUME CalmForTwo PROVE KeysFetched(r)' /\ HasSwapped(r)' /\ Participates(r)'
  <2> DEFINE n == next_authorities[r]
  <2>1. Len(n) = 2 /\ DOMAIN n = 1..Len(n) /\ DOMAIN n \subseteq Authorities
    BY <1>1, <1>2, <1>6, AnswersAre, <1>10
  <2>2. HasSwapped(r)'
    <3>1. n # <<>>
      BY <2>1, SMTT(60)
    <3> QED BY <1>1, <1>2, <1>4, <1>7, <1>10, <3>1 DEF HasSwapped
  <2>3. \A a \in Authorities : Fresh(a)' = Fresh(a)
    BY AuthorityStays DEF Elsewhere
  <2>4. \A a \in Authorities : IsGiven(n[a], Fresh(a), used_key(r))
    <3>1. \A a \in DOMAIN n : IsGiven(n[a], Fresh(a), used_key(r))
      BY <1>1, <1>2, <1>6, <1>10 DEF KeysFetched
    <3> QED BY <2>1, <3>1 DEF Authorities
  <2>5. KeysFetched(r)'
    BY <1>2, <1>9, <2>1, <2>3, <2>4 DEF KeysFetched, Fetched
  <2> QED BY <2>2, <2>5 DEF Participates
<1>11. RelayGoesOn(r)
  BY <1>1, <1>2, <1>5, <1>6, <1>7, <1>8, <1>9, <1>10, CalmIsLess DEF RelayGoesOn
<1> QED BY <1>3, <1>11, RelayAlone

\* A relay crashes, or its epoch task dies.
LEMMA RelayFailsKeeps ==
  ASSUME CalmInvariant, NEW r \in Relay, now' = now, trouble' = now, Elsewhere,
         CrashRelay(r) \/ TaskFails(r)
  PROVE  Keeps
<1>1. AnyTime /\ RelayAnyTime(r) /\ Maps /\ Last' = Last
  BY DEF CalmInvariant, AnyTime, Last
<1>2. ByItself(r) /\ RelayAnyTime(r)'
  <2>1. CASE CrashRelay(r)
    <3>1. /\ relay_pc'[r] = "off" /\ relay_epoch'[r] = relay_epoch[r]
          /\ drawn'[r] = drawn[r] /\ next_authorities'[r] = <<>> /\ live_authorities'[r] = <<>>
      BY <1>1, <2>1 DEF CrashRelay, GoTo, Maps
    <3>2. IsEpoch(relay_epoch[r])' /\ IsSequence(next_authorities[r])' /\ IsSequence(live_authorities[r])'
      BY <1>1, <3>1 DEF RelayAnyTime, IsEpoch, RegistrationTime, IsSequence
    <3>3. RelayAnyTime(r)'
      BY <1>1, <3>1, <3>2 DEF RelayAnyTime, Fetched
    <3> QED BY <1>1, <2>1, <3>3 DEF CrashRelay, GoTo, Maps, Elsewhere, ByItself, RelayKept
  <2>2. CASE TaskFails(r)
    <3>1. /\ relay_pc'[r] = "dead" /\ relay_epoch'[r] = relay_epoch[r]
          /\ drawn'[r] = drawn[r] /\ next_authorities'[r] = next_authorities[r]
          /\ live_authorities'[r] = live_authorities[r]
      BY <1>1, <2>2 DEF TaskFails, GoTo, Maps
    <3>2. IsEpoch(relay_epoch[r])' /\ IsSequence(next_authorities[r])' /\ IsSequence(live_authorities[r])'
      BY <1>1, <3>1 DEF RelayAnyTime, IsEpoch, RegistrationTime, IsSequence
    <3>3. RelayAnyTime(r)'
      BY <1>1, <3>1, <3>2 DEF RelayAnyTime, Fetched
    <3> QED BY <1>1, <2>2, <3>3 DEF TaskFails, GoTo, Maps, Elsewhere, ByItself, RelayKept
  <2> QED BY <2>1, <2>2
<1> QED BY <1>2, RelayTrouble

\* A registration has been answered, or was lost.
LEMMA RegisteredWithIs ==
  ASSUME AnyTime, NumAuthorities = 2, NEW r \in Relay, NEW a \in Authorities, RegisteredWith(r, a)
  PROVE  /\ relay_pc[r] = "register" /\ contacted[r] + 1 = a /\ contacted'[r] = a
         /\ relay_pc'[r] = IF a = 2 THEN "wait_finish" ELSE "register"
         /\ relay_epoch'[r] = relay_epoch[r] /\ drawn'[r] = drawn[r]
         /\ next_authorities'[r] = next_authorities[r] /\ live_authorities'[r] = live_authorities[r]
         /\ \A q \in Relay \ {r} : RelayKept(q)
         /\ served' = served => Maps'
         /\ now' = now => RelayAnyTime(r)'
<1>1. RelayAnyTime(r) /\ Maps
  BY DEF AnyTime
<1>2. /\ relay_pc[r] = "register" /\ contacted[r] + 1 = a /\ contacted'[r] = a
      /\ relay_pc'[r] = IF a = 2 THEN "wait_finish" ELSE "register"
      /\ relay_epoch'[r] = relay_epoch[r] /\ drawn'[r] = drawn[r]
      /\ next_authorities'[r] = next_authorities[r] /\ live_authorities'[r] = live_authorities[r]
  BY <1>1 DEF RegisteredWith, GoTo, Maps
<1>3. (\A q \in Relay \ {r} : RelayKept(q)) /\ (served' = served => Maps')
  BY <1>1 DEF RegisteredWith, GoTo, Maps, RelayKept
<1>4. ASSUME now' = now PROVE RelayAnyTime(r)'
  <2>1. IsEpoch(relay_epoch[r])' /\ IsSequence(next_authorities[r])' /\ IsSequence(live_authorities[r])'
    BY <1>1, <1>2 DEF RelayAnyTime, IsEpoch, RegistrationTime, IsSequence
  <2>2. Last' = Last
    BY <1>4 DEF Last
  <2> QED BY <1>1, <1>2, <1>4, <2>1, <2>2 DEF RelayAnyTime, Fetched, Authorities
<1> QED BY <1>2, <1>3, <1>4

LEMMA RegistrationLostKeeps ==
  ASSUME CalmInvariant, NumAuthorities = 2, NEW r \in Relay, NEW a \in Authorities,
         now' = now, trouble' = now, Elsewhere, RegisteredWith(r, a)
  PROVE  Keeps
<1>1. AnyTime
  BY DEF CalmInvariant
<1>2. ByItself(r) /\ RelayAnyTime(r)'
  BY <1>1, RegisteredWithIs DEF Elsewhere, ByItself
<1> QED BY <1>2, RelayTrouble

\* Authority a takes the registration of relay r.
Listens(r, a) ==
  /\ Requests(a)' = <<Requests(a)[1], A!insert(New(a), used_key(r), r, WeightOf[r])>>
  /\ \A b \in Authorities \ {a} : Requests(b)' = Requests(b)

\* What insert() does to requests.
LEMMA Inserted ==
  ASSUME NEW reqs, IdsDiffer(reqs), NEW key, NEW address, NEW weight
  PROVE  /\ IdsDiffer(A!insert(reqs, key, address, weight))
         /\ DOMAIN A!insert(reqs, key, address, weight).requests = DOMAIN reqs.requests \cup {key}
         /\ A!insert(reqs, key, address, weight).requests[key].weight = weight
         /\ A!insert(reqs, key, address, weight).addresses[key] = address
         /\ \A k \in DOMAIN reqs.requests \ {key} :
              /\ A!insert(reqs, key, address, weight).requests[k] = reqs.requests[k]
              /\ A!insert(reqs, key, address, weight).addresses[k] = reqs.addresses[k]
<1> DEFINE after == A!insert(reqs, key, address, weight)
<1>1. /\ DOMAIN after.requests = DOMAIN reqs.requests \cup {key}
      /\ after.requests[key] = [id |-> reqs.counter, weight |-> weight]
      /\ \A k \in DOMAIN reqs.requests \ {key} : after.requests[k] = reqs.requests[k]
  BY DEF A!insert, A!Put
<1>2. /\ DOMAIN after.addresses = DOMAIN reqs.addresses \cup {key}
      /\ after.addresses[key] = address
      /\ \A k \in DOMAIN reqs.addresses \ {key} : after.addresses[k] = reqs.addresses[k]
  BY DEF A!insert, A!Put
<1>3. after.counter = reqs.counter + 1
  BY DEF A!insert
<1> HIDE DEF after
<1>4. /\ reqs.counter \in Nat /\ DOMAIN reqs.addresses = DOMAIN reqs.requests
      /\ IsFiniteSet(DOMAIN reqs.addresses)
      /\ \A k \in DOMAIN reqs.requests : reqs.requests[k].id \in 0..reqs.counter - 1
      /\ \A k, l \in DOMAIN reqs.requests : reqs.requests[k].id = reqs.requests[l].id => k = l
  BY DEF IdsDiffer
<1>5. IsFiniteSet(DOMAIN after.addresses)
  BY <1>2, <1>4, FS_AddElement
<1>6. \A k \in DOMAIN after.requests : after.requests[k].id \in 0..after.counter - 1
  BY <1>1, <1>3, <1>4
<1>7. \A k, l \in DOMAIN after.requests : after.requests[k].id = after.requests[l].id => k = l
  <2>1. \A k \in DOMAIN reqs.requests : reqs.requests[k].id # reqs.counter
    BY <1>4
  <2> QED BY <1>1, <1>4, <2>1
<1>8. IdsDiffer(after)
  BY <1>1, <1>2, <1>3, <1>4, <1>5, <1>6, <1>7 DEF IdsDiffer
<1> QED BY <1>1, <1>2, <1>4, <1>8 DEF after

LEMMA RegistersKeeps ==
  ASSUME CalmInvariant, NumAuthorities = 2, NEW r \in Relay, NEW a \in Authorities,
         TimeKept, ClientKept, served' = served, RegisteredWith(r, a), Listens(r, a),
         \A b \in Authorities : AuthorityRests(b)
  PROVE  Keeps
<1>1. /\ AnyTime /\ (Calm => OnTime) /\ (CalmForTwo => FreshKeysAgree) /\ (CalmForTwo => Calm)
      /\ RelayAnyTime(r) /\ now \in Int /\ Last \in Int /\ now' = now
  BY CalmIsLess, Schedule DEF CalmInvariant, AnyTime, TimeKept
<1>2. /\ relay_pc[r] = "register" /\ contacted[r] + 1 = a /\ contacted'[r] = a
      /\ relay_pc'[r] = IF a = 2 THEN "wait_finish" ELSE "register"
      /\ relay_epoch'[r] = relay_epoch[r] /\ drawn'[r] = drawn[r]
      /\ next_authorities'[r] = next_authorities[r] /\ live_authorities'[r] = live_authorities[r]
      /\ \A q \in Relay \ {r} : RelayKept(q)
      /\ Maps' /\ RelayAnyTime(r)'
  BY <1>1, RegisteredWithIs
<1>3. /\ Last' = Last /\ Calm' = Calm /\ Beginning' = Beginning
      /\ \A s, t : Within(s, t)' = Within(s, t)
  BY CalmKept
<1>4. /\ ~HasSwapped(r) /\ ~HasSwapped(r)' /\ (Participates(r)' <=> Participates(r))
      /\ used_key(r)' = used_key(r)
  BY <1>2, <1>3 DEF HasSwapped, Participates, used_key
<1>5. Calm => /\ relay_epoch[r].registration = Last /\ ~Beginning /\ Participates(r)
              /\ Within(0, ALLOCATION_START)
              /\ ~Within(ALLOCATION_START, ALLOCATION_FINISH)
              /\ ~Within(ALLOCATION_FINISH, SWITCHOVER) /\ ~Within(SWITCHOVER, EPOCH_DURATION)
  BY <1>1, <1>2, OnItsWay, HasComeIs DEF OnTime, Fetched
<1>6. Calm => \A b \in Authorities : ~HasAllocated(b) /\ ~HasAllocated(b)'
  BY <1>1, <1>5, AllocationTimes, AuthorityResting
<1>7. Calm => RelayOnTime(r)'
  BY <1>2, <1>3, <1>5 DEF RelayOnTime
<1>8. KeysFetched(r)'
  BY <1>2, <1>4 DEF KeysFetched, Fetched
<1>9. New(a)' = A!insert(New(a), used_key(r), r, WeightOf[r])
  BY DEF Listens, New
<1>10. \A b \in Authorities \ {a} : New(b)' = New(b)
  BY DEF Listens, New
<1>11. ASSUME NEW b \in Authorities PROVE AuthorityAnyTime(b)'
  <2>1. AuthorityAnyTime(b) /\ IdsDiffer(New(b))
    BY <1>1 DEF AnyTime, AuthorityAnyTime
  <2>2. CASE b # a
    BY <1>1, <1>3, <1>10, <2>1, <2>2
       DEF AuthorityAnyTime, AuthorityRests, ScheduleKept, Listens
  <2>3. CASE b = a
    <3>1. Requests(b)' = <<Requests(b)'[1], New(b)'>>
      BY <1>9, <2>3 DEF Listens
    <3>2. IdsDiffer(New(b)')
      BY <1>9, <2>1, <2>3, Inserted
    <3>3. IdsDiffer(New(b))'
      BY <3>2 DEF IdsDiffer
    <3> QED BY <1>1, <1>3, <2>1, <3>1, <3>3 DEF AuthorityAnyTime, AuthorityRests, ScheduleKept
  <2> QED BY <2>2, <2>3
<1>12. ASSUME CalmForTwo, NEW b \in Authorities PROVE RequestsCollected(b)'
  <2>1. RequestsCollected(b) /\ EpochOf(b).registration = Last /\ Pc(b) = "wait_allocation"
    BY <1>1, <1>5, <1>12, AllocationTimes DEF FreshKeysAgree
  <2>2. /\ DOMAIN New(b).requests = {used_key(q) : q \in Registered(b)}
        /\ \A q \in Registered(b) : /\ New(b).requests[used_key(q)].weight = WeightOf[q]
                                    /\ New(b).addresses[used_key(q)] = q
    BY <2>1 DEF RequestsCollected
  <2>3. \A q \in Relay \ {r} :
          /\ Participates(q)' = Participates(q) /\ used_key(q)' = used_key(q)
          /\ relay_pc'[q] = relay_pc[q] /\ contacted'[q] = contacted[q]
    BY <1>2, RelayStays DEF RelayKept
  <2>4. r \in Present /\ r \in Present'
    BY <1>1, <1>4, <1>5, <1>12 DEF Present
  <2>5. \A q \in Relay : used_key(q)' = used_key(q)
    BY <1>4, <2>3
  <2>6. CASE b # a
    <3>1. r \in Registered(b)' <=> r \in Registered(b)
      <4>1. (b = 1 /\ a = 2) \/ (b = 2 /\ a = 1)
        BY <2>6 DEF Authorities
      <4>2. CASE b = 1 /\ a = 2
        BY <1>2, <2>4, <4>2, <1>1 DEF Registered, RelayAnyTime
      <4>3. CASE b = 2 /\ a = 1
        BY <1>2, <2>4, <4>3, <1>1 DEF Registered, RelayAnyTime
      <4> QED BY <4>1, <4>2, <4>3
    <3>2. Registered(b)' = Registered(b)
      BY <2>3, <3>1 DEF Registered, Present
    <3>3. \A q \in Registered(b) : used_key(q)' = used_key(q)
      BY <2>5 DEF Registered, Present
    <3> QED BY <1>10, <2>2, <2>6, <3>2, <3>3 DEF RequestsCollected
  <2>7. CASE b = a
    <3> DEFINE after == New(b)'
               key == used_key(r)
    <3>1. r \notin Registered(b) /\ r \in Registered(b)'
      BY <1>1, <1>2, <2>4, <2>7 DEF Registered, RelayAnyTime, Authorities
    <3>2. Registered(b)' = Registered(b) \cup {r}
      BY <2>3, <3>1 DEF Registered, Present
    <3>3. /\ DOMAIN after.requests = DOMAIN New(b).requests \cup {key}
          /\ after.requests[key].weight = WeightOf[r] /\ after.addresses[key] = r
          /\ \A k \in DOMAIN New(b).requests \ {key} :
               after.requests[k] = New(b).requests[k] /\ after.addresses[k] = New(b).addresses[k]
      <4>1. IdsDiffer(New(b))
        BY <1>1 DEF AnyTime, AuthorityAnyTime
      <4> QED BY <1>9, <2>7, <4>1, Inserted
    <3>4. \A q \in Registered(b) : used_key(q) # key /\ used_key(q) \in DOMAIN New(b).requests
      BY <2>2, <3>1 DEF used_key
    <3>5. \A q \in Registered(b)' : used_key(q)' = used_key(q)
      BY <2>5 DEF Registered, Present
    <3> HIDE DEF after, key
    <3>6. DOMAIN after.requests = {used_key(q) : q \in Registered(b)'}
      BY <2>2, <3>2, <3>3 DEF key
    <3>7. \A q \in Registered(b)' : /\ after.requests[used_key(q)].weight = WeightOf[q]
                                    /\ after.addresses[used_key(q)] = q
      BY <2>2, <3>2, <3>3, <3>4 DEF key
    <3> QED BY <3>5, <3>6, <3>7 DEF RequestsCollected, after
  <2> QED BY <2>6, <2>7
<1>13. RelayKeepsOn(r)
  BY <1>1, <1>2, <1>4, <1>6, <1>7, <1>8, <1>11, <1>12 DEF RelayKeepsOn, RequestsTaken
<1> QED BY <1>2, <1>13, RelayFrame DEF OnlyRelay

-----------------------------------------------------------------------------
(* What the client does.                                                   *)

\* The rest of the system while the client works.
Apart == AllRelaysKept /\ Maps' /\ \A a \in Authorities : AuthorityKept(a)

LEMMA ClientFrame ==
  ASSUME CalmInvariant, TimeKept, Apart, ClientAnyTime',
         Calm => ClientOnTime' /\ PublicKeysFetched',
         CalmForTwo => \A a \in Authorities : OldPublicKeys(a)'
  PROVE  Keeps
<1>1. /\ AnyTime /\ AllRelaysKept /\ Maps' /\ (\A a \in Authorities : AuthorityKept(a))
      /\ (Calm => OnTime) /\ (CalmForTwo => FreshKeysAgree)
      /\ (CalmForThree => OldAddressesAgree)
      /\ (CalmForThree => CalmForTwo) /\ (CalmForTwo => Calm)
  BY CalmIsLess DEF CalmInvariant, Apart
<1>2. /\ Last' = Last /\ now' = now /\ trouble' = trouble
      /\ Calm' = Calm /\ CalmForTwo' = CalmForTwo /\ CalmForThree' = CalmForThree
  BY CalmKept DEF TimeKept
<1>3. /\ Present' = Present /\ KeyOf' = KeyOf
      /\ \A a \in Authorities : Registered(a)' = Registered(a)
  BY <1>1, RelaysStay
<1>4. \A r \in Relay : /\ RelayKept(r) /\ Participates(r)' = Participates(r)
                       /\ HasSwapped(r)' = HasSwapped(r) /\ used_key(r)' = used_key(r)
                       /\ Fetching(r)' = Fetching(r)
                       /\ RelayAnyTime(r) => RelayAnyTime(r)'
                       /\ RelayOnTime(r) => RelayOnTime(r)'
  BY <1>1, RelayStays DEF AllRelaysKept
<1>5. \A a \in Authorities :
        /\ AuthorityKept(a) /\ HasAllocated(a)' = HasAllocated(a)
        /\ HasAdvanced(a)' = HasAdvanced(a)
        /\ Fresh(a)' = Fresh(a) /\ New(a)' = New(a) /\ Current(a)' = Current(a)
        /\ AuthorityAnyTime(a) => AuthorityAnyTime(a)'
        /\ ServedOnTime(a) => ServedOnTime(a)'
        /\ AuthorityOnTime(a) => AuthorityOnTime(a)'
        /\ RequestsTaken(a) => RequestsTaken(a)'
  BY <1>1, AuthorityStays DEF AuthorityKept
<1>6. AnyTime'
  BY <1>1, <1>2, <1>4, <1>5 DEF AnyTime
<1>7. Calm => OnTime'
  BY <1>1, <1>4, <1>5 DEF OnTime
<1>8. ASSUME CalmForTwo PROVE FreshKeysAgree'
  <2>1. ASSUME NEW a \in Authorities PROVE RequestsCollected(a)' /\ AllocationMade(a)'
    <3>1. RequestsCollected(a) /\ AllocationMade(a)
      BY <1>1, <1>8 DEF FreshKeysAgree
    <3>2. \A r \in Registered(a) : used_key(r)' = used_key(r)
      BY <1>4 DEF Registered, Present
    <3>3. RequestsCollected(a)'
      BY <1>2, <1>3, <1>5, <3>1, <3>2 DEF RequestsCollected, AuthorityKept
    <3>4. AllocationMade(a)'
      BY <1>3, <1>5, <3>1 DEF AllocationMade
    <3> QED BY <3>3, <3>4
  <2>2. ASSUME NEW r \in Relay PROVE KeysFetched(r)'
    <3>1. KeysFetched(r) /\ RelayAnyTime(r)
      BY <1>1, <1>8 DEF FreshKeysAgree, AnyTime
    <3>2. relay_pc[r] \in Fetched \cup {"swap"} /\ Participates(r) =>
            /\ DOMAIN next_authorities[r] \subseteq Authorities
            /\ relay_pc[r] = "fetch_keys" => Fetching(r) \in Authorities
      BY <3>1, AnswersAre DEF Fetched
    <3> QED BY <1>4, <1>5, <3>1, <3>2 DEF KeysFetched, RelayKept
  <2> QED BY <1>8, <2>1, <2>2 DEF FreshKeysAgree
<1>9. ASSUME CalmForThree PROVE OldAddressesAgree'
  <2>1. \A a \in {1, 2}, x \in Identity : get_relay_address(a, x)' = get_relay_address(a, x)
    BY <1>5 DEF get_relay_address, Authorities
  <2> QED BY <1>1, <1>5, <1>9, <2>1 DEF OldAddressesAgree, Authorities
<1>10. CalmInvariant'
  BY <1>2, <1>6, <1>7, <1>8, <1>9 DEF CalmInvariant
<1>11. CalmForThree => OldKeysKept
  BY <1>4, <1>5 DEF OldKeysKept, RelayKept
<1> QED BY <1>2, <1>10, <1>11, OldKeysStay

LEMMA StartClientKeeps ==
  ASSUME CalmInvariant, TimeKept, Apart, C!StartClient, client_since' = client_since
  PROVE  Keeps
<1>1. AnyTime /\ ClientAnyTime
  BY DEF CalmInvariant, AnyTime
<1>2. /\ client_pc' = "fetch_current" /\ client_epoch' = client_epoch
      /\ next_public_keys' = next_public_keys /\ public_keys' = public_keys
  BY DEF C!StartClient
<1>3. Last' = Last /\ now' = now
  BY CalmKept DEF TimeKept
<1>4. ClientAnyTime'
  <2>1. IsEpoch(client_epoch)' /\ IsSequence(next_public_keys)' /\ IsSequence(public_keys)'
    BY <1>1, <1>2 DEF ClientAnyTime, IsEpoch, RegistrationTime, IsSequence
  <2> QED BY <1>1, <1>2, <1>3, <2>1 DEF ClientAnyTime
<1>5. ClientOnTime' /\ PublicKeysFetched' /\ \A a \in Authorities : OldPublicKeys(a)'
  BY <1>2 DEF ClientOnTime, PublicKeysFetched, OldPublicKeys, ClientRuns
<1> QED BY <1>4, <1>5, ClientFrame

LEMMA FetchCurrentKeeps ==
  ASSUME CalmInvariant, TimeKept, Apart, C!FetchCurrent(get_current_public_key(C!Asking)),
         client_since' = now
  PROVE  Keeps
<1> DEFINE fetched == Append(next_public_keys, get_current_public_key(C!Asking))
<1>1. AnyTime /\ ClientAnyTime /\ now \in Nat /\ Last \in Int /\ Last <= now
  BY Schedule DEF CalmInvariant, AnyTime
<1>2. Last' = Last /\ now' = now
  BY CalmKept DEF TimeKept
<1>3. IsSequence(fetched)
  BY <1>1, Appended DEF ClientAnyTime
<1>4. IsEpoch(next(now)) /\ next(now).registration = Last + EPOCH_DURATION
  BY <1>1, Upcoming
<1>5. \/ /\ client_pc' = "fetch_current" /\ client_epoch' = client_epoch
         /\ next_public_keys' = fetched /\ public_keys' = public_keys
      \/ /\ client_pc' = "wait_finish" /\ client_epoch' = next(now)
         /\ next_public_keys' = <<>> /\ public_keys' = fetched
  BY DEF C!FetchCurrent, C!next, next, C!from_registration, from_registration
<1>6. ClientAnyTime'
  <2>1. IsEpoch(client_epoch)'
    BY <1>1, <1>4, <1>5 DEF ClientAnyTime, IsEpoch, RegistrationTime
  <2>2. IsSequence(<<>>)
    BY DEF IsSequence
  <2>3. IsSequence(next_public_keys') /\ IsSequence(public_keys')
    <3> HIDE DEF fetched
    <3> QED BY <1>1, <1>3, <1>5, <2>2 DEF ClientAnyTime
  <2>4. IsSequence(next_public_keys)' /\ IsSequence(public_keys)'
    BY <2>3 DEF IsSequence
  <2>5. /\ client_epoch'.registration <= Last + EPOCH_DURATION
        /\ client_pc' \in {"fetch_current", "wait_finish"}
    BY <1>1, <1>4, <1>5, EpochAssumption DEF ClientAnyTime
  <2> QED BY <1>1, <1>2, <2>1, <2>4, <2>5 DEF ClientAnyTime
<1>7. ClientOnTime' /\ PublicKeysFetched'
  BY <1>1, <1>2, <1>4, <1>5 DEF ClientOnTime, PublicKeysFetched
<1>8. \A a \in Authorities : OldPublicKeys(a)'
  <2>1. client_pc' = "wait_finish" => client_epoch'.registration # Last'
    BY <1>1, <1>2, <1>4, <1>5, EpochAssumption
  <2>2. client_pc' \in {"fetch_current", "wait_finish"}
    BY <1>5
  <2> QED BY <2>1, <2>2 DEF OldPublicKeys, ClientRuns
<1> QED BY <1>6, <1>7, <1>8, ClientFrame

LEMMA BeginRetrievalKeeps ==
  ASSUME CalmInvariant, TimeKept, Apart, C!BeginRetrieval, client_since' = client_since
  PROVE  Keeps
<1>1. /\ AnyTime /\ ClientAnyTime /\ now \in Int /\ Last \in Int /\ Last <= now
      /\ now < Last + EPOCH_DURATION /\ (Calm => ClientOnTime)
      /\ (CalmForTwo => FreshKeysAgree)
  BY Schedule DEF CalmInvariant, AnyTime, OnTime
<1>2. /\ client_pc = "wait_finish" /\ client_epoch.allocation_finish <= now
      /\ client_pc' = "fetch_next" /\ client_epoch' = client_epoch
      /\ next_public_keys' = <<>> /\ public_keys' = public_keys
  BY DEF C!BeginRetrieval, C!has_come
<1>3. /\ Last' = Last /\ now' = now /\ Beginning' = Beginning
      /\ \A s, t : Within(s, t)' = Within(s, t)
  BY CalmKept DEF TimeKept
<1>4. ClientAnyTime'
  <2>1. IsEpoch(client_epoch)' /\ IsSequence(next_public_keys)' /\ IsSequence(public_keys)'
    BY <1>1, <1>2 DEF ClientAnyTime, IsEpoch, RegistrationTime, IsSequence
  <2> QED BY <1>1, <1>2, <1>3, <2>1 DEF ClientAnyTime
<1>5. client_epoch.allocation_finish = client_epoch.registration + ALLOCATION_FINISH
  BY <1>1, InstantsAre DEF ClientAnyTime
<1>6. client_epoch.registration # Last + EPOCH_DURATION
  BY <1>1, <1>2, <1>5, EpochAssumption
<1>7. Calm => /\ client_epoch.registration = Last /\ ~Beginning
              /\ ~Within(0, ALLOCATION_FINISH) /\ ~Within(SWITCHOVER, EPOCH_DURATION)
  BY <1>1, <1>2, <1>5, <1>6, HasComeIs DEF ClientOnTime
<1>8. Calm => ClientOnTime' /\ PublicKeysFetched'
  BY <1>2, <1>3, <1>7 DEF ClientOnTime, PublicKeysFetched
<1>9. CalmForTwo => \A a \in Authorities : OldPublicKeys(a)'
  <2>1. \A a \in Authorities : HasAdvanced(a)' = HasAdvanced(a) /\ Current(a)' = Current(a)
    BY AuthorityStays DEF Apart, AuthorityKept
  <2> QED BY <1>1, <1>2, <1>3, <2>1 DEF FreshKeysAgree, OldPublicKeys, ClientRuns
<1> QED BY <1>4, <1>8, <1>9, ClientFrame

LEMMA FetchNextKeeps ==
  ASSUME CalmInvariant, TimeKept, Apart, NumAuthorities = 2,
         C!FetchNext(get_next_public_key(C!Asking)), client_since' = client_since
  PROVE  Keeps
<1> DEFINE n == next_public_keys
           f == Len(n) + 1
           key == Coming(f).params
<1>1. /\ AnyTime /\ ClientAnyTime /\ now \in Int /\ Last \in Int /\ Last <= now
      /\ now < Last + EPOCH_DURATION /\ (Calm => OnTime /\ ClientOnTime /\ PublicKeysFetched)
      /\ (CalmForTwo => FreshKeysAgree)
  BY Schedule DEF CalmInvariant, AnyTime, OnTime
<1>2. /\ client_pc = "fetch_next" /\ client_epoch' = client_epoch
      /\ client_pc' = IF f = 2 THEN "wait_switchover" ELSE "fetch_next"
      /\ next_public_keys' = Append(n, key) /\ public_keys' = public_keys
  BY DEF C!FetchNext, C!Asking, get_next_public_key
<1>3. /\ Last' = Last /\ now' = now /\ Beginning' = Beginning
      /\ \A s, t : Within(s, t)' = Within(s, t)
  BY CalmKept DEF TimeKept
<1>4. /\ IsSequence(Append(n, key)) /\ Len(Append(n, key)) = f
      /\ DOMAIN Append(n, key) = DOMAIN n \cup {f}
      /\ \A i \in DOMAIN n : Append(n, key)[i] = n[i]
      /\ Append(n, key)[f] = key
  <2>1. IsSequence(n)
    BY <1>1 DEF ClientAnyTime
  <2> HIDE DEF n, key
  <2> QED BY <2>1, Appended
<1>5. ClientAnyTime'
  <2>1. IsEpoch(client_epoch)' /\ IsSequence(public_keys)'
    BY <1>1, <1>2 DEF ClientAnyTime, IsEpoch, RegistrationTime, IsSequence
  <2>2. IsSequence(next_public_keys)'
    <3> HIDE DEF n, key
    <3> QED BY <1>2, <1>4 DEF IsSequence
  <2> QED BY <1>1, <1>2, <1>3, <2>1, <2>2 DEF ClientAnyTime
<1>6. Calm => /\ client_epoch.registration = Last /\ ~Beginning
              /\ Within(ALLOCATION_FINISH, SWITCHOVER)
              /\ ~Within(0, ALLOCATION_FINISH) /\ ~Within(SWITCHOVER, EPOCH_DURATION)
  BY <1>1, <1>2, HasComeIs DEF ClientOnTime
<1>7. Calm => ClientOnTime'
  BY <1>2, <1>3, <1>6 DEF ClientOnTime
<1>8. ASSUME Calm PROVE PublicKeysFetched'
  <2>1. Len(n) \in {0, 1} /\ \A a \in DOMAIN n : n[a] = Fresh(a).params
    BY <1>1, <1>2, <1>6, <1>8 DEF PublicKeysFetched
  <2>2. f \in Authorities /\ DOMAIN n \subseteq Authorities
    <3>1. n \in Seq({n[i] : i \in DOMAIN n})
      BY <1>1 DEF ClientAnyTime, IsSequence
    <3> HIDE DEF n
    <3>2. DOMAIN n = 1..Len(n)
      BY <3>1
    <3>3. \A m \in {0, 1} : m + 1 \in 1..2 /\ 1..m \subseteq 1..2
      OBVIOUS
    <3> QED BY <2>1, <3>2, <3>3 DEF Authorities
  <2>3. \A a \in Authorities : Fresh(a) = Coming(a) /\ Fresh(a)' = Fresh(a)
    <3>1. \A a \in Authorities : Fresh(a) = Coming(a)
      BY <1>1, <1>6, <1>8, AllocationTimes
    <3>2. \A a \in Authorities : Fresh(a)' = Fresh(a)
      BY AuthorityStays DEF Apart
    <3> QED BY <3>1, <3>2
  <2>4. \A a \in DOMAIN Append(n, key) : Append(n, key)[a] = Fresh(a)'.params
    <3>1. key = Fresh(f).params
      BY <2>2, <2>3
    <3> HIDE DEF n, key, f
    <3> QED BY <1>4, <2>1, <2>2, <2>3, <3>1
  <2>5. Len(next_public_keys') \in IF client_pc' = "wait_switchover" THEN {2} ELSE {0, 1}
    BY <1>2, <1>4, <2>1
  <2>6. client_pc' # "wait_finish"
    BY <1>2
  <2> QED BY <1>2, <2>4, <2>5, <2>6 DEF PublicKeysFetched
<1>9. CalmForTwo => \A a \in Authorities : OldPublicKeys(a)'
  <2>1. \A a \in Authorities : HasAdvanced(a)' = HasAdvanced(a) /\ Current(a)' = Current(a)
    BY AuthorityStays DEF Apart, AuthorityKept
  <2> QED BY <1>1, <1>2, <1>3, <2>1 DEF FreshKeysAgree, OldPublicKeys, ClientRuns
<1> QED BY <1>5, <1>7, <1>8, <1>9, ClientFrame

LEMMA SwitchKeysKeeps ==
  ASSUME CalmInvariant, TimeKept, Apart, C!SwitchKeys, client_since' = client_since
  PROVE  Keeps
<1> DEFINE n == next_public_keys
<1>1. /\ AnyTime /\ ClientAnyTime /\ now \in Int /\ Last \in Int /\ Last <= now
      /\ now < Last + EPOCH_DURATION /\ (Calm => OnTime /\ ClientOnTime /\ PublicKeysFetched)
  BY Schedule DEF CalmInvariant, AnyTime, OnTime
<1>2. /\ client_pc = "wait_switchover" /\ client_epoch.switchover <= now
      /\ client_pc' = "wait_finish" /\ client_epoch' = next(now)
      /\ next_public_keys' = <<>> /\ public_keys' = n
  BY DEF C!SwitchKeys, C!has_come, C!next, next, C!from_registration, from_registration
<1>3. /\ Last' = Last /\ now' = now /\ Beginning' = Beginning
      /\ \A s, t : Within(s, t)' = Within(s, t)
  BY CalmKept DEF TimeKept
<1>4. IsEpoch(client_epoch') /\ client_epoch'.registration = Last + EPOCH_DURATION
  BY <1>1, <1>2, Upcoming
<1>5. ClientAnyTime'
  <2>1. IsEpoch(client_epoch)' /\ IsSequence(next_public_keys)' /\ IsSequence(public_keys)'
    BY <1>1, <1>2, <1>4 DEF ClientAnyTime, IsEpoch, RegistrationTime, IsSequence
  <2> QED BY <1>1, <1>2, <1>3, <1>4, <2>1, EpochAssumption DEF ClientAnyTime
<1>6. Calm => /\ client_epoch.registration = Last /\ ~Beginning
              /\ Within(SWITCHOVER, EPOCH_DURATION)
  <2>1. client_epoch.switchover = client_epoch.registration + SWITCHOVER
    BY <1>1, InstantsAre DEF ClientAnyTime
  <2> QED BY <1>1, <1>2, <2>1, HasComeIs DEF ClientOnTime
<1>7. Calm => ClientOnTime'
  BY <1>2, <1>3, <1>4, <1>6 DEF ClientOnTime
<1>8. ASSUME Calm PROVE PublicKeysFetched'
  <2>1. Len(n) = 2 /\ \A a \in DOMAIN n : n[a] = Fresh(a).params
    BY <1>1, <1>2, <1>6, <1>8 DEF PublicKeysFetched
  <2>2. DOMAIN n = Authorities
    <3>1. n \in Seq({n[i] : i \in DOMAIN n})
      BY <1>1 DEF ClientAnyTime, IsSequence
    <3> HIDE DEF n
    <3> QED BY <2>1, <3>1 DEF Authorities
  <2>3. \A a \in Authorities : Fresh(a)' = Fresh(a)
    BY AuthorityStays DEF Apart
  <2> QED BY <1>2, <2>1, <2>2, <2>3 DEF PublicKeysFetched
<1>9. \A a \in Authorities : OldPublicKeys(a)'
  <2>1. client_epoch'.registration # Last'
    BY <1>1, <1>3, <1>4, EpochAssumption
  <2> QED BY <2>1 DEF OldPublicKeys
<1> QED BY <1>5, <1>7, <1>8, <1>9, ClientFrame

LEMMA ClientFailsKeeps ==
  ASSUME CalmInvariant, now' = now, trouble' = now, Apart, C!ClientFetchFails,
         client_since' = client_since
  PROVE  Keeps
<1>1. AnyTime /\ ClientAnyTime /\ Last' = Last
  BY DEF CalmInvariant, AnyTime, Last
<1>2. /\ client_pc' \in {"dead", "wait_finish"} /\ client_epoch' = client_epoch
      /\ next_public_keys' = <<>> /\ public_keys' = public_keys
  BY DEF C!ClientFetchFails
<1>3. ClientAnyTime'
  <2>1. IsEpoch(client_epoch)' /\ IsSequence(next_public_keys)' /\ IsSequence(public_keys)'
    BY <1>1, <1>2 DEF ClientAnyTime, IsEpoch, RegistrationTime, IsSequence
  <2> QED BY <1>1, <1>2, <2>1 DEF ClientAnyTime
<1>4. \A a \in Authorities : AuthorityAnyTime(a)'
  BY <1>1, AnyTimeStays DEF Apart, AnyTime
<1>5. \A r \in Relay : RelayAnyTime(r)'
  BY <1>1, AnyTimeStays DEF Apart, AllRelaysKept, AnyTime
<1> QED BY <1>1, <1>3, <1>4, <1>5, TroubleFrame DEF Apart

-----------------------------------------------------------------------------
(* What the clock does.                                                    *)

\* Where the present epoch begins when the clock ticks.
LEMMA TickLast ==
  ASSUME now \in Nat, now' = now + 1
  PROVE  /\ now + 1 < Last + EPOCH_DURATION => Last' = Last
         /\ now + 1 >= Last + EPOCH_DURATION =>
              Last' = Last + EPOCH_DURATION /\ now + 1 = Last + EPOCH_DURATION
         /\ Last' \in Int /\ Last' <= now' /\ RegistrationTime(Last')
<1>1. /\ RegistrationTime(Last) /\ Last \in Int /\ Last <= now /\ now < Last + EPOCH_DURATION
      /\ EPOCH_DURATION \in Nat
  BY Schedule, EpochAssumption
<1>2. /\ RegistrationTime(Last') /\ Last' \in Int /\ Last' <= now + 1
      /\ now + 1 < Last' + EPOCH_DURATION
  <2> DEFINE n == next(now + 1).registration
  <2>1. /\ RegistrationTime(n) /\ now + 1 < n /\ n <= now + 1 + EPOCH_DURATION
    BY NextIs
  <2>2. Last' = n - EPOCH_DURATION
    <3>1. Last' = now' - ((now' - REGISTRATION) % EPOCH_DURATION)
      BY Zenon DEF Last
    <3>2. now' \in Int /\ n = next(now').registration
      OBVIOUS
    <3> QED BY <3>1, <3>2, RemainderBefore
  <2> HIDE DEF n
  <2>3. RegistrationTime(n - EPOCH_DURATION) /\ n \in Int
    BY <2>1, Instants DEF RegistrationTime
  <2> QED BY <1>1, <2>1, <2>2, <2>3
<1> DEFINE l == Last'
           k == Last
<1>3. l < k => l + EPOCH_DURATION <= k
  BY <1>1, <1>2, Spaced
<1>4. k < l => k + EPOCH_DURATION <= l
  BY <1>1, <1>2, Spaced
<1>5. /\ k \in Int /\ k <= now /\ now < k + EPOCH_DURATION /\ EPOCH_DURATION \in Nat
      /\ l \in Int /\ l <= now + 1 /\ now + 1 < l + EPOCH_DURATION
  BY <1>1, <1>2
<1> HIDE DEF k, l
<1>6. /\ now + 1 < k + EPOCH_DURATION => l = k
      /\ now + 1 >= k + EPOCH_DURATION => l = k + EPOCH_DURATION /\ now + 1 = k + EPOCH_DURATION
  BY <1>3, <1>4, <1>5
<1> QED BY <1>2, <1>6 DEF k, l

AuthorityBusy(a) ==
  \/ Pc(a) = "wait_allocation" /\ EpochOf(a).allocation_start <= now
       /\ Cardinality(DOMAIN New(a).addresses) >= 2
  \/ Pc(a) = "wait_switchover" /\ EpochOf(a).switchover <= now
  \/ Pc(a) \in {"allocate"} \cup Advancing

TooFew(a) ==
  /\ Pc(a) = "wait_allocation" /\ EpochOf(a).allocation_start <= now
  /\ Cardinality(DOMAIN New(a).addresses) < 2

LEMMA QuietIs ==
  /\ Quiet <=> /\ \A a \in Authorities : ~AuthorityBusy(a)
               /\ \A r \in Relay : ~RelayBusy(r)
               /\ ~C!ClientBusy
  /\ A!TooFewRelays <=> TooFew(1)
  /\ B!TooFewRelays <=> TooFew(2)
  /\ "dead" \in {pcA, pcB} <=> \E a \in Authorities : Pc(a) = "dead"
<1>1. (A!Busy <=> AuthorityBusy(1)) /\ (A!TooFewRelays <=> TooFew(1))
  <2>1. /\ Pc(1) = pcA /\ EpochOf(1) = epochA
        /\ A!NumRelays = Cardinality(DOMAIN New(1).addresses)
    <3>1. \A S : A!Cardinality(S) = Cardinality(S)
      BY DEF A!Cardinality, Cardinality
    <3> QED BY <3>1 DEF A!NumRelays, Pc, EpochOf, New, Requests
  <2>2. \A s, t : A!has_come(s, t) <=> s <= t
    BY DEF A!has_come
  <2>3. A!TooFewRelays <=> TooFew(1)
    BY <2>1, <2>2 DEF A!TooFewRelays, TooFew
  <2>4. A!Busy <=> AuthorityBusy(1)
    BY <2>1, <2>2 DEF A!Busy, AuthorityBusy, Advancing
  <2> QED BY <2>3, <2>4
<1>2. (B!Busy <=> AuthorityBusy(2)) /\ (B!TooFewRelays <=> TooFew(2))
  <2>1. /\ Pc(2) = pcB /\ EpochOf(2) = epochB
        /\ B!NumRelays = Cardinality(DOMAIN New(2).addresses)
    <3>1. \A S : B!Cardinality(S) = Cardinality(S)
      BY DEF B!Cardinality, Cardinality
    <3> QED BY <3>1 DEF B!NumRelays, Pc, EpochOf, New, Requests
  <2>2. \A s, t : B!has_come(s, t) <=> s <= t
    BY DEF B!has_come
  <2>3. B!TooFewRelays <=> TooFew(2)
    BY <2>1, <2>2 DEF B!TooFewRelays, TooFew
  <2>4. B!Busy <=> AuthorityBusy(2)
    BY <2>1, <2>2 DEF B!Busy, AuthorityBusy, Advancing
  <2> QED BY <2>3, <2>4
<1>3. Authorities = {1, 2} /\ Pc(1) = pcA /\ Pc(2) = pcB
  BY DEF Authorities, Pc
<1> QED BY <1>1, <1>2, <1>3 DEF Quiet

\* Everybody is done with what has come, nobody lacks relays or has died.
AllDone ==
  /\ Quiet
  /\ \A a \in Authorities : ~TooFew(a) /\ Pc(a) # "dead"

LEMMA DoneIs ==
  ASSUME AnyTime, AllDone
  PROVE  /\ \A a \in Authorities :
              \/ Pc(a) = "wait_allocation" /\ now < EpochOf(a).registration + ALLOCATION_START
              \/ Pc(a) = "wait_switchover" /\ now < EpochOf(a).registration + SWITCHOVER
                   /\ EpochOf(a).registration + ALLOCATION_START <= now
         /\ \A r \in Relay :
              \/ relay_pc[r] \in {"off", "dead"}
              \/ relay_pc[r] = "wait_registration" /\ now < relay_epoch[r].registration
              \/ relay_pc[r] = "wait_finish" /\ relay_epoch[r].registration <= now
                   /\ now < relay_epoch[r].registration + ALLOCATION_FINISH
              \/ relay_pc[r] = "wait_switchover" /\ now < relay_epoch[r].registration + SWITCHOVER
                   /\ relay_epoch[r].registration + ALLOCATION_FINISH <= now
         /\ \/ client_pc \in {"off", "dead"}
            \/ client_pc = "wait_finish" /\ now < client_epoch.registration + ALLOCATION_FINISH
            \/ client_pc = "wait_switchover" /\ now < client_epoch.registration + SWITCHOVER
                 /\ client_epoch.registration + ALLOCATION_FINISH <= now
<1>1. /\ \A a \in Authorities : ~AuthorityBusy(a) /\ ~TooFew(a) /\ Pc(a) # "dead"
      /\ \A r \in Relay : ~RelayBusy(r)
      /\ ~C!ClientBusy
  BY QuietIs DEF AllDone
<1>2. now \in Nat
  BY DEF AnyTime
<1>3. ASSUME NEW a \in Authorities
      PROVE  \/ Pc(a) = "wait_allocation" /\ now < EpochOf(a).registration + ALLOCATION_START
             \/ Pc(a) = "wait_switchover" /\ now < EpochOf(a).registration + SWITCHOVER
                  /\ EpochOf(a).registration + ALLOCATION_START <= now
  <2>1. /\ EpochOf(a).registration \in Int
        /\ EpochOf(a).allocation_start = EpochOf(a).registration + ALLOCATION_START
        /\ EpochOf(a).switchover = EpochOf(a).registration + SWITCHOVER
    BY InstantsAre DEF AnyTime, AuthorityAnyTime
  <2>2. Cardinality(DOMAIN New(a).addresses) \in Nat
    BY FS_CardinalityType DEF AnyTime, AuthorityAnyTime, IdsDiffer
  <2>3. Pc(a) \in {"wait_allocation", "wait_switchover"}
    BY <1>1 DEF AnyTime, AuthorityAnyTime, AuthorityBusy
  <2>4. Pc(a) # "wait_allocation" => EpochOf(a).allocation_start <= now
    BY DEF AnyTime, AuthorityAnyTime
  <2> QED BY <1>1, <1>2, <2>1, <2>2, <2>3, <2>4, EpochAssumption DEF AuthorityBusy, TooFew
<1>4. ASSUME NEW r \in Relay
      PROVE  \/ relay_pc[r] \in {"off", "dead"}
             \/ relay_pc[r] = "wait_registration" /\ now < relay_epoch[r].registration
             \/ relay_pc[r] = "wait_finish" /\ relay_epoch[r].registration <= now
                  /\ now < relay_epoch[r].registration + ALLOCATION_FINISH
             \/ relay_pc[r] = "wait_switchover" /\ now < relay_epoch[r].registration + SWITCHOVER
                  /\ relay_epoch[r].registration + ALLOCATION_FINISH <= now
  <2>1. /\ relay_epoch[r].registration \in Int
        /\ relay_epoch[r].allocation_finish = relay_epoch[r].registration + ALLOCATION_FINISH
        /\ relay_epoch[r].switchover = relay_epoch[r].registration + SWITCHOVER
    BY InstantsAre DEF AnyTime, RelayAnyTime
  <2>2. relay_pc[r] \in {"off", "dead", "wait_registration", "wait_finish", "wait_switchover"}
    BY <1>1 DEF AnyTime, RelayAnyTime, RelayBusy, Fetched
  <2>3. /\ relay_pc[r] = "wait_finish" => relay_epoch[r].registration <= now
        /\ relay_pc[r] = "wait_switchover" => relay_epoch[r].allocation_finish <= now
    BY DEF AnyTime, RelayAnyTime, Fetched
  <2> QED BY <1>1, <1>2, <2>1, <2>2, <2>3, EpochAssumption DEF RelayBusy, has_come
<1>5. \/ client_pc \in {"off", "dead"}
      \/ client_pc = "wait_finish" /\ now < client_epoch.registration + ALLOCATION_FINISH
      \/ client_pc = "wait_switchover" /\ now < client_epoch.registration + SWITCHOVER
           /\ client_epoch.registration + ALLOCATION_FINISH <= now
  <2>1. /\ client_epoch.registration \in Int
        /\ client_epoch.allocation_finish = client_epoch.registration + ALLOCATION_FINISH
        /\ client_epoch.switchover = client_epoch.registration + SWITCHOVER
    BY InstantsAre DEF AnyTime, ClientAnyTime
  <2>2. client_pc \in {"off", "dead", "wait_finish", "wait_switchover"}
    BY <1>1 DEF AnyTime, ClientAnyTime, C!ClientBusy
  <2>3. client_pc = "wait_switchover" => client_epoch.allocation_finish <= now
    BY DEF AnyTime, ClientAnyTime
  <2> QED BY <1>1, <1>2, <2>1, <2>2, <2>3, EpochAssumption DEF C!ClientBusy, C!has_come
<1> QED BY <1>3, <1>4, <1>5

Ticks ==
  /\ now' = now + 1 /\ Maps' /\ AllRelaysKept /\ ClientKept
  /\ \A a \in Authorities : AuthorityKept(a)
  /\ \/ trouble' = now + 1
     \/ /\ trouble' = trouble /\ (Instant(now + 1) => Quiet)
        /\ \A a \in Authorities : ~TooFew(a) /\ Pc(a) # "dead"

LEMMA TickAnyTime ==
  ASSUME CalmInvariant, Ticks
  PROVE  /\ now' \in Nat /\ trouble' \in Int /\ trouble' <= now' /\ Maps'
         /\ \A a \in Authorities : AuthorityAnyTime(a)'
         /\ \A r \in Relay : RelayAnyTime(r)'
         /\ ClientAnyTime'
<1>1. /\ AnyTime /\ now \in Nat /\ trouble \in Int /\ trouble <= now /\ now' = now + 1
      /\ Maps' /\ trouble' \in {trouble, now + 1} /\ Last \in Int /\ Last' \in Int
      /\ Last <= Last' /\ EPOCH_DURATION \in Nat
  BY Schedule, TickLast, EpochAssumption DEF CalmInvariant, AnyTime, Ticks
<1>2. \A t \in Int : /\ t <= now => t <= now'
                     /\ t <= Last + EPOCH_DURATION => t <= Last' + EPOCH_DURATION
  <2> DEFINE l == Last'
             k == Last
  <2>1. /\ k \in Int /\ l \in Int /\ k <= l /\ EPOCH_DURATION \in Nat /\ now \in Nat
    BY <1>1
  <2> HIDE DEF l, k
  <2>2. \A t \in Int : /\ t <= now => t <= now + 1
                       /\ t <= k + EPOCH_DURATION => t <= l + EPOCH_DURATION
    BY <2>1
  <2> QED BY <1>1, <2>2 DEF k, l
<1>3. ASSUME NEW a \in Authorities PROVE AuthorityAnyTime(a)'
  <2>1. AuthorityAnyTime(a) /\ AuthorityKept(a) /\ New(a)' = New(a)
    BY <1>1 DEF Ticks, AnyTime, AuthorityKept, New
  <2>2. /\ EpochOf(a).registration \in Int /\ EpochOf(a).allocation_start \in Int
        /\ served[a] # NoEpoch => served[a] \in Int
    BY <2>1, InstantsAre, EpochAssumption DEF AuthorityAnyTime, RegistrationTime
  <2>3. IsEpoch(EpochOf(a))' /\ IdsDiffer(New(a))'
    BY <2>1 DEF AuthorityAnyTime, AuthorityKept, IsEpoch, RegistrationTime, IdsDiffer
  <2> QED BY <1>2, <2>1, <2>2, <2>3 DEF AuthorityAnyTime, AuthorityKept
<1>4. ASSUME NEW r \in Relay PROVE RelayAnyTime(r)'
  <2>1. RelayAnyTime(r) /\ RelayKept(r)
    BY <1>1 DEF Ticks, AnyTime, AllRelaysKept
  <2>2. /\ relay_epoch[r].registration \in Int /\ relay_epoch[r].allocation_finish \in Int
    BY <2>1, InstantsAre, EpochAssumption DEF RelayAnyTime
  <2>3. /\ IsEpoch(relay_epoch[r])' /\ IsSequence(next_authorities[r])'
        /\ IsSequence(live_authorities[r])'
    BY <2>1 DEF RelayAnyTime, RelayKept, IsEpoch, RegistrationTime, IsSequence
  <2> QED BY <1>2, <2>1, <2>2, <2>3 DEF RelayAnyTime, RelayKept
<1>5. ClientAnyTime'
  <2>1. ClientAnyTime /\ ClientKept
    BY <1>1 DEF Ticks, AnyTime
  <2>2. /\ client_epoch.registration \in Int /\ client_epoch.allocation_finish \in Int
        /\ client_since \in Int
    BY <2>1, InstantsAre, EpochAssumption DEF ClientAnyTime
  <2>3. /\ IsEpoch(client_epoch)' /\ IsSequence(next_public_keys)' /\ IsSequence(public_keys)'
    BY <2>1 DEF ClientAnyTime, ClientKept, IsEpoch, RegistrationTime, IsSequence
  <2> QED BY <1>2, <2>1, <2>2, <2>3 DEF ClientAnyTime, ClientKept
<1> QED BY <1>1, <1>3, <1>4, <1>5

LEMMA TickTrouble ==
  ASSUME CalmInvariant, Ticks, trouble' = now + 1
  PROVE  Keeps
<1>1. AnyTime /\ now \in Nat /\ now' = now + 1 /\ Last' \in Int /\ Last' <= now + 1
  BY TickLast DEF CalmInvariant, AnyTime, Ticks
<1>2. ~Calm' /\ ~CalmForTwo' /\ ~CalmForThree'
  <2> DEFINE l == Last'
             t == trouble'
  <2>1. l \in Int /\ l <= t /\ t \in Int /\ EPOCH_DURATION \in Nat
    BY <1>1, EpochAssumption
  <2>2. /\ Calm' <=> t < l
        /\ CalmForTwo' <=> t < l - EPOCH_DURATION
        /\ CalmForThree' <=> t < l - 2 * EPOCH_DURATION
    BY DEF Calm, CalmForTwo, CalmForThree
  <2> HIDE DEF l, t
  <2>3. ~(t < l) /\ ~(t < l - EPOCH_DURATION) /\ ~(t < l - 2 * EPOCH_DURATION)
    BY <2>1
  <2> QED BY <2>2, <2>3
<1>3. \A a \in Authorities : ServedOnTime(a)'
  BY <1>2 DEF ServedOnTime
<1>4. AnyTime'
  BY <1>3, TickAnyTime DEF AnyTime
<1> QED BY <1>2, <1>4 DEF Keeps, CalmInvariant, NetworkInvariant

\* The times of an epoch end at its instants.
LEMMA TickTimes ==
  ASSUME AnyTime, now' = now + 1, now + 1 < Last + EPOCH_DURATION
  PROVE  /\ Within(0, ALLOCATION_START)' => Within(0, ALLOCATION_START)
         /\ Within(0, ALLOCATION_FINISH)' => Within(0, ALLOCATION_FINISH)
         /\ Within(ALLOCATION_START, ALLOCATION_FINISH)' =>
              \/ Within(ALLOCATION_START, ALLOCATION_FINISH)
              \/ Within(0, ALLOCATION_START) /\ Instant(now + 1)
         /\ Within(ALLOCATION_FINISH, SWITCHOVER)' =>
              \/ Within(ALLOCATION_FINISH, SWITCHOVER)
              \/ Within(ALLOCATION_START, ALLOCATION_FINISH) /\ Instant(now + 1)
         /\ Within(SWITCHOVER, EPOCH_DURATION)' =>
              \/ Within(SWITCHOVER, EPOCH_DURATION)
              \/ Within(ALLOCATION_FINISH, SWITCHOVER) /\ Instant(now + 1)
         /\ Within(SWITCHOVER, EPOCH_DURATION) => Within(SWITCHOVER, EPOCH_DURATION)'
<1>1. /\ Last \in Int /\ now \in Nat /\ Last <= now /\ Last' = Last
      /\ Instant(Last + ALLOCATION_START) /\ Instant(Last + ALLOCATION_FINISH)
      /\ Instant(Last + SWITCHOVER)
  BY Schedule, TickLast, Instants DEF AnyTime
<1> DEFINE t == now + 1
<1>2. /\ t = Last + ALLOCATION_START => Instant(t)
      /\ t = Last + ALLOCATION_FINISH => Instant(t)
      /\ t = Last + SWITCHOVER => Instant(t)
      /\ t \in Int
  BY <1>1
<1> QED BY <1>1, <1>2, EpochAssumption DEF Within

\* The clock ticks within an epoch: who has to be done is done.
LEMMA TickWithin ==
  ASSUME CalmInvariant, Ticks, trouble' = trouble, trouble' # now + 1,
         now + 1 < Last + EPOCH_DURATION
  PROVE  Keeps
<1>1. /\ AnyTime /\ AllRelaysKept /\ ClientKept /\ \A a \in Authorities : AuthorityKept(a)
      /\ (Calm => OnTime) /\ (CalmForTwo => FreshKeysAgree)
      /\ (CalmForThree => OldAddressesAgree)
      /\ (CalmForThree => CalmForTwo) /\ (CalmForTwo => Calm)
  BY CalmIsLess DEF CalmInvariant, Ticks
<1>2. /\ now \in Nat /\ now' = now + 1 /\ Last' = Last /\ Last \in Int
      /\ Instant(now + 1) => AllDone
  BY TickLast, Schedule DEF Ticks, AnyTime, CalmInvariant, AllDone
<1>3. /\ Calm' = Calm /\ CalmForTwo' = CalmForTwo /\ CalmForThree' = CalmForThree
      /\ Beginning' = Beginning
  BY <1>2 DEF Calm, CalmForTwo, CalmForThree, Beginning
<1>4. \A a \in Authorities :
        /\ HasAllocated(a)' = HasAllocated(a) /\ HasAdvanced(a)' = HasAdvanced(a)
        /\ Fresh(a)' = Fresh(a) /\ New(a)' = New(a) /\ Current(a)' = Current(a)
  <2> SUFFICES ASSUME NEW a \in Authorities
               PROVE  /\ HasAllocated(a)' = HasAllocated(a) /\ HasAdvanced(a)' = HasAdvanced(a)
                      /\ Fresh(a)' = Fresh(a) /\ New(a)' = New(a) /\ Current(a)' = Current(a)
    OBVIOUS
  <2>1. HasAllocated(a)' = HasAllocated(a) /\ HasAdvanced(a)' = HasAdvanced(a)
    BY <1>1, <1>2 DEF HasAllocated, HasAdvanced, AuthorityKept
  <2> QED BY <1>1, <2>1 DEF Fresh, New, AuthorityKept
<1>5. \A r \in Relay :
        /\ RelayKept(r) /\ Participates(r)' = Participates(r) /\ HasSwapped(r)' = HasSwapped(r)
        /\ used_key(r)' = used_key(r) /\ Fetching(r)' = Fetching(r)
  <2> SUFFICES ASSUME NEW r \in Relay
               PROVE  /\ RelayKept(r) /\ Participates(r)' = Participates(r)
                      /\ HasSwapped(r)' = HasSwapped(r)
                      /\ used_key(r)' = used_key(r) /\ Fetching(r)' = Fetching(r)
    OBVIOUS
  <2>1. RelayKept(r) /\ HasSwapped(r)' = HasSwapped(r)
    BY <1>1, <1>2 DEF AllRelaysKept, RelayKept, HasSwapped
  <2> QED BY <1>2, <2>1 DEF RelayKept, Participates, used_key, Fetching
<1>6. AnyTime'
  <2>1. \A a \in Authorities : ServedOnTime(a)'
    BY <1>1, <1>2, <1>3, <1>4 DEF AnyTime, ServedOnTime, AuthorityKept
  <2> QED BY <2>1, TickAnyTime DEF AnyTime
<1>7. ASSUME Calm PROVE OnTime'
  <2>1. ASSUME NEW a \in Authorities PROVE AuthorityOnTime(a)' /\ RequestsTaken(a)'
    <3>1. AuthorityOnTime(a) /\ RequestsTaken(a) /\ AuthorityKept(a)
      BY <1>1, <1>7 DEF OnTime
    <3>2. AllDone => \/ Pc(a) = "wait_allocation" /\ now < EpochOf(a).registration + ALLOCATION_START
                     \/ Pc(a) = "wait_switchover"
      BY <1>1, DoneIs
    <3>3. EpochOf(a).registration = Last /\ Within(ALLOCATION_START, ALLOCATION_FINISH) =>
            ~(now < EpochOf(a).registration + ALLOCATION_START)
      BY <1>2, EpochAssumption DEF Within
    <3>4. AuthorityOnTime(a)'
      BY <1>1, <1>2, <1>3, <3>1, <3>2, <3>3, TickTimes DEF AuthorityOnTime, AuthorityKept
    <3>5. RequestsTaken(a)'
      BY <1>4, <3>1 DEF RequestsTaken
    <3> QED BY <3>4, <3>5
  <2>2. ASSUME NEW r \in Relay PROVE RelayOnTime(r)'
    <3>1. RelayOnTime(r) /\ RelayKept(r)
      BY <1>1, <1>5, <1>7 DEF OnTime
    <3>2. AllDone =>
            \/ relay_pc[r] \in {"off", "dead"}
            \/ relay_pc[r] = "wait_registration" /\ now < relay_epoch[r].registration
            \/ relay_pc[r] = "wait_finish" /\ now < relay_epoch[r].registration + ALLOCATION_FINISH
            \/ relay_pc[r] = "wait_switchover"
      BY <1>1, DoneIs
    <3>3. relay_epoch[r].registration = Last =>
            /\ ~(now < relay_epoch[r].registration)
            /\ Within(ALLOCATION_FINISH, SWITCHOVER) =>
                 ~(now < relay_epoch[r].registration + ALLOCATION_FINISH)
      BY <1>1, <1>2, Schedule, EpochAssumption DEF Within
    <3>4. CASE \/ relay_pc[r] \in {"off", "dead"}
               \/ /\ relay_pc[r] = "wait_registration" /\ live_authorities[r] = <<>>
                  /\ relay_epoch[r].registration = Last + EPOCH_DURATION
      BY <1>2, <3>1, <3>4 DEF RelayOnTime, RelayKept
    <3>5. CASE ~Beginning /\ Within(SWITCHOVER, EPOCH_DURATION) /\ HasSwapped(r)
      BY <1>1, <1>2, <1>3, <1>5, <3>5, TickTimes DEF RelayOnTime
    <3>6. CASE ~Beginning /\ Within(SWITCHOVER, EPOCH_DURATION) /\ relay_pc[r] = "swap"
                 /\ relay_epoch[r].registration = Last + EPOCH_DURATION
      BY <1>1, <1>2, <1>3, <3>1, <3>6, TickTimes DEF RelayOnTime, RelayKept
    <3>7. CASE /\ relay_epoch[r].registration = Last /\ ~Beginning
               /\ Within(0, ALLOCATION_START) =>
                    relay_pc[r] \in {"wait_registration", "register", "wait_finish"}
               /\ Within(ALLOCATION_START, ALLOCATION_FINISH) => relay_pc[r] = "wait_finish"
               /\ Within(ALLOCATION_FINISH, SWITCHOVER) =>
                    relay_pc[r] \in {"wait_finish"} \cup Fetched
               /\ Within(SWITCHOVER, EPOCH_DURATION) => relay_pc[r] = "wait_switchover"
      <4>1. relay_pc[r] \in Fetched => relay_pc[r] \notin {"off", "dead", "wait_registration"}
        BY DEF Fetched
      <4>2. /\ relay_epoch'[r].registration = Last' /\ ~Beginning'
            /\ Within(0, ALLOCATION_START)' =>
                 relay_pc'[r] \in {"wait_registration", "register", "wait_finish"}
        BY <1>1, <1>2, <1>3, <3>1, <3>7, TickTimes DEF RelayKept
      <4>3. Within(ALLOCATION_START, ALLOCATION_FINISH)' => relay_pc'[r] = "wait_finish"
        BY <1>1, <1>2, <3>1, <3>2, <3>3, <3>7, TickTimes DEF RelayKept
      <4>4. Within(ALLOCATION_FINISH, SWITCHOVER)' => relay_pc'[r] \in {"wait_finish"} \cup Fetched
        BY <1>1, <1>2, <3>1, <3>7, TickTimes DEF RelayKept
      <4>5. Within(SWITCHOVER, EPOCH_DURATION)' => relay_pc'[r] = "wait_switchover"
        BY <1>1, <1>2, <3>1, <3>2, <3>3, <3>7, <4>1, TickTimes DEF RelayKept
      <4> QED BY <4>2, <4>3, <4>4, <4>5 DEF RelayOnTime
    <3> QED BY <3>1, <3>4, <3>5, <3>6, <3>7 DEF RelayOnTime
  <2>3. ClientOnTime'
    <3>1. ClientOnTime /\ ClientKept
      BY <1>1, <1>7 DEF OnTime
    <3>2. AllDone =>
            \/ client_pc \in {"off", "dead"}
            \/ client_pc = "wait_finish" /\ now < client_epoch.registration + ALLOCATION_FINISH
            \/ client_pc = "wait_switchover"
      BY <1>1, DoneIs
    <3>3. client_epoch.registration = Last /\ Within(ALLOCATION_FINISH, SWITCHOVER) =>
            ~(now < client_epoch.registration + ALLOCATION_FINISH)
      BY <1>2, EpochAssumption DEF Within
    <3>4. Within(ALLOCATION_FINISH, SWITCHOVER)' =>
            \/ Within(ALLOCATION_FINISH, SWITCHOVER) \/ Within(0, ALLOCATION_FINISH)
      BY <1>1, <1>2, TickTimes, HasComeIs
    <3> QED BY <1>1, <1>2, <1>3, <3>1, <3>2, <3>3, <3>4, TickTimes DEF ClientOnTime, ClientKept
  <2>4. PublicKeysFetched'
    <3>1. client_pc \in {"fetch_next", "wait_switchover"} /\ client_epoch.registration = Last =>
            DOMAIN next_public_keys \subseteq Authorities
      <4>1. next_public_keys \in Seq({next_public_keys[i] : i \in DOMAIN next_public_keys})
        BY <1>1 DEF AnyTime, ClientAnyTime, IsSequence
      <4> QED BY <1>1, <1>7, <4>1 DEF OnTime, PublicKeysFetched, Authorities
    <3> QED BY <1>1, <1>2, <1>4, <1>7, <3>1 DEF OnTime, PublicKeysFetched, ClientKept
  <2> QED BY <2>1, <2>2, <2>3, <2>4 DEF OnTime
<1>8. Present' = Present /\ KeyOf' = KeyOf
  <2>1. Present' = Present /\ \A r \in Present : r \in Relay
    BY <1>5 DEF Present
  <2> QED BY <1>5, <2>1 DEF KeyOf
<1>9. ASSUME CalmForTwo PROVE FreshKeysAgree'
  <2>1. ASSUME NEW a \in Authorities
        PROVE  RequestsCollected(a)' /\ AllocationMade(a)' /\ OldPublicKeys(a)'
    <3>1. RequestsCollected(a) /\ AllocationMade(a) /\ OldPublicKeys(a) /\ AuthorityKept(a)
      BY <1>1, <1>9 DEF FreshKeysAgree
    <3>2. \A r \in Registered(a) : used_key(r)' = used_key(r)
      BY <1>5 DEF Registered, Present
    <3>3. Registered(a)' = Registered(a)
      <4>1. \A r \in Present : relay_pc'[r] = relay_pc[r] /\ contacted'[r] = contacted[r]
        BY <1>5 DEF Present, RelayKept
      <4> QED BY <1>8, <4>1 DEF Registered
    <3>4. RequestsCollected(a)'
      BY <1>2, <1>4, <3>1, <3>2, <3>3 DEF RequestsCollected, AuthorityKept
    <3>5. AllocationMade(a)'
      BY <1>4, <1>8, <3>1 DEF AllocationMade
    <3>6. OldPublicKeys(a)'
      <4>1. ClientRuns' = ClientRuns
        BY <1>1 DEF ClientRuns, ClientKept
      <4> QED BY <1>1, <1>2, <1>4, <3>1, <4>1 DEF OldPublicKeys, ClientKept
    <3> QED BY <3>4, <3>5, <3>6
  <2>2. ASSUME NEW r \in Relay PROVE KeysFetched(r)'
    <3>1. KeysFetched(r) /\ RelayAnyTime(r)
      BY <1>1, <1>9 DEF FreshKeysAgree, AnyTime
    <3>2. relay_pc[r] \in Fetched \cup {"swap"} /\ Participates(r) =>
            /\ DOMAIN next_authorities[r] \subseteq Authorities
            /\ relay_pc[r] = "fetch_keys" => Fetching(r) \in Authorities
      BY <3>1, AnswersAre DEF Fetched
    <3> QED BY <1>4, <1>5, <3>1, <3>2 DEF KeysFetched, RelayKept
  <2> QED BY <2>1, <2>2 DEF FreshKeysAgree
<1>10. ASSUME CalmForThree PROVE OldAddressesAgree'
  <2>1. \A a \in {1, 2}, x \in Identity : get_relay_address(a, x)' = get_relay_address(a, x)
    BY <1>4 DEF get_relay_address, Authorities
  <2> QED BY <1>1, <1>4, <1>10, <2>1 DEF OldAddressesAgree, Authorities
<1>11. CalmInvariant'
  BY <1>3, <1>6, <1>7, <1>9, <1>10 DEF CalmInvariant
<1>12. CalmForThree => OldKeysKept
  BY <1>4, <1>5 DEF OldKeysKept, RelayKept
<1> QED BY <1>3, <1>11, <1>12, OldKeysStay

-----------------------------------------------------------------------------
(* Allocations, and the keys they stand for.                               *)

\* An allocation for these relays gives no identity to two of them.
LEMMA GivenDisjointly ==
  ASSUME AllocatesDisjointly, NEW allocs, IsFor(allocs, KeyOf)
  PROVE  \A q, r \in Present :
           /\ allocs.allocations[used_key(r)] \subseteq Identity
           /\ q # r => allocs.allocations[used_key(q)] \cap allocs.allocations[used_key(r)] = {}
<1> DEFINE K == KeyOf
           S == {K[r] : r \in DOMAIN K}
           W == WeightsOf(K)
           G == Allocate(W)
<1>1. /\ DOMAIN K = Present /\ \A r \in Present : K[r] = used_key(r)
      /\ \A q, r \in Present : K[q] = K[r] => q = r
      /\ K = [r \in Present |-> K[r]]
  BY KeysDiffer DEF KeyOf
<1> HIDE DEF K
<1>2. /\ \A r \in DOMAIN K : allocs.allocations[K[r]] = G[K[r]]
      /\ DOMAIN K # {} => \E r \in DOMAIN K : WeightOf[r] # 0
  BY DEF IsFor, K
<1>3. \A k, l \in S : G[k] \subseteq Identity /\ (k # l => G[k] \cap G[l] = {})
  <2>1. IsFiniteSet(S)
    <3>1. IsFiniteSet(Present) /\ Present \subseteq Relay
      BY RelaysAssumption, FS_Subset DEF Present
    <3>2. K \in Surjection(Present, S)
      BY <1>1 DEF Surjection
    <3> HIDE DEF S
    <3> QED BY <3>1, <3>2, FS_Surjection
  <2>2. \A r \in DOMAIN K : WeightOf[r] \in Nat
    BY <1>1, RelaysAssumption DEF Present
  <2>3. \A r \in DOMAIN K : (CHOOSE q \in DOMAIN K : K[q] = K[r]) = r
    BY <1>1
  <2>4. W = [k \in S |-> WeightOf[CHOOSE r \in DOMAIN K : K[r] = k]]
    BY DEF WeightsOf
  <2>5. W \in [S -> Nat] /\ \A r \in DOMAIN K : W[K[r]] = WeightOf[r]
    <3> HIDE DEF W
    <3>1. \A k \in S : (CHOOSE r \in DOMAIN K : K[r] = k) \in DOMAIN K
      OBVIOUS
    <3> QED BY <2>2, <2>3, <2>4, <3>1
  <2>6. S # {} => \E k \in S : W[k] # 0
    <3> HIDE DEF W
    <3> QED BY <1>2, <2>5
  <2> HIDE DEF W, S
  <2>7. CASE S # {}
    BY <2>1, <2>5, <2>6, <2>7 DEF AllocatesDisjointly, DividesAmong
  <2>8. CASE S = {}
    BY <2>8
  <2> QED BY <2>7, <2>8
<1>4. \A r \in Present : K[r] \in S
  BY <1>1
<1> HIDE DEF S, G
<1> QED BY <1>1, <1>2, <1>3, <1>4

\* Each identity that it gives to a relay leads to that relay, and no other.
LEMMA AddressIs ==
  ASSUME AllocatesDisjointly, NEW allocs, IsFor(allocs, KeyOf), NEW x
  PROVE  \A r \in Present :
           x \in allocs.allocations[used_key(r)] <=> A!get_address(allocs, x) = {r}
<1> DEFINE K == KeyOf
           addr == A!get_address(allocs, x)
<1>1. /\ DOMAIN K = Present /\ \A r \in Present : K[r] = used_key(r)
  BY KeysDiffer
<1> HIDE DEF K
<1>2. /\ DOMAIN allocs.allocations = {K[r] : r \in DOMAIN K}
      /\ \A r \in DOMAIN K : allocs.addresses[K[r]] = r
  BY DEF IsFor, K
<1>3. addr = {allocs.addresses[k] : k \in {l \in DOMAIN allocs.allocations :
                                             x \in allocs.allocations[l]}}
  BY DEF A!get_address
<1>4. addr = {r \in Present : x \in allocs.allocations[K[r]]}
  <2>1. ASSUME NEW r \in Present, x \in allocs.allocations[K[r]] PROVE r \in addr
    BY <1>1, <1>2, <1>3, <2>1
  <2>2. ASSUME NEW r \in addr PROVE r \in Present /\ x \in allocs.allocations[K[r]]
    <3>1. PICK k \in DOMAIN allocs.allocations :
            x \in allocs.allocations[k] /\ r = allocs.addresses[k]
      BY <1>3, <2>2
    <3>2. PICK q \in DOMAIN K : k = K[q]
      BY <1>2, <3>1
    <3> QED BY <1>1, <1>2, <3>1, <3>2
  <2> HIDE DEF addr
  <2> QED BY <2>1, <2>2
<1> HIDE DEF addr
<1>5. ASSUME NEW r \in Present, x \in allocs.allocations[K[r]] PROVE addr = {r}
  <2>1. ASSUME NEW q \in Present, x \in allocs.allocations[K[q]] PROVE q = r
    BY <1>1, <1>5, <2>1, GivenDisjointly
  <2> QED BY <1>4, <1>5, <2>1
<1>6. ASSUME NEW r \in Present PROVE x \in allocs.allocations[K[r]] <=> addr = {r}
  BY <1>4, <1>5
<1> QED BY <1>1, <1>6 DEF addr

\* What an address leads to, however identities are allocated.
LEMMA AddressHasKeys ==
  ASSUME NEW allocs, IsFor(allocs, KeyOf), NEW x, NEW r \in A!get_address(allocs, x)
  PROVE  r \in Present /\ x \in allocs.allocations[used_key(r)]
<1>1. PICK k \in DOMAIN allocs.allocations :
        x \in allocs.allocations[k] /\ r = allocs.addresses[k]
  BY DEF A!get_address
<1>2. PICK q \in DOMAIN KeyOf : k = KeyOf[q]
  BY <1>1 DEF IsFor
<1>3. r = q
  BY <1>1, <1>2 DEF IsFor
<1> QED BY <1>1, <1>2, <1>3, KeysDiffer

\* Two allocations for the same relays name the same ones.
LEMMA SameAddresses ==
  ASSUME NEW allocs, NEW others, IsFor(allocs, KeyOf), IsFor(others, KeyOf), NEW x
  PROVE  A!get_address(allocs, x) = A!get_address(others, x)
<1> DEFINE K == KeyOf
<1>1. /\ DOMAIN allocs.allocations = {K[r] : r \in DOMAIN K}
      /\ DOMAIN others.allocations = {K[r] : r \in DOMAIN K}
      /\ \A r \in DOMAIN K : /\ allocs.allocations[K[r]] = others.allocations[K[r]]
                             /\ allocs.addresses[K[r]] = others.addresses[K[r]]
  BY DEF IsFor
<1> HIDE DEF K
<1>2. \A k \in DOMAIN allocs.allocations :
        /\ allocs.allocations[k] = others.allocations[k]
        /\ allocs.addresses[k] = others.addresses[k]
  BY <1>1
<1>3. DOMAIN allocs.allocations = DOMAIN others.allocations
  BY <1>1
<1> QED BY <1>2, <1>3 DEF A!get_address

\* The keys that a relay was given are in sync with the allocation.
LEMMA GivenInSync ==
  ASSUME AllocatesDisjointly, NEW allocs, IsFor(allocs, KeyOf), NEW r \in Present,
         NEW kept, IsGiven(kept, allocs, used_key(r))
  PROVE  InSync(kept, allocs, r)
<1>1. allocs.allocations[used_key(r)] \subseteq Identity
  BY GivenDisjointly
<1>2. \A x : x \in allocs.allocations[used_key(r)] <=> A!get_address(allocs, x) = {r}
  BY AddressIs
<1> QED BY <1>1, <1>2 DEF IsGiven, InSync

-----------------------------------------------------------------------------
(* An epoch ends.                                                          *)

\* Everybody is done with the epoch: they wait for the next one to begin.
LEMMA EpochOver ==
  ASSUME AnyTime, AllDone, now + 1 = Last + EPOCH_DURATION
  PROVE  /\ \A a \in Authorities :
              Pc(a) = "wait_allocation" /\ EpochOf(a).registration = Last + EPOCH_DURATION
         /\ \A r \in Relay :
              \/ relay_pc[r] \in {"off", "dead"}
              \/ /\ relay_pc[r] = "wait_registration"
                 /\ relay_epoch[r].registration = Last + EPOCH_DURATION
         /\ \/ client_pc \in {"off", "dead"}
            \/ client_pc = "wait_finish" /\ client_epoch.registration = Last + EPOCH_DURATION
<1>1. now \in Nat /\ Last \in Int
  BY Schedule DEF AnyTime
<1>2. ASSUME NEW a \in Authorities
      PROVE  Pc(a) = "wait_allocation" /\ EpochOf(a).registration = Last + EPOCH_DURATION
  <2> DEFINE t == EpochOf(a).registration
  <2>1. /\ RegistrationTime(t) /\ t <= Last + EPOCH_DURATION
        /\ \/ Pc(a) = "wait_allocation" /\ now < t + ALLOCATION_START
           \/ Pc(a) = "wait_switchover" /\ now < t + SWITCHOVER /\ t + ALLOCATION_START <= now
    BY DoneIs DEF AnyTime, AuthorityAnyTime, IsEpoch
  <2> HIDE DEF t
  <2>2. t \in Int /\ (t > Last => t = Last + EPOCH_DURATION)
    BY <1>1, <2>1, EpochsAre
  <2>3. Pc(a) = "wait_allocation" /\ t = Last + EPOCH_DURATION
    BY <1>1, <2>1, <2>2, EpochAssumption
  <2> QED BY <2>3 DEF t
<1>3. ASSUME NEW r \in Relay
      PROVE  \/ relay_pc[r] \in {"off", "dead"}
             \/ /\ relay_pc[r] = "wait_registration"
                /\ relay_epoch[r].registration = Last + EPOCH_DURATION
  <2> DEFINE t == relay_epoch[r].registration
  <2>1. /\ RegistrationTime(t) /\ t <= Last + EPOCH_DURATION
        /\ \/ relay_pc[r] \in {"off", "dead"}
           \/ relay_pc[r] = "wait_registration" /\ now < t
           \/ relay_pc[r] = "wait_finish" /\ t <= now /\ now < t + ALLOCATION_FINISH
           \/ relay_pc[r] = "wait_switchover" /\ now < t + SWITCHOVER
                /\ t + ALLOCATION_FINISH <= now
    BY DoneIs DEF AnyTime, RelayAnyTime, IsEpoch
  <2> HIDE DEF t
  <2>2. t \in Int /\ (t > Last => t = Last + EPOCH_DURATION)
    BY <1>1, <2>1, EpochsAre
  <2>3. \/ relay_pc[r] \in {"off", "dead"}
        \/ relay_pc[r] = "wait_registration" /\ t = Last + EPOCH_DURATION
    BY <1>1, <2>1, <2>2, EpochAssumption
  <2> QED BY <2>3 DEF t
<1>4. \/ client_pc \in {"off", "dead"}
      \/ client_pc = "wait_finish" /\ client_epoch.registration = Last + EPOCH_DURATION
  <2> DEFINE t == client_epoch.registration
  <2>1. /\ RegistrationTime(t) /\ t <= Last + EPOCH_DURATION
        /\ \/ client_pc \in {"off", "dead"}
           \/ client_pc = "wait_finish" /\ now < t + ALLOCATION_FINISH
           \/ client_pc = "wait_switchover" /\ now < t + SWITCHOVER
                /\ t + ALLOCATION_FINISH <= now
    BY DoneIs DEF AnyTime, ClientAnyTime, IsEpoch
  <2> HIDE DEF t
  <2>2. t \in Int /\ (t > Last => t = Last + EPOCH_DURATION)
    BY <1>1, <2>1, EpochsAre
  <2>3. \/ client_pc \in {"off", "dead"}
        \/ client_pc = "wait_finish" /\ t = Last + EPOCH_DURATION
    BY <1>1, <2>1, <2>2, EpochAssumption
  <2> QED BY <2>3 DEF t
<1> QED BY <1>2, <1>3, <1>4

\* The clock ticks into the next epoch: the fresh keys have become the old ones.
LEMMA TickOver ==
  ASSUME CalmInvariant, Ticks, trouble' = trouble, trouble' # now + 1,
         now + 1 >= Last + EPOCH_DURATION
  PROVE  Keeps
<1>1. /\ AnyTime /\ AllRelaysKept /\ ClientKept /\ \A a \in Authorities : AuthorityKept(a)
      /\ (Calm => OnTime) /\ (CalmForTwo => FreshKeysAgree)
      /\ (CalmForTwo => Calm)
  BY CalmIsLess DEF CalmInvariant, Ticks
<1>2. /\ now \in Nat /\ now' = now + 1 /\ Last \in Int /\ EPOCH_DURATION \in Nat \ {0}
      /\ Last' = Last + EPOCH_DURATION /\ now + 1 = Last + EPOCH_DURATION
  BY <1>1, TickLast, Schedule, EpochAssumption DEF Ticks, AnyTime
<1>3. AllDone
  <2>1. RegistrationTime(Last')
    BY <1>2, TickLast
  <2>2. Instant(now + 1)
    BY <1>2, <2>1, Instants
  <2> QED BY <2>2 DEF Ticks, AllDone
<1>4. /\ CalmForTwo' = Calm /\ CalmForThree' = CalmForTwo /\ ~Beginning'
  <2> DEFINE l == Last'
             k == Last
  <2>1. /\ k \in Int /\ l = k + EPOCH_DURATION /\ EPOCH_DURATION \in Nat /\ l > 0
        /\ trouble \in Int
    BY <1>1, <1>2 DEF AnyTime
  <2>2. /\ CalmForTwo' <=> trouble < l - EPOCH_DURATION
        /\ CalmForThree' <=> trouble < l - 2 * EPOCH_DURATION
        /\ Calm <=> trouble < k
        /\ CalmForTwo <=> trouble < k - EPOCH_DURATION
        /\ Beginning' <=> l <= 0
    BY DEF Calm, CalmForTwo, CalmForThree, Beginning
  <2> HIDE DEF l, k
  <2>3. /\ trouble < l - EPOCH_DURATION <=> trouble < k
        /\ trouble < l - 2 * EPOCH_DURATION <=> trouble < k - EPOCH_DURATION
        /\ ~(l <= 0)
    BY <2>1
  <2> QED BY <2>2, <2>3 DEF CalmForTwo, CalmForThree, Calm
<1>5. \A s, t \in Nat : s > 0 => ~Within(s, t)'
  <2> SUFFICES ASSUME NEW s \in Nat, NEW t \in Nat, s > 0 PROVE ~Within(s, t)'
    OBVIOUS
  <2> DEFINE l == Last'
  <2>1. l \in Int /\ now' = l
    BY <1>2
  <2>2. Within(s, t)' <=> l + s <= now' /\ now' < l + t
    BY DEF Within
  <2> HIDE DEF l
  <2> QED BY <2>1, <2>2
<1>6. \A a \in Authorities :
        /\ Pc(a) = "wait_allocation" /\ Pc(a)' = "wait_allocation"
        /\ EpochOf(a).registration = Last + EPOCH_DURATION /\ EpochOf(a)'.registration = Last'
        /\ HasAllocated(a) /\ HasAdvanced(a) /\ ~HasAllocated(a)' /\ ~HasAdvanced(a)'
        /\ Fresh(a) = Current(a) /\ Current(a)' = Current(a) /\ New(a)' = New(a)
  <2> SUFFICES ASSUME NEW a \in Authorities
               PROVE  /\ Pc(a) = "wait_allocation" /\ Pc(a)' = "wait_allocation"
                      /\ EpochOf(a).registration = Last + EPOCH_DURATION
                      /\ EpochOf(a)'.registration = Last'
                      /\ HasAllocated(a) /\ HasAdvanced(a)
                      /\ ~HasAllocated(a)' /\ ~HasAdvanced(a)'
                      /\ Fresh(a) = Current(a) /\ Current(a)' = Current(a) /\ New(a)' = New(a)
    OBVIOUS
  <2>1. /\ Pc(a) = "wait_allocation" /\ EpochOf(a).registration = Last + EPOCH_DURATION
        /\ AuthorityKept(a)
    BY <1>1, <1>2, <1>3, EpochOver
  <2>2. /\ Pc(a)' = "wait_allocation" /\ EpochOf(a)'.registration = Last'
        /\ Current(a)' = Current(a) /\ New(a)' = New(a)
    BY <1>2, <2>1 DEF AuthorityKept, New
  <2>3. HasAllocated(a) /\ HasAdvanced(a)
    BY <2>1 DEF HasAllocated, HasAdvanced
  <2>4. Last' # Last' + EPOCH_DURATION
    <3> DEFINE l == Last'
    <3>1. l \in Int
      BY <1>2
    <3> HIDE DEF l
    <3>2. l # l + EPOCH_DURATION
      BY <1>2, <3>1
    <3> QED BY <3>2 DEF l
  <2>5. ~HasAllocated(a)' /\ ~HasAdvanced(a)'
    BY <2>2, <2>4 DEF HasAllocated, HasAdvanced, Advancing, Clearing
  <2> QED BY <2>1, <2>2, <2>3, <2>5 DEF Fresh
<1>7. Last # Last + EPOCH_DURATION /\ Last' # Last' + EPOCH_DURATION
  <2> DEFINE l == Last'
             k == Last
  <2>1. l \in Int /\ k \in Int
    BY <1>2
  <2> HIDE DEF l, k
  <2>2. l # l + EPOCH_DURATION /\ k # k + EPOCH_DURATION
    BY <1>2, <2>1
  <2> QED BY <2>2 DEF l, k
<1>8. \A r \in Relay :
        /\ RelayKept(r) /\ ~HasSwapped(r)' /\ (Participates(r) <=> HasSwapped(r))
        /\ Participates(r) => Participates(r)'
        /\ \/ relay_pc[r] \in {"off", "dead"}
           \/ /\ relay_pc[r] = "wait_registration"
              /\ relay_epoch[r].registration = Last + EPOCH_DURATION
  <2> SUFFICES ASSUME NEW r \in Relay
               PROVE  /\ RelayKept(r) /\ ~HasSwapped(r)' /\ (Participates(r) <=> HasSwapped(r))
                      /\ Participates(r) => Participates(r)'
                      /\ \/ relay_pc[r] \in {"off", "dead"}
                         \/ /\ relay_pc[r] = "wait_registration"
                            /\ relay_epoch[r].registration = Last + EPOCH_DURATION
    OBVIOUS
  <2>1. /\ RelayKept(r)
        /\ \/ relay_pc[r] \in {"off", "dead"}
           \/ /\ relay_pc[r] = "wait_registration"
              /\ relay_epoch[r].registration = Last + EPOCH_DURATION
    BY <1>1, <1>2, <1>3, EpochOver DEF AllRelaysKept
  <2>2. ~HasSwapped(r)'
    BY <1>2, <1>7, <2>1 DEF HasSwapped, RelayKept
  <2>3. Participates(r) <=> HasSwapped(r)
    BY <1>7, <2>1 DEF Participates, HasSwapped
  <2>4. HasSwapped(r) => Participates(r)'
    BY <1>2, <2>1 DEF Participates, HasSwapped, RelayKept
  <2> QED BY <2>1, <2>2, <2>3, <2>4
<1>9. \/ client_pc \in {"off", "dead"}
      \/ client_pc = "wait_finish" /\ client_epoch.registration = Last + EPOCH_DURATION
  BY <1>1, <1>2, <1>3, EpochOver
<1>10. AnyTime'
  <2>1. ASSUME NEW a \in Authorities PROVE ServedOnTime(a)'
    <3> DEFINE l == Last'
               k == Last
    <3>1. /\ l - EPOCH_DURATION = k
          /\ Calm => served[a] = IF k <= 0 THEN NoEpoch ELSE k
      <4>1. l - EPOCH_DURATION = k
        BY <1>2
      <4> QED BY <1>1, <1>6, <4>1 DEF AnyTime, ServedOnTime, Beginning
    <3>2. served'[a] = served[a] /\ ~HasAdvanced(a)'
      BY <1>1, <1>6 DEF AuthorityKept
    <3>3. ServedOnTime(a)' <=>
            (CalmForTwo' => served'[a] = IF l - EPOCH_DURATION <= 0 THEN NoEpoch
                                                                  ELSE l - EPOCH_DURATION)
      BY <3>2 DEF ServedOnTime
    <3> HIDE DEF l, k
    <3> QED BY <1>4, <3>1, <3>2, <3>3
  <2> QED BY <2>1, TickAnyTime DEF AnyTime
<1>11. OnTime'
  <2>1. /\ ~Within(ALLOCATION_START, ALLOCATION_FINISH)'
        /\ ~Within(ALLOCATION_FINISH, SWITCHOVER)' /\ ~Within(SWITCHOVER, EPOCH_DURATION)'
    BY <1>5, EpochAssumption
  <2>2. \A a \in Authorities : AuthorityOnTime(a)' /\ RequestsTaken(a)'
    BY <1>4, <1>6, <2>1 DEF AuthorityOnTime, RequestsTaken
  <2>3. \A r \in Relay : RelayOnTime(r)'
    BY <1>2, <1>4, <1>8, <2>1 DEF RelayOnTime, RelayKept
  <2>4. ClientOnTime' /\ PublicKeysFetched'
    BY <1>1, <1>2, <1>4, <1>7, <1>9, <2>1 DEF ClientOnTime, PublicKeysFetched, ClientKept
  <2> QED BY <2>2, <2>3, <2>4 DEF OnTime
<1>12. ASSUME Calm PROVE FreshKeysAgree'
  <2>1. ASSUME NEW a \in Authorities
        PROVE  RequestsCollected(a)' /\ AllocationMade(a)' /\ OldPublicKeys(a)'
    <3>1. DOMAIN New(a)'.requests = {}
      BY <1>1, <1>6, <1>12 DEF OnTime, RequestsTaken
    <3>2. Registered(a)' = {}
      <4>1. \A r \in Relay : relay_pc'[r] \notin {"wait_finish", "register"}
        BY <1>8 DEF RelayKept
      <4> QED BY <4>1 DEF Registered, Present
    <3>3. RequestsCollected(a)' /\ AllocationMade(a)'
      BY <1>6, <3>1, <3>2 DEF RequestsCollected, AllocationMade
    <3>4. OldPublicKeys(a)'
      <4>1. client_since < Last /\ ClientRuns => public_keys[a] = Current(a).params
        BY <1>1, <1>6, <1>9, <1>12 DEF OnTime, PublicKeysFetched, ClientRuns
      <4>2. Last' - EPOCH_DURATION = Last
        BY <1>2
      <4>3. ClientRuns' = ClientRuns
        BY <1>1 DEF ClientRuns, ClientKept
      <4> QED BY <1>1, <1>6, <4>1, <4>2, <4>3 DEF OldPublicKeys, ClientKept
    <3> QED BY <3>3, <3>4
  <2>2. \A r \in Relay : KeysFetched(r)'
    <3>1. \A r \in Relay : relay_pc'[r] \notin Fetched \cup {"swap"}
      BY <1>8 DEF RelayKept, Fetched
    <3> QED BY <1>8, <3>1 DEF KeysFetched
  <2> QED BY <2>1, <2>2 DEF FreshKeysAgree
<1>13. CalmForTwo => \A a \in Authorities : IsFor(Current(a), KeyOf)
  BY <1>1, <1>6 DEF FreshKeysAgree, AllocationMade
<1>14. \A a \in Authorities, x \in Identity :
         /\ get_relay_address(a, x) = A!get_address(Current(a), x)
         /\ get_relay_address(a, x)' = A!get_address(Current(a), x)
  BY <1>6 DEF get_relay_address
<1>15. CalmForTwo => OldAddressesAgree'
  BY <1>13, <1>14, SameAddresses DEF OldAddressesAgree, Authorities
<1>16. CalmInvariant'
  BY <1>4, <1>10, <1>11, <1>12, <1>15 DEF CalmInvariant
<1>17. ASSUME CalmForTwo, AllocatesDisjointly, NEW a \in Authorities PROVE OldKeys(a)'
  <2>1. ASSUME NEW r \in Relay, live_authorities[r] # <<>>, relay_pc[r] # "dead"
        PROVE  InSync(live_authorities[r][a], Current(a), r)
    <3>1. HasSwapped(r) /\ r \in Present
      BY <1>1, <1>8, <2>1 DEF AnyTime, RelayAnyTime, HasSwapped, Present
    <3>2. IsGiven(live_authorities[r][a], Current(a), used_key(r))
      BY <1>1, <1>6, <1>17, <3>1 DEF FreshKeysAgree, KeysFetched
    <3> QED BY <1>13, <1>17, <3>1, <3>2, GivenInSync
  <2>2. ASSUME NEW x \in Identity, NEW r \in get_relay_address(a, x)
        PROVE  /\ get_relay_address(a, x) = {r}
               /\ r \in Present' /\ live_authorities[r] # <<>>
    <3>1. r \in Present /\ x \in Current(a).allocations[used_key(r)]
      BY <1>13, <1>14, <1>17, <2>2, AddressHasKeys
    <3>2. A!get_address(Current(a), x) = {r}
      BY <1>13, <1>17, <3>1, AddressIs
    <3>3. r \in Present' /\ live_authorities[r] # <<>>
      BY <1>8, <3>1 DEF Present, HasSwapped
    <3> QED BY <1>14, <3>2, <3>3
  <2>3. \A r \in Relay : /\ live_authorities'[r] = live_authorities[r]
                          /\ relay_pc'[r] = relay_pc[r]
    BY <1>8 DEF RelayKept
  <2>4. \A r \in Relay :
          InSync(live_authorities[r][a], Current(a), r)' = InSync(live_authorities[r][a], Current(a), r)
    BY <1>6, <2>3 DEF InSync
  <2>5. \A x \in Identity : get_relay_address(a, x)' = get_relay_address(a, x)
    BY <1>14
  <2>6. \A r \in Present' : r \in Relay
    BY DEF Present
  <2> QED BY <2>1, <2>2, <2>3, <2>4, <2>5, <2>6 DEF OldKeys
<1> QED BY <1>4, <1>16, <1>17 DEF Keeps, NetworkInvariant

\* Any tick of the clock.
LEMMA TicksKeeps ==
  ASSUME CalmInvariant, Ticks
  PROVE  Keeps
<1>1. /\ now \in Nat /\ Last \in Int /\ EPOCH_DURATION \in Nat
      /\ trouble' = now + 1 \/ trouble' = trouble
  BY Schedule, EpochAssumption DEF CalmInvariant, AnyTime, Ticks
<1>2. now + 1 < Last + EPOCH_DURATION \/ now + 1 >= Last + EPOCH_DURATION
  BY <1>1
<1> QED BY <1>1, <1>2, TickTrouble, TickWithin, TickOver

-----------------------------------------------------------------------------
(* The invariants hold when the system starts.                             *)

LEMMA NetworkStarts ==
  ASSUME NetworkInit
  PROVE  NetworkInvariant
<1>1. /\ now = 0 /\ served = [a \in Authorities |-> NoEpoch] /\ client_since = 0
      /\ trouble = -EPOCH_DURATION - 1
  BY DEF NetworkInit, LongAgo
<1>2. /\ Last \in Int /\ Last <= 0 /\ 0 < Last + EPOCH_DURATION /\ EPOCH_DURATION \in Nat \ {0}
      /\ IsEpoch(next(now)) /\ next(now).registration = Last + EPOCH_DURATION
      /\ Last # Last + EPOCH_DURATION
  BY <1>1, Schedule, Upcoming, EpochAssumption
<1>3. ~CalmForThree /\ Beginning
  BY <1>1, <1>2 DEF CalmForThree, Beginning
<1>4. \A a \in Authorities :
        /\ Requests(a) = <<A!NoRequests, A!NoRequests>>
        /\ Current(a) = A!NoAllocations
        /\ EpochOf(a) = next(now) /\ Pc(a) = "wait_allocation" /\ served[a] = NoEpoch
  <2>1. /\ request_storeA = <<A!NoRequests, A!NoRequests>>
        /\ allocation_storeA = <<A!NoAllocations, A!NoAllocations>>
        /\ epochA = next(now) /\ pcA = "wait_allocation"
    BY DEF NetworkInit, A!Init, A!next, next, A!from_registration, from_registration
  <2>2. /\ request_storeB = <<A!NoRequests, A!NoRequests>>
        /\ allocation_storeB = <<A!NoAllocations, A!NoAllocations>>
        /\ epochB = next(now) /\ pcB = "wait_allocation"
    BY DEF NetworkInit, B!Init, B!next, next, B!from_registration, from_registration,
           A!NoRequests, B!NoRequests, A!NoAllocations, B!NoAllocations
  <2> QED BY <1>1, <2>1, <2>2 DEF Authorities, Requests, Current, EpochOf, Pc
<1>5. \A r \in Relay :
        /\ relay_pc[r] = "off" /\ relay_epoch[r] = next(now) /\ drawn[r] = 0
        /\ next_authorities[r] = <<>> /\ live_authorities[r] = <<>>
  BY DEF NetworkInit, RelayInit
<1>6. /\ client_pc = "off" /\ client_epoch = next(now)
      /\ next_public_keys = <<>> /\ public_keys = <<>>
  BY DEF NetworkInit, C!ClientInit, C!next, next, C!from_registration, from_registration
<1>7. IsSequence(<<>>)
  BY DEF IsSequence
<1>8. \A a \in Authorities :
        /\ EpochOf(a).registration = Last + EPOCH_DURATION
        /\ HasAllocated(a) /\ HasAdvanced(a) /\ New(a) = A!NoRequests
  BY <1>2, <1>4 DEF HasAllocated, HasAdvanced, New
<1>9. Maps
  BY <1>1 DEF NetworkInit, RelayInit, Maps
<1>10. \A a \in Authorities : AuthorityAnyTime(a) /\ ServedOnTime(a)
  BY <1>2, <1>3, <1>4, <1>8, NoRequestsDiffer DEF AuthorityAnyTime, ServedOnTime
<1>11. \A r \in Relay : RelayAnyTime(r) /\ RelayOnTime(r) /\ KeysFetched(r) /\ ~Participates(r)
  <2> SUFFICES ASSUME NEW r \in Relay
               PROVE  RelayAnyTime(r) /\ RelayOnTime(r) /\ KeysFetched(r) /\ ~Participates(r)
    OBVIOUS
  <2>1. RelayAnyTime(r)
    BY <1>2, <1>5, <1>7 DEF RelayAnyTime, Fetched
  <2>2. RelayOnTime(r) /\ KeysFetched(r) /\ ~Participates(r)
    BY <1>5 DEF RelayOnTime, KeysFetched, Participates, HasSwapped, Fetched
  <2> QED BY <2>1, <2>2
<1>12. ClientAnyTime /\ ClientOnTime /\ PublicKeysFetched
  BY <1>1, <1>2, <1>6, <1>7 DEF ClientAnyTime, ClientOnTime, PublicKeysFetched
<1>13. AnyTime
  BY <1>1, <1>2, <1>9, <1>10, <1>11, <1>12 DEF AnyTime
<1>14. OnTime
  <2>1. \A a \in Authorities : AuthorityOnTime(a) /\ RequestsTaken(a)
    BY <1>3, <1>4, <1>8, NoRequestsDiffer DEF AuthorityOnTime, RequestsTaken
  <2> QED BY <1>11, <1>12, <2>1 DEF OnTime
<1>15. FreshKeysAgree
  <2>1. DOMAIN KeyOf = {}
    BY <1>11 DEF KeyOf, Present
  <2>2. IsFor(A!NoAllocations, KeyOf)
    <3> DEFINE K == KeyOf
    <3>1. {K[r] : r \in DOMAIN K} = {} /\ DOMAIN A!NoAllocations.allocations = {}
      BY <2>1 DEF A!NoAllocations
    <3> QED BY <2>1, <3>1 DEF IsFor
  <2>3. \A a \in Authorities : AllocationMade(a)
    BY <1>4, <1>8, <2>2 DEF AllocationMade, Fresh
  <2>4. \A a \in Authorities : RequestsCollected(a) /\ OldPublicKeys(a)
    BY <1>2, <1>8 DEF RequestsCollected, OldPublicKeys
  <2> QED BY <1>11, <2>3, <2>4 DEF FreshKeysAgree
<1> QED BY <1>3, <1>13, <1>14, <1>15 DEF NetworkInvariant, CalmInvariant

-----------------------------------------------------------------------------
(* The steps of module Network are the moves above.                        *)

\* While an authority moves, relays and client rest.
LEMMA OthersRest ==
  ASSUME AnyTime, RelayAndClientUnchanged, DOMAIN served' = Authorities
  PROVE  AllRelaysKept /\ ClientKept /\ Maps'
<1>1. AllRelaysKept /\ ClientKept
  BY DEF RelayAndClientUnchanged, relayVars, client, AllRelaysKept, RelayKept, ClientKept
<1>2. Maps'
  BY DEF AnyTime, RelayAndClientUnchanged, relayVars, Maps
<1> QED BY <1>1, <1>2

\* A step of the first authority.
LEMMA StepOfA ==
  ASSUME CalmInvariant, UNCHANGED varsB, RelayAndClientUnchanged, NoTrouble, now' = now,
         \/ AStep /\ served' = served
         \/ A!AdvanceAllocations /\ served' = [served EXCEPT ![1] = Serves(epochA)]
  PROVE  Keeps
<1>1. /\ AnyTime /\ DOMAIN served = Authorities /\ 1 \in Authorities
      /\ request_storeA = <<request_storeA[1], request_storeA[2]>>
  <2>1. Requests(1) = <<Requests(1)[1], New(1)>>
    BY DEF CalmInvariant, AnyTime, AuthorityAnyTime, Authorities
  <2> QED BY <2>1 DEF CalmInvariant, AnyTime, Maps, Authorities, Requests, New
<1>2. OnlyAuthority(1) /\ (served' = served \/ served'[1] = Serves(EpochOf(1)))
  <2>1. DOMAIN served' = Authorities /\ served'[2] = served[2]
    BY <1>1 DEF Authorities
  <2>2. AllRelaysKept /\ ClientKept /\ Maps'
    BY <1>1, <2>1, OthersRest
  <2>3. AuthorityKept(2)
    BY <2>1 DEF varsB, AuthorityKept, Requests, Current, Coming, EpochOf, Pc
  <2>4. TimeKept
    BY DEF TimeKept, NoTrouble
  <2>5. served' = served \/ served'[1] = Serves(EpochOf(1))
    BY <1>1 DEF EpochOf
  <2> QED BY <2>2, <2>3, <2>4, <2>5 DEF OnlyAuthority, Authorities
<1>3. CASE A!StartAllocation /\ served' = served
  <2>1. Starts(1)
    BY <1>2, <1>3 DEF Starts, A!StartAllocation, A!has_come, A!stores, ScheduleKept,
       AllocationsKept, Requests, Current, Coming, EpochOf, Pc
  <2> QED BY <1>1, <2>1, StartsKeeps
<1>4. CASE A!AllocateRelays /\ served' = served
  <2>1. /\ pcA = "allocate"
        /\ request_storeA' = <<request_storeA[1], A!NoRequests>> /\ epochA' = epochA
        /\ pcA' = IF A!Weightless(request_storeA[2]) THEN "dead" ELSE "wait_switchover"
        /\ allocation_storeA'[1] = allocation_storeA[1]
        /\ ~A!Weightless(request_storeA[2]) =>
             /\ allocation_storeA'[2].allocations = A!Allocated(request_storeA[2])
             /\ allocation_storeA'[2].addresses = request_storeA[2].addresses
    BY <1>4 DEF A!AllocateRelays
  <2>2. Makes(1)
    BY <1>2, <1>4, <2>1 DEF Makes, ScheduleKept, Requests, New, Current, Coming, EpochOf, Pc
  <2> QED BY <1>1, <2>2, MakesKeeps
<1>5. CASE (A!StartAdvance \/ A!AdvanceRequests \/ A!ClearRequests) /\ served' = served
  <2>1. /\ \/ pcA = "wait_switchover" /\ epochA.switchover <= now /\ pcA' = "advance_requests"
           \/ pcA = "advance_requests" /\ pcA' = "advance_allocations"
           \/ pcA = "clear_requests" /\ pcA' = "clear_allocations"
        /\ request_storeA' = <<request_storeA'[1], request_storeA'[2]>>
        /\ request_storeA'[2] \in {request_storeA[2], A!NoRequests}
        /\ epochA' = epochA /\ allocation_storeA' = allocation_storeA
    BY <1>1, <1>5 DEF A!StartAdvance, A!AdvanceRequests, A!ClearRequests, A!has_come, A!stores
  <2>2. AdvancesOn(1)
    BY <1>2, <1>5, <2>1 DEF AdvancesOn, ScheduleKept, AllocationsKept, Requests, New, Current,
       Coming, EpochOf, Pc
  <2> QED BY <1>1, <2>2, AdvancesOnKeeps
<1>6. CASE A!AdvanceAllocations /\ served' = [served EXCEPT ![1] = Serves(epochA)]
  <2>1. served'[1] = Serves(EpochOf(1))
    BY <1>1, <1>6 DEF EpochOf
  <2>2. Switches(1)
    BY <1>2, <1>6, <2>1 DEF Switches, A!AdvanceAllocations, Requests, Current, Coming, EpochOf, Pc
  <2> QED BY <1>1, <2>2, SwitchesKeeps
<1>7. CASE A!ClearAllocations /\ served' = served
  <2>1. A!next(now) = next(now)
    BY DEF A!next, next, A!from_registration, from_registration
  <2>2. TurnsToNext(1)
    BY <1>2, <1>7, <2>1 DEF TurnsToNext, A!ClearAllocations, Requests, Current, EpochOf, Pc
  <2> QED BY <1>1, <2>2, TurnsToNextKeeps
<1> QED BY <1>3, <1>4, <1>5, <1>6, <1>7 DEF AStep

LEMMA RestartOfA ==
  ASSUME CalmInvariant, UNCHANGED varsB, RelayAndClientUnchanged, Trouble, now' = now,
         A!Restart, served' = [served EXCEPT ![1] = NoEpoch]
  PROVE  Keeps
<1>1. AnyTime /\ DOMAIN served = Authorities /\ 1 \in Authorities
  BY DEF CalmInvariant, AnyTime, Maps, Authorities
<1>2. DOMAIN served' = Authorities /\ served'[2] = served[2] /\ served'[1] = NoEpoch
  BY <1>1 DEF Authorities
<1>3. AllRelaysKept /\ ClientKept /\ Maps'
  BY <1>1, <1>2, OthersRest
<1>4. AuthorityKept(2)
  BY <1>2 DEF varsB, AuthorityKept, Requests, Current, Coming, EpochOf, Pc
<1>5. /\ request_storeA' = <<A!NoRequests, A!NoRequests>> /\ epochA' = next(now)
      /\ pcA' = "wait_allocation"
  BY DEF A!Restart, A!next, next, A!from_registration, from_registration
<1>6. trouble' = now
  BY DEF Trouble
<1>7. Restarts(1)
  BY <1>2, <1>3, <1>4, <1>5, <1>6 DEF Restarts, Authorities, Requests, EpochOf, Pc
<1> QED BY <1>1, <1>7, RestartsKeeps

\* A step of the second authority.
LEMMA StepOfB ==
  ASSUME CalmInvariant, UNCHANGED varsA, RelayAndClientUnchanged, NoTrouble, now' = now,
         \/ BStep /\ served' = served
         \/ B!AdvanceAllocations /\ served' = [served EXCEPT ![2] = Serves(epochB)]
  PROVE  Keeps
<1>1. /\ AnyTime /\ DOMAIN served = Authorities /\ 2 \in Authorities
      /\ request_storeB = <<request_storeB[1], request_storeB[2]>>
  <2>1. Requests(2) = <<Requests(2)[1], New(2)>>
    BY DEF CalmInvariant, AnyTime, AuthorityAnyTime, Authorities
  <2> QED BY <2>1 DEF CalmInvariant, AnyTime, Maps, Authorities, Requests, New
<1>2. OnlyAuthority(2) /\ (served' = served \/ served'[2] = Serves(EpochOf(2)))
  <2>1. DOMAIN served' = Authorities /\ served'[1] = served[1]
    BY <1>1 DEF Authorities
  <2>2. AllRelaysKept /\ ClientKept /\ Maps'
    BY <1>1, <2>1, OthersRest
  <2>3. AuthorityKept(1)
    BY <2>1 DEF varsA, AuthorityKept, Requests, Current, Coming, EpochOf, Pc
  <2>4. TimeKept
    BY DEF TimeKept, NoTrouble
  <2>5. served' = served \/ served'[2] = Serves(EpochOf(2))
    BY <1>1 DEF EpochOf
  <2> QED BY <2>2, <2>3, <2>4, <2>5 DEF OnlyAuthority, Authorities
<1>3. CASE B!StartAllocation /\ served' = served
  <2>1. Starts(2)
    BY <1>2, <1>3 DEF Starts, B!StartAllocation, B!has_come, B!stores, ScheduleKept,
       AllocationsKept, Requests, Current, Coming, EpochOf, Pc
  <2> QED BY <1>1, <2>1, StartsKeeps
<1>4. CASE B!AllocateRelays /\ served' = served
  <2>1. /\ pcB = "allocate"
        /\ request_storeB' = <<request_storeB[1], B!NoRequests>> /\ epochB' = epochB
        /\ pcB' = IF B!Weightless(request_storeB[2]) THEN "dead" ELSE "wait_switchover"
        /\ allocation_storeB'[1] = allocation_storeB[1]
        /\ ~B!Weightless(request_storeB[2]) =>
             /\ allocation_storeB'[2].allocations = B!Allocated(request_storeB[2])
             /\ allocation_storeB'[2].addresses = request_storeB[2].addresses
    BY <1>4 DEF B!AllocateRelays
  <2>2. /\ A!NoRequests = B!NoRequests
        /\ \A store : A!Weightless(store) = B!Weightless(store) /\ A!Allocated(store) = B!Allocated(store)
    BY DEF A!NoRequests, B!NoRequests, A!Weightless, B!Weightless, A!Allocated, B!Allocated
  <2>3. Makes(2)
    BY <1>2, <1>4, <2>1, <2>2 DEF Makes, ScheduleKept, Requests, New, Current, Coming, EpochOf, Pc
  <2> QED BY <1>1, <2>3, MakesKeeps
<1>5. CASE (B!StartAdvance \/ B!AdvanceRequests \/ B!ClearRequests) /\ served' = served
  <2>1. /\ \/ pcB = "wait_switchover" /\ epochB.switchover <= now /\ pcB' = "advance_requests"
           \/ pcB = "advance_requests" /\ pcB' = "advance_allocations"
           \/ pcB = "clear_requests" /\ pcB' = "clear_allocations"
        /\ request_storeB' = <<request_storeB'[1], request_storeB'[2]>>
        /\ request_storeB'[2] \in {request_storeB[2], B!NoRequests}
        /\ epochB' = epochB /\ allocation_storeB' = allocation_storeB
    BY <1>1, <1>5 DEF B!StartAdvance, B!AdvanceRequests, B!ClearRequests, B!has_come, B!stores
  <2>2. AdvancesOn(2)
    BY <1>2, <1>5, <2>1 DEF AdvancesOn, ScheduleKept, AllocationsKept, Requests, New, Current,
       Coming, EpochOf, Pc, A!NoRequests, B!NoRequests
  <2> QED BY <1>1, <2>2, AdvancesOnKeeps
<1>6. CASE B!AdvanceAllocations /\ served' = [served EXCEPT ![2] = Serves(epochB)]
  <2>1. served'[2] = Serves(EpochOf(2))
    BY <1>1, <1>6 DEF EpochOf
  <2>2. Switches(2)
    BY <1>2, <1>6, <2>1 DEF Switches, B!AdvanceAllocations, Requests, Current, Coming, EpochOf, Pc
  <2> QED BY <1>1, <2>2, SwitchesKeeps
<1>7. CASE B!ClearAllocations /\ served' = served
  <2>1. B!next(now) = next(now)
    BY DEF B!next, next, B!from_registration, from_registration
  <2>2. TurnsToNext(2)
    BY <1>2, <1>7, <2>1 DEF TurnsToNext, B!ClearAllocations, Requests, Current, EpochOf, Pc
  <2> QED BY <1>1, <2>2, TurnsToNextKeeps
<1> QED BY <1>3, <1>4, <1>5, <1>6, <1>7 DEF BStep

LEMMA RestartOfB ==
  ASSUME CalmInvariant, UNCHANGED varsA, RelayAndClientUnchanged, Trouble, now' = now,
         B!Restart, served' = [served EXCEPT ![2] = NoEpoch]
  PROVE  Keeps
<1>1. AnyTime /\ DOMAIN served = Authorities /\ 2 \in Authorities
  BY DEF CalmInvariant, AnyTime, Maps, Authorities
<1>2. DOMAIN served' = Authorities /\ served'[1] = served[1] /\ served'[2] = NoEpoch
  BY <1>1 DEF Authorities
<1>3. AllRelaysKept /\ ClientKept /\ Maps'
  BY <1>1, <1>2, OthersRest
<1>4. AuthorityKept(1)
  BY <1>2 DEF varsA, AuthorityKept, Requests, Current, Coming, EpochOf, Pc
<1>5. /\ request_storeB' = <<B!NoRequests, B!NoRequests>> /\ epochB' = next(now)
      /\ pcB' = "wait_allocation"
  BY DEF B!Restart, B!next, next, B!from_registration, from_registration
<1>6. trouble' = now
  BY DEF Trouble
<1>7. Restarts(2)
  BY <1>2, <1>3, <1>4, <1>5, <1>6 DEF Restarts, Authorities, Requests, EpochOf, Pc, A!NoRequests,
     B!NoRequests
<1> QED BY <1>1, <1>7, RestartsKeeps

\* The first authority takes a registration; then the second one does.
LEMMA RegistersIs ==
  ASSUME CalmInvariant, NEW r \in Relay, NEW a \in Authorities, Registers(r, a),
         UNCHANGED <<now, client, client_since>>
  PROVE  Keeps
<1>1. /\ RegisteredWith(r, a) /\ TimeKept /\ ClientKept /\ served' = served
      /\ NumAuthorities = 2
  BY TwoAuthorities DEF Registers, NoTrouble, TimeKept, client, ClientKept
<1>2. CASE a = 1
  <2>1. /\ request_storeA' = <<request_storeA[1],
              A!insert(request_storeA[2], used_key(r), r, WeightOf[r])>>
        /\ allocation_storeA' = allocation_storeA /\ epochA' = epochA /\ pcA' = pcA
        /\ UNCHANGED varsB
    BY <1>2 DEF Registers, A!handle_request
  <2>2. Listens(r, a)
    BY <1>2, <2>1 DEF Listens, Requests, New, Authorities, varsB
  <2>3. \A b \in Authorities : AuthorityRests(b)
    BY <1>1, <2>1 DEF AuthorityRests, AllocationsKept, ScheduleKept, Current, Coming, EpochOf, Pc,
       Authorities, varsB
  <2> QED BY <1>1, <2>2, <2>3, RegistersKeeps
<1>3. CASE a = 2
  <2>1. /\ request_storeB' = <<request_storeB[1],
              B!insert(request_storeB[2], used_key(r), r, WeightOf[r])>>
        /\ allocation_storeB' = allocation_storeB /\ epochB' = epochB /\ pcB' = pcB
        /\ UNCHANGED varsA
    BY <1>3 DEF Registers, B!handle_request
  <2>2. B!insert(request_storeB[2], used_key(r), r, WeightOf[r])
          = A!insert(request_storeB[2], used_key(r), r, WeightOf[r])
    BY DEF A!insert, B!insert, A!Put, B!Put
  <2>3. Listens(r, a)
    BY <1>3, <2>1, <2>2 DEF Listens, Requests, New, Authorities, varsA
  <2>4. \A b \in Authorities : AuthorityRests(b)
    BY <1>1, <2>1 DEF AuthorityRests, AllocationsKept, ScheduleKept, Current, Coming, EpochOf, Pc,
       Authorities, varsA
  <2> QED BY <1>1, <2>3, <2>4, RegistersKeeps
<1> QED BY <1>2, <1>3 DEF Authorities

\* The authorities do nothing.
LEMMA AuthoritiesRest ==
  ASSUME AuthoritiesUnchanged
  PROVE  served' = served /\ \A a \in Authorities : AuthorityKept(a)
BY DEF AuthoritiesUnchanged, varsA, varsB, AuthorityKept, Requests, Current, Coming, EpochOf, Pc

\* A step of a relay.
LEMMA StepOfRelay ==
  ASSUME CalmInvariant, NEW r \in Relay, RelayStep(r)
  PROVE  Keeps
<1>1. /\ now' = now /\ ClientKept /\ NumAuthorities = 2 /\ UNCHANGED <<now, client, client_since>>
  BY TwoAuthorities DEF RelayStep, client, ClientKept
<1>2. CASE RelayWorks(r)
  <2>1. TimeKept /\ Elsewhere
    BY <1>1, <1>2, AuthoritiesRest DEF RelayWorks, NoTrouble, TimeKept, Elsewhere
  <2> QED BY <1>1, <1>2, <2>1, StartRelayKeeps, BeginRegistrationKeeps, BeginFetchKeeps,
             FetchPublicKeyKeeps, FetchKeysKeeps, ReachSwitchoverKeeps, SwapKeeps DEF RelayWorks
<1>3. CASE RelayFails(r)
  <2>1. trouble' = now /\ Elsewhere /\ (CrashRelay(r) \/ TaskFails(r))
    BY <1>1, <1>3, AuthoritiesRest DEF RelayFails, Trouble, Elsewhere
  <2> QED BY <1>1, <2>1, RelayFailsKeeps
<1>4. ASSUME NEW a \in Authorities, RegistrationLost(r, a) PROVE Keeps
  <2>1. trouble' = now /\ Elsewhere /\ RegisteredWith(r, a)
    BY <1>1, <1>4, AuthoritiesRest DEF RegistrationLost, Trouble, Elsewhere
  <2> QED BY <1>1, <2>1, RegistrationLostKeeps
<1>5. ASSUME NEW a \in Authorities, Registers(r, a) PROVE Keeps
  BY <1>1, <1>5, RegistersIs
<1> QED BY <1>2, <1>3, <1>4, <1>5 DEF RelayStep

\* A step of the client.
LEMMA StepOfClient ==
  ASSUME CalmInvariant, ClientStep
  PROVE  Keeps
<1>1. now' = now /\ Apart /\ NumAuthorities = 2
  <2>1. now' = now /\ UNCHANGED relayVars /\ served' = served
        /\ \A a \in Authorities : AuthorityKept(a)
    BY AuthoritiesRest DEF ClientStep
  <2>2. AllRelaysKept /\ Maps'
    BY <2>1 DEF relayVars, AllRelaysKept, RelayKept, CalmInvariant, AnyTime, Maps
  <2> QED BY <2>1, <2>2, TwoAuthorities DEF Apart
<1>2. CASE ClientFails
  BY <1>1, <1>2, ClientFailsKeeps DEF ClientFails, Trouble
<1>3. CASE ClientWorks
  <2>1. TimeKept
    BY <1>1, <1>3 DEF ClientWorks, NoTrouble, TimeKept
  <2>2. CASE C!FetchCurrent(get_current_public_key(C!Asking))
    <3>1. client_since' = now
      BY <1>3, <2>2 DEF ClientWorks, C!FetchCurrent
    <3> QED BY <1>1, <2>1, <2>2, <3>1, FetchCurrentKeeps
  <2>3. CASE C!StartClient \/ C!BeginRetrieval \/ C!SwitchKeys
               \/ C!FetchNext(get_next_public_key(C!Asking))
    <3>1. client_since' = client_since
      BY <1>3, <2>3 DEF ClientWorks, C!StartClient, C!BeginRetrieval, C!SwitchKeys, C!FetchNext
    <3> QED BY <1>1, <2>1, <2>3, <3>1, StartClientKeeps, BeginRetrievalKeeps, SwitchKeysKeeps,
               FetchNextKeeps
  <2> QED BY <1>3, <2>2, <2>3 DEF ClientWorks
<1> QED BY <1>2, <1>3 DEF ClientStep

\* The clock ticks.
LEMMA StepOfClock ==
  ASSUME CalmInvariant, Tick
  PROVE  Keeps
<1>1. AllRelaysKept /\ ClientKept /\ Maps' /\ \A a \in Authorities : AuthorityKept(a)
  BY OthersRest, AuthoritiesRest DEF Tick, CalmInvariant, AnyTime, Maps
<1>2. \/ trouble' = now + 1
      \/ /\ trouble' = trouble /\ (Instant(now + 1) => Quiet)
         /\ ~A!TooFewRelays /\ ~B!TooFewRelays /\ "dead" \notin {pcA, pcB}
  BY DEF Tick
<1>3. now' = now + 1
  BY DEF Tick
<1>4. Ticks
  BY <1>1, <1>2, <1>3, QuietIs DEF Ticks, Authorities
<1> QED BY <1>4, TicksKeeps

\* A step in which nothing changes.
LEMMA StepOfNobody ==
  ASSUME CalmInvariant, UNCHANGED vars
  PROVE  Keeps
<1>1. /\ TimeKept /\ AllRelaysKept /\ ClientKept /\ \A a \in Authorities : AuthorityKept(a)
      /\ Maps'
  <2>1. UNCHANGED <<now, varsA, varsB, relayVars, client, history>>
    BY DEF vars
  <2>2. RelayAndClientUnchanged /\ AuthoritiesUnchanged /\ DOMAIN served' = Authorities
    BY <2>1 DEF RelayAndClientUnchanged, AuthoritiesUnchanged, history, CalmInvariant, AnyTime, Maps
  <2> QED BY <2>1, <2>2, OthersRest, AuthoritiesRest DEF TimeKept, history, CalmInvariant
<1>2. /\ Last' = Last /\ Calm' = Calm /\ CalmForTwo' = CalmForTwo /\ Beginning' = Beginning
      /\ AnyTime /\ (Calm => OnTime) /\ (CalmForTwo => FreshKeysAgree)
  BY <1>1, CalmKept DEF CalmInvariant
<1>3. \A a : Fresh(a)' = Fresh(a) /\ Current(a)' = Current(a) /\ HasAdvanced(a)' = HasAdvanced(a)
  BY <1>2 DEF vars, varsA, varsB, Fresh, Current, Coming, HasAdvanced, Pc, EpochOf
<1>4. ClientAnyTime' /\ (Calm => ClientOnTime')
  BY <1>1, <1>2, ClientStays DEF AnyTime, OnTime
<1>5. Calm => PublicKeysFetched'
  BY <1>1, <1>2, <1>3 DEF OnTime, PublicKeysFetched, ClientKept
<1>6. CalmForTwo => \A a \in Authorities : OldPublicKeys(a)'
  BY <1>1, <1>2, <1>3 DEF FreshKeysAgree, OldPublicKeys, ClientRuns, ClientKept
<1> QED BY <1>1, <1>4, <1>5, <1>6, ClientFrame DEF Apart

-----------------------------------------------------------------------------
(* The theorems.                                                           *)

\* Every step of the network, and every step in which it rests, keeps the
\* invariants.
LEMMA NetworkKeeps ==
  ASSUME CalmInvariant, [NetworkNext]_vars
  PROVE  Keeps
<1>1. CASE AuthoritySkips
  <2>1. UNCHANGED <<now, varsA, varsB, served, trouble, troubles>> /\ RelayAndClientUnchanged
    BY <1>1 DEF AuthoritySkips, NoTrouble, A!Skip, B!Skip, A!vars, B!vars, A!stores, B!stores,
       varsA, varsB
  <2>2. UNCHANGED vars
    BY <2>1 DEF RelayAndClientUnchanged, vars, history
  <2> QED BY <2>2, StepOfNobody
<1>2. CASE AuthoritySwitches
  BY <1>2, StepOfA, StepOfB DEF AuthoritySwitches
<1>3. CASE AuthorityWorks
  BY <1>3, StepOfA, StepOfB DEF AuthorityWorks
<1>4. CASE AuthorityRestarts
  BY <1>4, RestartOfA, RestartOfB DEF AuthorityRestarts
<1>5. ASSUME NEW r \in Relay, RelayStep(r) PROVE Keeps
  BY <1>5, StepOfRelay
<1>6. CASE ClientStep
  BY <1>6, StepOfClient
<1>7. CASE Tick
  BY <1>7, StepOfClock
<1>8. CASE UNCHANGED vars
  BY <1>8, StepOfNobody
<1> QED BY <1>1, <1>2, <1>3, <1>4, <1>5, <1>6, <1>7, <1>8 DEF NetworkNext

\* What has been calm since the epoch before the one that an authority serves.
LEMMA UntroubledIs ==
  ASSUME CalmInvariant, Quiet, NEW a \in Authorities, Untroubled(a)
  PROVE  /\ CalmForTwo
         /\ HasAdvanced(a) =>
              /\ served[a] = Last /\ ~Beginning /\ Within(SWITCHOVER, EPOCH_DURATION)
              /\ HasAllocated(a) /\ Fresh(a) = Current(a)
         /\ ~HasAdvanced(a) =>
              /\ served[a] = Last - EPOCH_DURATION /\ CalmForThree
              /\ ~Within(SWITCHOVER, EPOCH_DURATION)
<1>1. /\ AnyTime /\ AuthorityAnyTime(a) /\ ServedOnTime(a) /\ served[a] # NoEpoch
      /\ served[a] - EPOCH_DURATION > trouble
      /\ Last \in Int /\ now \in Int /\ EPOCH_DURATION \in Nat \ {0} /\ trouble \in Int
      /\ Last # Last + EPOCH_DURATION
  BY Schedule, EpochAssumption DEF CalmInvariant, AnyTime, Untroubled
<1>2. CalmForTwo
  <2> DEFINE t == served[a]
  <2>1. RegistrationTime(t) /\ t <= now
    BY <1>1 DEF AuthorityAnyTime
  <2>2. t \in Int /\ t <= Last
    BY <1>1, <2>1, EpochsAre
  <2> QED BY <1>1, <2>2 DEF CalmForTwo
<1>3. Calm /\ AuthorityOnTime(a)
  BY <1>1, <1>2, CalmIsLess DEF CalmInvariant, OnTime
<1>4. ~AuthorityBusy(a)
  BY QuietIs
<1>5. ASSUME HasAdvanced(a)
      PROVE  /\ served[a] = Last /\ ~Beginning /\ Within(SWITCHOVER, EPOCH_DURATION)
             /\ HasAllocated(a) /\ Fresh(a) = Current(a)
  <2>1. served[a] = Last /\ ~Beginning
    BY <1>1, <1>3, <1>5 DEF ServedOnTime
  <2>2. EpochOf(a).registration = Last + EPOCH_DURATION
    BY <1>4, <1>5 DEF HasAdvanced, AuthorityBusy, Clearing, Advancing
  <2>3. Pc(a) = "wait_allocation" /\ Within(SWITCHOVER, EPOCH_DURATION)
    BY <1>1, <1>3, <2>1, <2>2 DEF AuthorityOnTime
  <2> QED BY <1>5, <2>1, <2>2, <2>3 DEF HasAllocated, Fresh
<1>6. ASSUME ~HasAdvanced(a)
      PROVE  /\ served[a] = Last - EPOCH_DURATION /\ CalmForThree
             /\ ~Within(SWITCHOVER, EPOCH_DURATION)
  <2>1. served[a] = Last - EPOCH_DURATION
    BY <1>1, <1>2, <1>6 DEF ServedOnTime
  <2>2. CalmForThree
    BY <1>1, <2>1 DEF CalmForThree
  <2>3. ASSUME Within(SWITCHOVER, EPOCH_DURATION) PROVE FALSE
    <3>1. EpochOf(a).registration = Last /\ Pc(a) \in {"wait_switchover"} \cup Advancing
      BY <1>3, <1>6, <2>3 DEF AuthorityOnTime, HasAdvanced
    <3>2. EpochOf(a).switchover = Last + SWITCHOVER
      BY <1>1, <3>1, InstantsAre DEF AuthorityAnyTime
    <3>3. Last + SWITCHOVER <= now
      BY <2>3 DEF Within
    <3> QED BY <1>4, <3>1, <3>2, <3>3 DEF AuthorityBusy
  <2> QED BY <2>1, <2>2, <2>3
<1> QED BY <1>2, <1>5, <1>6

\* After the switchover, whoever takes part has swapped; before, nobody has.
LEMMA SwappedIs ==
  ASSUME CalmInvariant, Calm, Quiet, NEW r \in Relay
  PROVE  /\ Participates(r) => relay_pc[r] \notin {"off", "dead"}
         /\ live_authorities[r] # <<>> => relay_pc[r] # "off"
         /\ HasSwapped(r) => Within(SWITCHOVER, EPOCH_DURATION) /\ Participates(r)
         /\ Within(SWITCHOVER, EPOCH_DURATION) /\ ~Beginning =>
              (Participates(r) \/ (live_authorities[r] # <<>> /\ relay_pc[r] # "dead")
                 => HasSwapped(r))
<1>1. /\ RelayAnyTime(r) /\ RelayOnTime(r) /\ ~RelayBusy(r)
      /\ Last \in Int /\ now \in Int /\ EPOCH_DURATION \in Nat \ {0}
      /\ Last # Last + EPOCH_DURATION
  BY Schedule, EpochAssumption, QuietIs DEF CalmInvariant, AnyTime, OnTime
<1>2. Participates(r) => relay_pc[r] \notin {"off", "dead"}
  BY DEF Participates, HasSwapped
<1>3. live_authorities[r] # <<>> => relay_pc[r] # "off"
  BY <1>1 DEF RelayAnyTime
<1>4. HasSwapped(r) => Within(SWITCHOVER, EPOCH_DURATION) /\ Participates(r)
  BY <1>1 DEF RelayOnTime, HasSwapped, Participates
<1>5. ASSUME Within(SWITCHOVER, EPOCH_DURATION), ~Beginning,
             Participates(r) \/ (live_authorities[r] # <<>> /\ relay_pc[r] # "dead")
      PROVE  HasSwapped(r)
  <2>1. relay_pc[r] \notin {"off", "dead", "swap"}
    BY <1>1, <1>2, <1>3, <1>5 DEF RelayBusy
  <2>2. relay_pc[r] = "wait_registration" /\ live_authorities[r] = <<>> =>
          relay_epoch[r].registration = Last
    BY <1>5 DEF Participates, HasSwapped
  <2>3. ASSUME relay_pc[r] = "wait_switchover", relay_epoch[r].registration = Last PROVE FALSE
    <3>1. relay_epoch[r].switchover = Last + SWITCHOVER
      BY <1>1, <2>3, InstantsAre DEF RelayAnyTime
    <3>2. Last + SWITCHOVER <= now
      BY <1>5 DEF Within
    <3> QED BY <1>1, <2>3, <3>1, <3>2 DEF RelayBusy, has_come
  <2> QED BY <1>1, <1>5, <2>1, <2>2, <2>3 DEF RelayOnTime
<1> QED BY <1>2, <1>3, <1>4, <1>5

\* The client's keys are in sync once everybody is at rest.
LEMMA ClientInSyncHolds == CalmInvariant => ClientInSync
<1> SUFFICES ASSUME CalmInvariant, Quiet, ClientRuns, NEW a \in Authorities,
                    Untroubled(a), client_since < served[a]
             PROVE  public_keys[a] = Current(a).params
  BY DEF ClientInSync
<1>1. /\ AnyTime /\ CalmForTwo /\ Calm /\ OnTime /\ FreshKeysAgree
      /\ Last \in Int /\ now \in Int /\ EPOCH_DURATION \in Nat \ {0}
      /\ client_since \in Nat /\ Last # Last + EPOCH_DURATION
  BY UntroubledIs, CalmIsLess, Schedule, EpochAssumption DEF CalmInvariant, AnyTime, ClientAnyTime
<1>2. ClientOnTime /\ PublicKeysFetched /\ ~C!ClientBusy /\ OldPublicKeys(a) /\ ClientAnyTime
  BY <1>1, QuietIs DEF OnTime, FreshKeysAgree, AnyTime
<1>3. client_pc \in {"wait_finish", "wait_switchover"}
  BY <1>2 DEF ClientRuns, C!ClientBusy
<1>4. CASE HasAdvanced(a)
  <2>1. /\ served[a] = Last /\ ~Beginning /\ Within(SWITCHOVER, EPOCH_DURATION)
        /\ Fresh(a) = Current(a)
    BY <1>4, UntroubledIs
  <2>2. ASSUME client_pc = "wait_switchover", client_epoch.registration = Last PROVE FALSE
    <3>1. client_epoch.switchover = Last + SWITCHOVER
      BY <1>2, <2>2, InstantsAre DEF ClientAnyTime
    <3>2. Last + SWITCHOVER <= now
      BY <2>1 DEF Within
    <3> QED BY <1>2, <2>2, <3>1, <3>2 DEF C!ClientBusy, C!has_come
  <2>3. client_pc = "wait_finish" /\ client_epoch.registration = Last + EPOCH_DURATION
    BY <1>2, <1>3, <2>1, <2>2 DEF ClientOnTime
  <2> QED BY <1>2, <2>1, <2>3 DEF PublicKeysFetched
<1>5. CASE ~HasAdvanced(a)
  <2>1. served[a] = Last - EPOCH_DURATION /\ ~Within(SWITCHOVER, EPOCH_DURATION)
    BY <1>5, UntroubledIs
  <2>2. client_since < Last
    BY <1>1, <2>1
  <2>3. client_epoch.registration = Last
    BY <1>2, <1>3, <2>1, <2>2 DEF ClientOnTime
  <2> QED BY <1>2, <1>5, <2>1, <2>3 DEF OldPublicKeys
<1> QED BY <1>4, <1>5

\* Two authorities without trouble have advanced both, or none of them has.
LEMMA AdvancedTogether ==
  ASSUME CalmInvariant, Quiet, \A a \in Authorities : Untroubled(a)
  PROVE  /\ AnyTime /\ CalmForTwo /\ Calm /\ OnTime /\ FreshKeysAgree
         /\ \/ /\ \A a \in Authorities :
                    HasAdvanced(a) /\ served[a] = Last /\ IsFor(Current(a), KeyOf)
                      /\ Fresh(a) = Current(a)
               /\ Within(SWITCHOVER, EPOCH_DURATION) /\ ~Beginning
            \/ /\ \A a \in Authorities : ~HasAdvanced(a) /\ served[a] = Last - EPOCH_DURATION
               /\ ~Within(SWITCHOVER, EPOCH_DURATION) /\ CalmForThree
<1>1. 1 \in Authorities /\ 2 \in Authorities /\ Authorities = {1, 2}
  BY DEF Authorities
<1>2. CalmForTwo /\ AnyTime /\ Calm /\ OnTime /\ FreshKeysAgree
  BY <1>1, UntroubledIs, CalmIsLess DEF CalmInvariant
<1>3. CASE HasAdvanced(1)
  <2>1. Within(SWITCHOVER, EPOCH_DURATION) /\ ~Beginning
    BY <1>1, <1>3, UntroubledIs
  <2>2. \A a \in Authorities : HasAdvanced(a)
    BY <1>1, <1>3, <2>1, UntroubledIs
  <2>3. \A a \in Authorities : served[a] = Last /\ HasAllocated(a) /\ Fresh(a) = Current(a)
    BY <2>2, UntroubledIs
  <2>4. \A a \in Authorities : IsFor(Current(a), KeyOf)
    BY <1>2, <2>3 DEF FreshKeysAgree, AllocationMade
  <2> QED BY <1>2, <2>1, <2>2, <2>3, <2>4
<1>4. CASE ~HasAdvanced(1)
  <2>1. ~Within(SWITCHOVER, EPOCH_DURATION) /\ CalmForThree
    BY <1>1, <1>4, UntroubledIs
  <2>2. \A a \in Authorities : ~HasAdvanced(a)
    BY <1>1, <1>4, <2>1, UntroubledIs
  <2>3. \A a \in Authorities : served[a] = Last - EPOCH_DURATION
    BY <2>2, UntroubledIs
  <2> QED BY <1>2, <2>1, <2>2, <2>3
<1> QED BY <1>3, <1>4

\* At rest after two calm epochs, authorities agree.
LEMMA AuthoritiesAgreeHolds == CalmInvariant => AuthoritiesAgree
<1> SUFFICES ASSUME CalmInvariant, Quiet, \A a \in Authorities : Untroubled(a)
             PROVE  /\ served[1] = served[2]
                    /\ \A x \in Identity : get_relay_address(1, x) = get_relay_address(2, x)
  BY DEF AuthoritiesAgree
<1>1. 1 \in Authorities /\ 2 \in Authorities
  BY DEF Authorities
<1>2. served[1] = served[2]
  BY <1>1, AdvancedTogether
<1>3. CASE \A a \in Authorities : IsFor(Current(a), KeyOf)
  BY <1>1, <1>2, <1>3, SameAddresses DEF get_relay_address
<1>4. CASE CalmForThree /\ \A a \in Authorities : ~HasAdvanced(a)
  BY <1>1, <1>2, <1>4 DEF CalmInvariant, OldAddressesAgree
<1> QED BY <1>3, <1>4, AdvancedTogether

\* At rest after two calm epochs, relays have the keys that go with their identities.
LEMMA RelaysInSyncHolds == NetworkInvariant /\ AllocatesDisjointly => RelaysInSync
<1> SUFFICES ASSUME NetworkInvariant, AllocatesDisjointly, Quiet, NEW a \in Authorities,
                    NEW r \in Relay, Untroubled(a), live_authorities[r] # <<>>, relay_pc[r] # "dead"
             PROVE  InSync(live_authorities[r][a], Current(a), r)
  BY DEF RelaysInSync, InSync, get_relay_address
<1>1. CalmInvariant /\ AnyTime /\ CalmForTwo /\ Calm /\ FreshKeysAgree
  BY UntroubledIs, CalmIsLess DEF CalmInvariant, NetworkInvariant
<1>2. CASE HasAdvanced(a)
  <2>1. /\ ~Beginning /\ Within(SWITCHOVER, EPOCH_DURATION)
        /\ HasAllocated(a) /\ Fresh(a) = Current(a)
    BY <1>1, <1>2, UntroubledIs
  <2>2. HasSwapped(r) /\ r \in Present
    BY <1>1, <2>1, SwappedIs DEF Present
  <2>3. IsFor(Current(a), KeyOf) /\ IsGiven(live_authorities[r][a], Current(a), used_key(r))
    BY <1>1, <2>1, <2>2 DEF FreshKeysAgree, AllocationMade, KeysFetched
  <2> QED BY <2>2, <2>3, GivenInSync
<1>3. CASE ~HasAdvanced(a)
  <2>1. CalmForThree /\ ~Within(SWITCHOVER, EPOCH_DURATION)
    BY <1>1, <1>3, UntroubledIs
  <2>2. ~HasSwapped(r)
    BY <1>1, <2>1, SwappedIs
  <2> QED BY <1>3, <2>1, <2>2 DEF NetworkInvariant, OldKeys
<1> QED BY <1>2, <1>3

\* At rest after two calm epochs, an identity that is given to somebody has a relay with its keys.
LEMMA OnionsAreUnwrappedHolds == NetworkInvariant /\ AllocatesDisjointly => OnionsAreUnwrapped
<1> SUFFICES ASSUME NetworkInvariant, AllocatesDisjointly, Quiet,
                    \A a \in Authorities : Untroubled(a),
                    NEW x \in Identity, NEW a \in Authorities, NEW r \in get_relay_address(a, x)
             PROVE  /\ relay_pc[r] \notin {"off", "dead"}
                    /\ \A b \in Authorities :
                         /\ x \in live_authorities[r][b].received_keys
                         /\ live_authorities[r][b].public_key = Current(b).params
  BY DEF OnionsAreUnwrapped
<1>1. CalmInvariant /\ AnyTime /\ CalmForTwo /\ Calm /\ FreshKeysAgree
  BY AdvancedTogether DEF NetworkInvariant
<1>2. CASE /\ \A b \in Authorities : HasAdvanced(b) /\ IsFor(Current(b), KeyOf)
                                       /\ Fresh(b) = Current(b)
           /\ Within(SWITCHOVER, EPOCH_DURATION) /\ ~Beginning
  <2>1. r \in Present /\ x \in Current(a).allocations[used_key(r)]
    BY <1>2, AddressHasKeys DEF get_relay_address
  <2>2. r \in Relay /\ Participates(r)
    BY <2>1 DEF Present
  <2>3. HasSwapped(r) /\ relay_pc[r] \notin {"off", "dead"}
    BY <1>1, <1>2, <2>2, SwappedIs
  <2>4. ASSUME NEW b \in Authorities
        PROVE  /\ x \in live_authorities[r][b].received_keys
               /\ live_authorities[r][b].public_key = Current(b).params
    <3>1. IsGiven(live_authorities[r][b], Current(b), used_key(r))
      BY <1>1, <1>2, <2>2, <2>3 DEF FreshKeysAgree, KeysFetched
    <3>2. Current(a).allocations[used_key(r)] = Current(b).allocations[used_key(r)]
      <4>1. used_key(r) = KeyOf[r] /\ r \in DOMAIN KeyOf
        BY <2>1, KeysDiffer
      <4> QED BY <1>2, <4>1 DEF IsFor
    <3> QED BY <2>1, <3>1, <3>2 DEF IsGiven
  <2> QED BY <2>3, <2>4
<1>3. CASE /\ \A b \in Authorities : ~HasAdvanced(b)
           /\ ~Within(SWITCHOVER, EPOCH_DURATION) /\ CalmForThree
  <2>1. \A b \in Authorities : OldKeys(b)
    BY <1>3 DEF NetworkInvariant
  <2>2. get_relay_address(a, x) = {r} /\ r \in Present /\ live_authorities[r] # <<>>
    BY <1>3, <2>1 DEF OldKeys
  <2>3. r \in Relay /\ relay_pc[r] \notin {"off", "dead"} /\ ~HasSwapped(r)
    BY <1>1, <1>3, <2>2, SwappedIs DEF Present
  <2>4. ASSUME NEW b \in Authorities
        PROVE  /\ x \in live_authorities[r][b].received_keys
               /\ live_authorities[r][b].public_key = Current(b).params
    <3>1. InSync(live_authorities[r][b], Current(b), r)
      BY <1>3, <2>1, <2>2, <2>3 DEF OldKeys
    <3>2. get_relay_address(b, x) = {r}
      BY <1>1, <1>3, <2>2 DEF CalmInvariant, OldAddressesAgree, Authorities
    <3> QED BY <3>1, <3>2 DEF InSync, get_relay_address
  <2> QED BY <2>3, <2>4
<1> QED BY <1>1, <1>2, <1>3, AdvancedTogether

\* At any time: where everybody is, and what everybody has, as far as it follows
\* from there having been no trouble for one, two or three epochs.
THEOREM NetworkStaysCalm == NetworkSpec => []CalmInvariant
<1>1. NetworkInit => CalmInvariant
  BY NetworkStarts DEF NetworkInvariant
<1>2. CalmInvariant /\ [NetworkNext]_vars => CalmInvariant'
  BY NetworkKeeps DEF Keeps
<1> QED BY <1>1, <1>2, PTL DEF NetworkSpec

\* A client wraps onions with the keys that the authorities serve.
THEOREM NetworkClientInSync == NetworkSpec => []ClientInSync
BY NetworkStaysCalm, ClientInSyncHolds, PTL

\* The authorities switch together and agree on the relay of every identity,
\* for whatever allocation::allocate computes.
THEOREM NetworkAuthoritiesAgree == NetworkSpec => []AuthoritiesAgree
BY NetworkStaysCalm, AuthoritiesAgreeHolds, PTL

\* If identities are never allocated to two relays, the old keys too go
\* together with what the authorities serve.
THEOREM NetworkKeepsOldKeys ==
  ASSUME AllocatesDisjointly
  PROVE  NetworkSpec => []NetworkInvariant
<1>1. NetworkInit => NetworkInvariant
  BY NetworkStarts
<1>2. NetworkInvariant /\ [NetworkNext]_vars => NetworkInvariant'
  BY NetworkKeeps DEF Keeps, NetworkInvariant
<1> QED BY <1>1, <1>2, PTL DEF NetworkSpec

\* Then the relays have the keys of exactly those identities that the
\* authorities send to them.
THEOREM NetworkRelaysInSync ==
  ASSUME AllocatesDisjointly
  PROVE  NetworkSpec => []RelaysInSync
<1>1. NetworkInvariant => RelaysInSync
  BY RelaysInSyncHolds
<1> QED BY <1>1, NetworkKeepsOldKeys, PTL

\* And onions reach relays that can unwrap them.
THEOREM NetworkOnionsAreUnwrapped ==
  ASSUME AllocatesDisjointly
  PROVE  NetworkSpec => []OnionsAreUnwrapped
<1>1. NetworkInvariant => OnionsAreUnwrapped
  BY OnionsAreUnwrappedHolds
<1> QED BY <1>1, NetworkKeepsOldKeys, PTL
=============================================================================
