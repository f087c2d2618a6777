---------------------------- MODULE ServerProofs ----------------------------
(***************************************************************************)
(* Proofs about the server's parts, for any number of requests, rows,      *)
(* packages, sessions and addresses.                                       *)
(***************************************************************************)
EXTENDS KeysProofs, SequenceTheorems, WellFoundedInduction

-----------------------------------------------------------------------------
(* Numbers and times *)

LEMMA Least == \A T \in SUBSET Nat : T # {} => \E x \in T : \A y \in T : x <= y
PROOF
<1> SUFFICES ASSUME NEW T \in SUBSET Nat, T # {}
             PROVE  \E x \in T : \A y \in T : x <= y
  OBVIOUS
<1>1. PICK x \in T : \A y \in T : <<y, x>> \notin OpToRel(<, Nat)
  BY WFMin, NatLessThanWellFounded, Zenon
<1>2. \A y \in T : ~ (y < x)
  BY <1>1, Zenon DEF OpToRel
<1> QED
  BY <1>2

\* One more than the greatest of some ids is none of them (SQLite's next row id).
LEMMA NextId ==
    ASSUME NEW n \in Nat, NEW D, D \subseteq 1 .. n
    PROVE  LET next == IF D = {} THEN 1 ELSE Max(D) + 1
           IN  next \in 1 .. n + 1 /\ next \notin D
PROOF
<1> DEFINE Top == {m \in Nat : \A i \in D : i <= m}
<1>1. CASE D = {}
  BY <1>1
<1>2. CASE D # {}
  <2>1. n \in Top
    OBVIOUS
  <2>2. PICK t \in Top : \A m \in Top : t <= m
    <3>1. Top \in SUBSET Nat
      OBVIOUS
    <3> QED
      BY <2>1, <3>1, Least
  <2>3. t \in D
    <3>1. SUFFICES ASSUME t \notin D
                   PROVE  FALSE
      OBVIOUS
    <3>2. PICK i \in D : TRUE
      BY <1>2
    <3>3. t \in Nat /\ i <= t /\ i \in Nat /\ i # t /\ i >= 1
      BY <2>2, <3>1, <3>2
    <3>4. \A j \in D : j \in Nat /\ j <= t /\ j # t
      BY <2>2, <3>1
    <3>5. t - 1 \in Top
      BY <3>3, <3>4
    <3> QED
      BY <2>2, <3>3, <3>5
  <2>4. t \in Nat /\ \A i \in D : i <= t
    BY <2>2
  <2>5. \E x \in D : \A y \in D : x >= y
    BY <2>3, <2>4
  <2>6. Max(D) \in D /\ \A y \in D : Max(D) >= y
    BY <2>5 DEF Max
  <2> DEFINE top == Max(D)
  <2>7. top \in D /\ \A y \in D : top >= y
    BY <2>6
  <2> HIDE DEF top
  <2>8. top + 1 \in 1 .. n + 1 /\ top + 1 \notin D
    BY <2>7
  <2> QED
    BY <1>2, <2>8 DEF top
<1> QED
  BY <1>1, <1>2

\* Popping the old times from the front leaves the last of them.
LEMMA Popping ==
    ASSUME NEW now \in Nat, NEW window \in Nat, NEW times \in Seq(Nat)
    PROVE  \E k \in 0 .. Len(times) :
              /\ PopOld(times, now, window) = SubSeq(times, k + 1, Len(times))
              /\ \A i \in 1 .. k : Aged(times[i], now, window)
              /\ k < Len(times) => ~Aged(times[k + 1], now, window)
PROOF
<1> DEFINE Stops(n) == /\ \A i \in 1 .. n - 1 : Aged(times[i], now, window)
                       /\ n <= Len(times) => ~Aged(times[n], now, window)
           Young == {n \in 1 .. Len(times) + 1 : n <= Len(times) => ~Aged(times[n], now, window)}
<1>0. Len(times) \in Nat
  OBVIOUS
<1>1. PICK m \in Young : \A n \in Young : m <= n
  <2>1. Len(times) + 1 \in Young
    BY <1>0
  <2>2. Young \in SUBSET Nat
    BY <1>0
  <2> QED
    BY <2>1, <2>2, Least
<1>2. m \in 1 .. Len(times) + 1 /\ Stops(m)
  <2>1. ASSUME NEW i \in 1 .. m - 1
        PROVE  Aged(times[i], now, window)
    <3>1. i \in 1 .. Len(times) + 1 /\ ~ (m <= i)
      BY <1>0
    <3>2. i \notin Young
      BY <1>1, <3>1
    <3> QED
      BY <3>1, <3>2
  <2> QED
    BY <1>0, <2>1
<1> DEFINE first == CHOOSE n \in 1 .. Len(times) + 1 : Stops(n)
<1>3. first \in 1 .. Len(times) + 1 /\ Stops(first)
  BY <1>2
<1>4. PopOld(times, now, window) = SubSeq(times, first, Len(times))
  BY DEF PopOld
<1> HIDE DEF first
<1>5. PICK k \in 0 .. Len(times) : k + 1 = first
  BY <1>0, <1>3
<1>6. /\ PopOld(times, now, window) = SubSeq(times, k + 1, Len(times))
      /\ \A i \in 1 .. k : Aged(times[i], now, window)
      /\ k < Len(times) => ~Aged(times[k + 1], now, window)
  <2>1. k \in Nat /\ k = first - 1
    BY <1>0, <1>3, <1>5
  <2> QED
    BY <1>0, <1>3, <1>4, <1>5, <2>1
<1> QED
  BY <1>6

LEMMA SeqOfNat ==
    ASSUME NEW n \in Nat, NEW s \in Seq(1 .. n)
    PROVE  s \in Seq(Nat) /\ \A i \in 1 .. Len(s) : s[i] \in 1 .. n
PROOF
<1>1. \A i \in 1 .. Len(s) : s[i] \in 1 .. n /\ s[i] \in Nat
  OBVIOUS
<1>2. s \in [1 .. Len(s) -> Nat] /\ Len(s) \in Nat
  BY <1>1
<1> QED
  BY <1>1, <1>2, SeqDef

\* What is left of the times, and that it is fewer the later one looks.
LEMMA PopOldType ==
    ASSUME NEW now \in Nat, NEW window \in Nat, NEW n \in Nat, NEW times \in Seq(1 .. n)
    PROVE  /\ PopOld(times, now, window) \in Seq(1 .. n)
           /\ Len(PopOld(times, now, window)) \in Nat
           /\ Len(PopOld(times, now, window)) <= Len(times)
           /\ \A i \in 1 .. Len(PopOld(times, now, window)) :
                 PopOld(times, now, window)[i] = times[Len(times) - Len(PopOld(times, now, window)) + i]
PROOF
<1>1. times \in Seq(Nat) /\ Len(times) \in Nat
  BY SeqOfNat
<1>2. PICK k \in 0 .. Len(times) :
         /\ PopOld(times, now, window) = SubSeq(times, k + 1, Len(times))
         /\ \A i \in 1 .. k : Aged(times[i], now, window)
  BY <1>1, Popping
<1>3. k + 1 \in Int /\ Len(times) \in Int /\ k + 1 \in 1 .. Len(times) + 1
  BY <1>1, <1>2
<1>4. PICK m \in 1 .. Len(times) + 1 : m = k + 1
  BY <1>3
<1>5. /\ SubSeq(times, m, Len(times)) \in Seq(1 .. n)
      /\ Len(SubSeq(times, m, Len(times))) = Len(times) - m + 1
      /\ \A i \in 1 .. Len(times) - m + 1 : SubSeq(times, m, Len(times))[i] = times[m + i - 1]
  <2>1. /\ Len(SubSeq(times, m, Len(times))) = IF m <= Len(times) THEN Len(times) - m + 1 ELSE 0
        /\ \A i \in 1 .. Len(times) - m + 1 : SubSeq(times, m, Len(times))[i] = times[m + i - 1]
    BY <1>1, <1>4, SubSeqProperties
  <2>2. SubSeq(times, m, Len(times)) \in Seq(1 .. n)
    BY <1>1, <1>4, SubSeqProperties
  <2> QED
    BY <1>1, <1>4, <2>1, <2>2
<1>6. PICK rest : rest = PopOld(times, now, window)
  OBVIOUS
<1>7. /\ rest \in Seq(1 .. n) /\ Len(rest) = Len(times) - m + 1
      /\ \A i \in 1 .. Len(rest) : rest[i] = times[m + i - 1]
  BY <1>2, <1>4, <1>5, <1>6
<1>8. \A i \in 1 .. Len(rest) : m + i - 1 = Len(times) - Len(rest) + i
  BY <1>1, <1>4, <1>7, SMTT(30)
<1> QED
  BY <1>1, <1>4, <1>6, <1>7, <1>8, SMTT(30)

LEMMA PopOldFewer ==
    ASSUME NEW now \in Nat, NEW later \in Nat, now <= later, NEW window \in Nat, NEW n \in Nat,
           NEW times \in Seq(1 .. n)
    PROVE  Len(PopOld(times, later, window)) <= Len(PopOld(times, now, window))
PROOF
<1>1. times \in Seq(Nat) /\ Len(times) \in Nat
  BY SeqOfNat
<1>2. PICK k \in 0 .. Len(times) :
         /\ PopOld(times, now, window) = SubSeq(times, k + 1, Len(times))
         /\ \A i \in 1 .. k : Aged(times[i], now, window)
  BY <1>1, Popping
<1>3. PICK l \in 0 .. Len(times) :
         /\ PopOld(times, later, window) = SubSeq(times, l + 1, Len(times))
         /\ l < Len(times) => ~Aged(times[l + 1], later, window)
  BY <1>1, Popping
<1>4. k <= l
  <2> SUFFICES ASSUME l < k
               PROVE  FALSE
    BY <1>1
  <2>1. l + 1 \in 1 .. k /\ l + 1 \in 1 .. Len(times) /\ l < Len(times)
    BY <1>1
  <2>2. times[l + 1] \in Nat /\ Aged(times[l + 1], now, window) /\ ~Aged(times[l + 1], later, window)
    BY <1>1, <1>2, <1>3, <2>1, SMTT(30)
  <2> QED
    BY <2>2, SMTT(30) DEF Aged
<1>5. \A m \in 0 .. Len(times) : Len(SubSeq(times, m + 1, Len(times))) = Len(times) - m
  <2> SUFFICES ASSUME NEW m \in 0 .. Len(times)
               PROVE  Len(SubSeq(times, m + 1, Len(times))) = Len(times) - m
    OBVIOUS
  <2>1. PICK p \in 1 .. Len(times) + 1 : p = m + 1
    BY <1>1
  <2>2. Len(SubSeq(times, p, Len(times))) = IF p <= Len(times) THEN Len(times) - p + 1 ELSE 0
    BY <1>1, <2>1, SubSeqProperties
  <2>3. (IF p <= Len(times) THEN Len(times) - p + 1 ELSE 0) = Len(times) - m
    BY <1>1, <2>1
  <2> QED
    BY <2>1, <2>2, <2>3
<1> QED
  BY <1>1, <1>2, <1>3, <1>4, <1>5, SMTT(30)

\* Once the last of ascending times is old, they all are.
LEMMA PopOldAll ==
    ASSUME NEW now \in Nat, NEW window \in Nat, NEW n \in Nat, NEW times \in Seq(1 .. n),
           times # << >>, Aged(times[Len(times)], now, window),
           \A i, j \in 1 .. Len(times) : i <= j => times[i] <= times[j]
    PROVE  PopOld(times, now, window) = << >>
PROOF
<1>1. times \in Seq(Nat) /\ Len(times) \in Nat /\ Len(times) > 0
  BY SeqOfNat
<1>2. PICK k \in 0 .. Len(times) :
         /\ PopOld(times, now, window) = SubSeq(times, k + 1, Len(times))
         /\ k < Len(times) => ~Aged(times[k + 1], now, window)
  BY <1>1, Popping
<1>3. k = Len(times)
  <2> SUFFICES ASSUME k < Len(times)
               PROVE  FALSE
    BY <1>1
  <2>1. k + 1 \in 1 .. Len(times) /\ Len(times) \in 1 .. Len(times) /\ k + 1 <= Len(times)
    BY <1>1
  <2>2. /\ times[k + 1] \in Nat /\ times[Len(times)] \in Nat /\ times[k + 1] <= times[Len(times)]
        /\ ~Aged(times[k + 1], now, window)
    BY <1>1, <1>2, <2>1
  <2> QED
    BY <2>2 DEF Aged
<1>4. PICK m \in 1 .. Len(times) + 1 : m = Len(times) + 1
  BY <1>1
<1>5. Len(SubSeq(times, m, Len(times))) = 0 /\ SubSeq(times, m, Len(times)) \in Seq(Nat)
  <2>1. Len(SubSeq(times, m, Len(times))) = IF m <= Len(times) THEN Len(times) - m + 1 ELSE 0
    BY <1>1, <1>4, SubSeqProperties
  <2>2. ~ (m <= Len(times))
    BY <1>1, <1>4
  <2>3. SubSeq(times, m, Len(times)) \in Seq(Nat)
    BY <1>1, <1>4, SubSeqProperties
  <2> QED
    BY <2>1, <2>2, <2>3
<1>6. SubSeq(times, m, Len(times)) = << >>
  BY <1>5
<1> QED
  BY <1>2, <1>3, <1>4, <1>6

LEMMA PopOldNone ==
    ASSUME NEW now \in Nat, NEW window \in Nat
    PROVE  PopOld(<< >>, now, window) = << >>
PROOF
<1>1. PICK none \in Seq(1 .. 1) : none = << >>
  BY EmptySeq
<1>2. /\ PopOld(none, now, window) \in Seq(1 .. 1) /\ Len(PopOld(none, now, window)) <= Len(none)
      /\ Len(PopOld(none, now, window)) \in Nat
  BY PopOldType
<1>3. Len(none) = 0
  BY <1>1
<1>4. Len(PopOld(none, now, window)) = 0
  BY <1>2, <1>3
<1>5. PopOld(none, now, window) = << >>
  BY <1>2, <1>4
<1> QED
  BY <1>1, <1>5

-----------------------------------------------------------------------------
(* Releases *)

Task == [op : {"none", "store", "insert", "offer", "delete", "unlink"},
         package : Packages]

\* The types of the releases, and of what the requests under way keep.
ReleaseTypes ==
    /\ offered \subseteq held /\ held \subseteq Packages /\ files \subseteq Packages
    /\ task \in [Uploaders -> Task]
    /\ fetch \in [Fetchers -> {"idle", "offered", "sending"}]
    /\ given \in [Fetchers -> Packages]
    /\ running \in [Fetchers -> Nat]
    /\ seen \in [late : SUBSET Uploaders, raced : BOOLEAN, deletedOffered : BOOLEAN,
                 torn : SUBSET Packages]

\* At most one package is offered.
AtMostOne == \A p, q \in offered : p = q

\* A package whose row is there, or about to be, has its file.
FilesFirst ==
    \A p \in Packages :
        p \in held \/ (\E v \in Uploaders : task[v] = [op |-> "insert", package |-> p])
        => p \in files \/ p \in seen.torn

\* A request that is about to delete what is on offer looked before it was.
LateDeletes ==
    /\ ~seen.raced
    /\ \A w \in Uploaders : task[w].op = "delete" /\ task[w].package \in offered
                            => w \in seen.late

\* The places of the packages being sent are counted.
PlacesCounted == IsFiniteSet(Sending) /\ Cardinality(Sending) <= Downloads

\* What an agent fetches is newer than what it runs.
FetchesNewer ==
    \A a \in Fetchers : fetch[a] # "idle" => VersionOf[given[a]] > running[a]

ReleaseInv == /\ ReleaseTypes /\ AtMostOne /\ FilesFirst /\ LateDeletes
              /\ PlacesCounted /\ FetchesNewer

LEMMA ReleasesBegin == ReleasesInit => ReleaseInv
PROOF
<1> SUFFICES ASSUME ReleasesInit
             PROVE  ReleaseInv
  OBVIOUS
<1> USE DEF ReleasesInit
<1>1. (CHOOSE p \in Packages : TRUE) \in Packages
  BY ReleasesAssumption
<1>2. ReleaseTypes
  BY <1>1 DEF ReleaseTypes, Task, NoTask
<1>3. AtMostOne /\ FilesFirst /\ LateDeletes /\ FetchesNewer
  BY DEF AtMostOne, FilesFirst, LateDeletes, FetchesNewer, NoTask
<1>4. Sending = {}
  BY DEF Sending
<1>5. PlacesCounted
  BY <1>4, FS_EmptySet, ReleasesAssumption DEF PlacesCounted
<1> QED
  BY <1>2, <1>3, <1>5 DEF ReleaseInv

\* How a request moves on: the others stay, and its package.
LEMMA TaskMoves ==
    ASSUME task \in [Uploaders -> Task], NEW w \in Uploaders, NEW from, NEW to \in
           {"none", "store", "insert", "offer", "delete", "unlink"}
    PROVE  /\ TaskGoes(w, from, to) =>
                /\ task[w].op = from /\ task' \in [Uploaders -> Task]
                /\ task'[w] = [op |-> to, package |-> task[w].package]
                /\ \A v \in Uploaders \ {w} : task'[v] = task[v]
           /\ TaskEnds(w, from) =>
                /\ task[w].op = from /\ task' \in [Uploaders -> Task]
                /\ task'[w].op = "none"
                /\ \A v \in Uploaders \ {w} : task'[v] = task[v]
PROOF
<1>1. NoTask \in Task /\ NoTask.op = "none"
  BY ReleasesAssumption DEF NoTask, Task
<1>2. /\ [op |-> to, package |-> task[w].package] \in Task
      /\ [task[w] EXCEPT !.op = to] = [op |-> to, package |-> task[w].package]
  BY DEF Task
<1> QED
  BY <1>1, <1>2 DEF TaskGoes, TaskEnds

\* How a request begins.
LEMMA TaskBegun ==
    ASSUME task \in [Uploaders -> Task], NEW w \in Uploaders, NEW p \in Packages,
           NEW to \in {"store", "offer", "delete"}, TaskBegins(w, to, p)
    PROVE  /\ task' \in [Uploaders -> Task]
           /\ task'[w] = [op |-> to, package |-> p]
           /\ \A v \in Uploaders \ {w} : task'[v] = task[v]
PROOF BY DEF TaskBegins, Task

\* A step of an administrator's request keeps the tables as they should be.
LEMMA UploaderStep ==
    ASSUME ReleaseInv, NEW w \in Uploaders, NEW p \in Packages,
           Upload(w, p) \/ OfferRelease(w, p) \/ Withdraw(w, p) \/ DeleteRelease(w, p)
    PROVE  ReleaseInv'
PROOF
<1> USE DEF ReleaseInv
<1>0. /\ task \in [Uploaders -> Task] /\ task[w].package \in Packages
      /\ offered \subseteq held /\ held \subseteq Packages /\ files \subseteq Packages
      /\ seen \in [late : SUBSET Uploaders, raced : BOOLEAN, deletedOffered : BOOLEAN,
                   torn : SUBSET Packages]
  BY DEF ReleaseTypes, Task
<1>1. /\ UNCHANGED <<fetch, given, running>>
      /\ PlacesCounted' /\ FetchesNewer'
  <2>1. UNCHANGED <<fetch, given, running>>
    BY DEF Upload, OfferRelease, DeleteRelease, AddCheck, OfferRead, DeleteCheck,
       AddStore, AddInsert, OfferWrite, Withdraw, DeleteRowOf, DeleteFails, Unlink
  <2> QED
    BY <2>1 DEF PlacesCounted, Sending, FetchesNewer
<1> SUFFICES /\ task' \in [Uploaders -> Task]
             /\ offered' \subseteq held' /\ held' \subseteq Packages
             /\ files' \subseteq Packages
             /\ seen' \in [late : SUBSET Uploaders, raced : BOOLEAN,
                           deletedOffered : BOOLEAN, torn : SUBSET Packages]
             /\ AtMostOne' /\ FilesFirst' /\ LateDeletes'
  BY <1>1 DEF ReleaseTypes
<1> USE DEF AtMostOne, FilesFirst, LateDeletes
<1>2. CASE AddCheck(w, p) \/ OfferRead(w, p) \/ DeleteCheck(w, p)
  <2>1. PICK op \in {"store", "offer", "delete"} :
            /\ TaskBegins(w, op, p) /\ UNCHANGED <<held, offered, files, seen>>
            /\ op = "delete" => p \notin offered
    BY <1>2 DEF AddCheck, OfferRead, DeleteCheck
  <2>2. /\ task' \in [Uploaders -> Task]
        /\ task'[w] = [op |-> op, package |-> p]
        /\ \A v \in Uploaders \ {w} : task'[v] = task[v]
    BY <1>0, <2>1, TaskBegun, ZenonT(30)
  <2> QED
    BY <1>0, <2>1, <2>2
<1>3. CASE AddStore(w)
  <2> DEFINE q == task[w].package
  <2>1. /\ TaskGoes(w, "store", "insert") /\ files' = files \cup {q}
        /\ UNCHANGED <<held, offered, seen>>
    BY <1>3 DEF AddStore
  <2>2. /\ task' \in [Uploaders -> Task]
        /\ task'[w] = [op |-> "insert", package |-> q]
        /\ \A v \in Uploaders \ {w} : task'[v] = task[v]
    BY <1>0, <2>1, TaskMoves
  <2> HIDE DEF q
  <2> QED
    BY <1>0, <2>1, <2>2 DEF q
<1>4. CASE AddInsert(w)
  <2> DEFINE q == task[w].package
  <2>1. /\ TaskEnds(w, "insert") /\ UNCHANGED <<offered, files, seen>>
        /\ held' = held \cup {q}
    BY <1>4 DEF AddInsert
  <2>2. /\ task[w].op = "insert" /\ task' \in [Uploaders -> Task] /\ task'[w].op = "none"
        /\ \A v \in Uploaders \ {w} : task'[v] = task[v]
    BY <1>0, <2>1, TaskMoves
  <2>3. \A v \in Uploaders : task'[v].op = "insert" => task'[v] = task[v]
    BY <2>2
  <2>4. task[w] = [op |-> "insert", package |-> q]
    BY <1>0, <2>2 DEF Task
  <2> HIDE DEF q
  <2> QED
    BY <1>0, <2>1, <2>2, <2>4 DEF q
<1>5. CASE OfferWrite(w)
  <2> DEFINE q == task[w].package
  <2>1. /\ TaskEnds(w, "offer") /\ UNCHANGED <<held, files>>
        /\ offered' = {q} \cap held
        /\ seen' = [seen EXCEPT !.late = @ \cup {v \in Uploaders :
                       task[v].op = "delete" /\ task[v].package = q}]
    BY <1>5 DEF OfferWrite
  <2>2. /\ task[w].op = "offer" /\ task' \in [Uploaders -> Task] /\ task'[w].op = "none"
        /\ \A v \in Uploaders \ {w} : task'[v] = task[v]
    BY <1>0, <2>1, TaskMoves
  <2>3. seen' = [late |-> seen.late \cup {v \in Uploaders :
                                task[v].op = "delete" /\ task[v].package = q},
                 raced |-> seen.raced, deletedOffered |-> seen.deletedOffered,
                 torn |-> seen.torn]
    BY <1>0, <2>1
  <2> HIDE DEF q
  <2>4. AtMostOne' /\ FilesFirst'
    BY <1>0, <2>1, <2>2, <2>3
  <2>5. LateDeletes'
    BY <1>0, <2>1, <2>2, <2>3
  <2> QED
    BY <1>0, <2>1, <2>2, <2>3, <2>4, <2>5
<1>6. CASE Withdraw(w, p)
  BY <1>0, <1>6 DEF Withdraw, Withdrawn
<1>7. CASE DeleteRowOf(w)
  <2> DEFINE q == task[w].package
  <2>1. /\ TaskGoes(w, "delete", "unlink") /\ files' = files
        /\ held' = held \ {q} /\ offered' = offered \ {q}
    BY <1>7 DEF DeleteRowOf
  <2>2. /\ task[w].op = "delete" /\ task' \in [Uploaders -> Task]
        /\ task'[w] = [op |-> "unlink", package |-> q]
        /\ \A v \in Uploaders \ {w} : task'[v] = task[v]
    BY <1>0, <2>1, TaskMoves
  <2>3. seen' = [late |-> seen.late \ {w},
                 raced |-> seen.raced \/ (q \in offered /\ w \notin seen.late),
                 deletedOffered |-> seen.deletedOffered \/ q \in offered,
                 torn |-> seen.torn]
    BY <1>0, <1>7 DEF DeleteRowOf
  <2> HIDE DEF q
  <2>4. ~(q \in offered /\ w \notin seen.late)
    BY <2>2 DEF q
  <2>5. AtMostOne' /\ FilesFirst' /\ LateDeletes'
    BY <1>0, <2>1, <2>2, <2>3, <2>4
  <2> QED
    BY <1>0, <2>1, <2>2, <2>3, <2>5
<1>8. CASE DeleteFails(w)
  <2> DEFINE q == task[w].package
  <2>1. /\ TaskEnds(w, "delete") /\ UNCHANGED <<held, offered, files>>
    BY <1>8 DEF DeleteFails
  <2>2. /\ task[w].op = "delete" /\ task' \in [Uploaders -> Task] /\ task'[w].op = "none"
        /\ \A v \in Uploaders \ {w} : task'[v] = task[v]
    BY <1>0, <2>1, TaskMoves
  <2>3. seen' = [late |-> seen.late \ {w}, raced |-> seen.raced,
                 deletedOffered |-> seen.deletedOffered, torn |-> seen.torn]
    BY <1>0, <1>8 DEF DeleteFails
  <2> QED
    BY <1>0, <2>1, <2>2, <2>3
<1>9. CASE Unlink(w)
  <2> DEFINE q == task[w].package
  <2>1. /\ TaskEnds(w, "unlink") /\ UNCHANGED <<held, offered>>
        /\ files' = files \ {q}
    BY <1>9 DEF Unlink
  <2>2. /\ task[w].op = "unlink" /\ task' \in [Uploaders -> Task] /\ task'[w].op = "none"
        /\ \A v \in Uploaders \ {w} : task'[v] = task[v]
    BY <1>0, <2>1, TaskMoves
  <2>3. /\ seen'.torn \subseteq Packages /\ seen.torn \subseteq seen'.torn
        /\ (q \in held \/ \E v \in Uploaders : task[v] = [op |-> "insert", package |-> q])
           => q \in seen'.torn
        /\ seen' \in [late : SUBSET Uploaders, raced : BOOLEAN,
                      deletedOffered : BOOLEAN, torn : SUBSET Packages]
        /\ seen'.late = seen.late /\ seen'.raced = seen.raced
    <3> DEFINE T == IF q \in held \/ \E v \in Uploaders :
                           task[v] = [op |-> "insert", package |-> q]
                    THEN seen.torn \cup {q} ELSE seen.torn
    <3>1. seen' = [late |-> seen.late, raced |-> seen.raced,
                   deletedOffered |-> seen.deletedOffered, torn |-> T]
      BY <1>0, <1>9 DEF Unlink
    <3>2. T \subseteq Packages
      BY <1>0
    <3> QED
      BY <1>0, <3>1, <3>2
  <2> HIDE DEF q
  <2>4. \A v \in Uploaders : task'[v].op = "insert" => task'[v] = task[v]
    BY <2>2
  <2>5. FilesFirst'
    BY <1>0, <2>1, <2>2, <2>3, <2>4
  <2>6. AtMostOne' /\ LateDeletes'
    BY <1>0, <2>1, <2>2, <2>3
  <2> QED
    BY <1>0, <2>1, <2>2, <2>3, <2>5, <2>6
<1> QED
  BY <1>2, <1>3, <1>4, <1>5, <1>6, <1>7, <1>8, <1>9
     DEF Upload, OfferRelease, DeleteRelease

\* An agent's update keeps to the places there are, and to newer releases.
LEMMA FetcherStep ==
    ASSUME ReleaseInv, NEW a \in Fetchers,
           Offer(a) \/ Fetch(a) \/ FetchDropped(a) \/ FetchFails(a) \/ FetchSent(a)
    PROVE  /\ ReleaseInv'
           /\ running'[a] >= running[a] /\ \A b \in Fetchers \ {a} : running'[b] = running[b]
PROOF
<1> USE DEF ReleaseInv
<1>0. /\ fetch \in [Fetchers -> {"idle", "offered", "sending"}]
      /\ given \in [Fetchers -> Packages] /\ running \in [Fetchers -> Nat]
      /\ VersionOf \in [Packages -> Nat] /\ Downloads \in Nat
      /\ offered \subseteq Packages
  BY ReleasesAssumption DEF ReleaseTypes
<1>1. /\ UNCHANGED <<held, offered, files, task, seen>>
      /\ AtMostOne' /\ FilesFirst' /\ LateDeletes'
  <2>1. UNCHANGED <<held, offered, files, task, seen>>
    BY DEF Offer, Fetch, FetchDropped, FetchFails, FetchSent
  <2> QED
    BY <2>1 DEF AtMostOne, FilesFirst, LateDeletes
<1> SUFFICES /\ fetch' \in [Fetchers -> {"idle", "offered", "sending"}]
             /\ given' \in [Fetchers -> Packages] /\ running' \in [Fetchers -> Nat]
             /\ PlacesCounted' /\ FetchesNewer'
             /\ running'[a] >= running[a]
             /\ \A b \in Fetchers \ {a} : running'[b] = running[b]
  BY <1>1 DEF ReleaseTypes
<1>2. ASSUME Sending' \subseteq Sending
      PROVE  PlacesCounted'
  <2>1. IsFiniteSet(Sending) /\ Cardinality(Sending) <= Downloads
    BY DEF PlacesCounted
  <2>2. /\ IsFiniteSet(Sending') /\ Cardinality(Sending') <= Cardinality(Sending)
        /\ Cardinality(Sending') \in Nat /\ Cardinality(Sending) \in Nat
    BY <1>2, <2>1, FS_Subset, FS_CardinalityType
  <2> QED
    BY <1>0, <2>1, <2>2 DEF PlacesCounted
<1>3. CASE Offer(a)
  <2>1. PICK p \in Newer(a) :
            IF Cardinality(Sending) < Downloads THEN Offered(a, p)
            ELSE UNCHANGED <<fetch, given>>
    BY <1>3 DEF Offer
  <2>2. fetch[a] = "idle" /\ running' = running
    BY <1>3 DEF Offer
  <2>3. p \in Packages /\ VersionOf[p] > running[a]
    BY <1>0, <2>1 DEF Newer
  <2>4. CASE Cardinality(Sending) < Downloads
    <3>1. /\ fetch' = [fetch EXCEPT ![a] = "offered"] /\ given' = [given EXCEPT ![a] = p]
      BY <2>1, <2>4 DEF Offered
    <3>2. Sending' = Sending \cup {a} /\ a \notin Sending
      BY <1>0, <2>2, <3>1 DEF Sending
    <3>3. /\ IsFiniteSet(Sending \cup {a})
          /\ Cardinality(Sending \cup {a}) = Cardinality(Sending) + 1
      BY <3>2, FS_AddElement DEF PlacesCounted
    <3>4. Cardinality(Sending) \in Nat
      BY FS_CardinalityType DEF PlacesCounted
    <3>5. PlacesCounted'
      BY <1>0, <2>4, <3>2, <3>3, <3>4 DEF PlacesCounted
    <3> QED
      BY <1>0, <2>2, <2>3, <3>1, <3>5 DEF FetchesNewer
  <2>5. CASE ~(Cardinality(Sending) < Downloads)
    <3>1. UNCHANGED <<fetch, given, running>>
      BY <2>1, <2>2, <2>5
    <3> QED
      BY <1>0, <1>2, <3>1 DEF Sending, FetchesNewer
  <2> QED
    BY <2>4, <2>5
<1>4. CASE Fetch(a) \/ FetchDropped(a) \/ FetchFails(a)
  <2>1. /\ UNCHANGED <<given, running>> /\ fetch[a] # "idle"
        /\ fetch' \in {[fetch EXCEPT ![a] = "sending"], [fetch EXCEPT ![a] = "idle"]}
    BY <1>4 DEF Fetch, FetchDropped, FetchFails, Sending
  <2>2. Sending' \subseteq Sending
    BY <1>0, <2>1 DEF Sending
  <2> QED
    BY <1>0, <1>2, <2>1, <2>2 DEF FetchesNewer
<1>5. CASE FetchSent(a)
  <2>1. /\ fetch' = [fetch EXCEPT ![a] = "idle"] /\ given' = given
        /\ running' = [running EXCEPT ![a] = VersionOf[given[a]]]
        /\ VersionOf[given[a]] > running[a]
    BY <1>5 DEF FetchSent, FetchesNewer
  <2>2. Sending' \subseteq Sending
    BY <1>0, <2>1 DEF Sending
  <2>3. VersionOf[given[a]] \in Nat
    BY <1>0
  <2> QED
    BY <1>0, <1>2, <2>1, <2>2, <2>3 DEF FetchesNewer
<1> QED
  BY <1>3, <1>4, <1>5

LEMMA ReleasesStep ==
    ASSUME ReleaseInv, [ReleasesNext]_releaseVars
    PROVE  ReleaseInv' /\ \A a \in Fetchers : running'[a] >= running[a]
PROOF
<1>0. running \in [Fetchers -> Nat]
  BY DEF ReleaseInv, ReleaseTypes
<1>1. CASE UNCHANGED releaseVars
  BY <1>0, <1>1 DEF releaseVars, ReleaseInv, ReleaseTypes, AtMostOne, FilesFirst,
     LateDeletes, PlacesCounted, Sending, FetchesNewer
<1>2. ASSUME NEW w \in Uploaders, NEW p \in Packages,
             Upload(w, p) \/ OfferRelease(w, p) \/ Withdraw(w, p) \/ DeleteRelease(w, p)
      PROVE  ReleaseInv' /\ running' = running
  <2>1. running' = running
    BY <1>2 DEF Upload, OfferRelease, DeleteRelease, AddCheck, OfferRead, DeleteCheck,
       AddStore, AddInsert, OfferWrite, Withdraw, DeleteRowOf, DeleteFails, Unlink
  <2> QED
    BY <1>2, <2>1, UploaderStep
<1>3. ASSUME NEW a \in Fetchers,
             Offer(a) \/ Fetch(a) \/ FetchDropped(a) \/ FetchFails(a) \/ FetchSent(a)
      PROVE  ReleaseInv' /\ \A b \in Fetchers : running'[b] >= running[b]
  BY <1>0, <1>3, FetcherStep
<1> QED
  BY <1>0, <1>1, <1>2, <1>3 DEF ReleasesNext

\* What ReleasesSafe says follows.
LEMMA ReleaseInvSafe == ReleaseInv => ReleasesSafe
PROOF
<1> SUFFICES ASSUME ReleaseInv
             PROVE  ReleasesSafe
  OBVIOUS
<1> USE DEF ReleaseInv
<1>1. OneOffered
  <2>1. CASE offered = {}
    BY <2>1, FS_EmptySet DEF OneOffered
  <2>2. ASSUME NEW p \in offered
        PROVE  OneOffered
    <3>1. offered = {p}
      BY <2>2 DEF AtMostOne
    <3> QED
      BY <3>1, FS_Singleton DEF OneOffered
  <2> QED
    BY <2>1, <2>2
<1>2. ReleasesTypeOK /\ HeldHasFile
  BY DEF ReleaseTypes, ReleasesTypeOK, FilesFirst, HeldHasFile
<1>3. DeletedOfferedOnlyLate /\ SendingBounded
  BY DEF LateDeletes, DeletedOfferedOnlyLate, PlacesCounted, SendingBounded
<1> QED
  BY <1>1, <1>2, <1>3 DEF ReleasesSafe

LEMMA ReleaseInvariant == ReleasesSpec => []ReleaseInv
PROOF
<1>1. ReleaseInv /\ [ReleasesNext]_releaseVars => ReleaseInv'
  BY ReleasesStep
<1> QED
  BY <1>1, ReleasesBegin, PTL DEF ReleasesSpec

\* One release at most is on offer, every release held has its package (but for one
\* uploaded again during its deletion), one on offer is deleted only by a request
\* that looked before, and the places for downloads hold, for any number of
\* packages, requests and agents (server/src/releases.rs).
THEOREM ReleasesAlwaysSafe == ReleasesSpec => []ReleasesSafe
PROOF BY ReleaseInvariant, ReleaseInvSafe, PTL

\* No sequence of offers, withdrawals and deletions takes an agent back.
THEOREM AgentsNeverOlder == ReleasesSpec => NeverOlder
PROOF
<1>1. ReleaseInv /\ [ReleasesNext]_releaseVars
      => [\A a \in Fetchers : running'[a] >= running[a]]_releaseVars
  BY ReleasesStep
<1> QED
  BY <1>1, ReleaseInvariant, PTL DEF ReleasesSpec, NeverOlder

-----------------------------------------------------------------------------
(* The relay *)

\* The types of a session's relay and of the packets on their way.
TunnelTypes ==
    /\ relay \in [Sessions -> {"none", "open", "closed"}]
    /\ carried \in [Sessions -> Nat] /\ passed \in [Sessions -> Nat]
    /\ capped \in [Sessions -> Nat]
    /\ reading \in Packet \cup {NoPacket}
    /\ inbox \in Seq(Packet) /\ Len(inbox) <= InboxLimit
    /\ queue \in [Sessions -> Seq(Sessions)]
    /\ \A s \in Sessions : Len(queue[s]) <= QueueBound
    /\ got \in [Sessions -> SUBSET Sessions]

\* What a session let through is part of what it was asked to carry, within the
\* ceiling; the ceiling is reported once, when it is passed.
CountsRight ==
    \A s \in Sessions :
        /\ passed[s] <= carried[s]
        /\ Ceiling # 0 => passed[s] <= Ceiling
        /\ capped[s] <= 1
        /\ capped[s] > 0 => Ceiling # 0 /\ carried[s] > Ceiling

\* What waits for a viewer, and what it got, is its own.
OwnPackets ==
    \A s \in Sessions : /\ \A i \in 1 .. Len(queue[s]) : queue[s][i] = s
                        /\ got[s] \subseteq {s}

TunnelInv == TunnelTypes /\ CountsRight /\ OwnPackets

\* What a step of a relay may do to the counts.
CountsKept ==
    \A s \in Sessions : capped[s] > 0 => passed'[s] = passed[s] /\ capped'[s] = 1

\* What ends with a session's tunnel.
NothingGot == \A s \in Sessions : relay[s] = "closed" => got'[s] = got[s]

\* Counting a packet, before it is known whether it may pass.
LEMMA CountStep ==
    ASSUME TunnelInv, NEW s \in Sessions, NEW size \in Sizes, Counted(s, size)
    PROVE  /\ carried' \in [Sessions -> Nat] /\ passed' \in [Sessions -> Nat]
           /\ capped' \in [Sessions -> Nat]
           /\ CountsRight' /\ CountsKept
PROOF
<1>0. /\ carried \in [Sessions -> Nat] /\ passed \in [Sessions -> Nat]
      /\ capped \in [Sessions -> Nat] /\ size \in Nat /\ Ceiling \in Nat
  BY TunnelAssumption DEF TunnelInv, TunnelTypes
<1>1. /\ passed[s] <= carried[s]
      /\ Ceiling # 0 => passed[s] <= Ceiling
      /\ capped[s] <= 1
      /\ capped[s] > 0 => Ceiling # 0 /\ carried[s] > Ceiling
  BY DEF TunnelInv, CountsRight
<1>2. /\ carried'[s] = carried[s] + size
      /\ passed'[s] = IF Allows(s, size) THEN passed[s] + size ELSE passed[s]
      /\ capped'[s] = IF ~Allows(s, size) /\ carried[s] <= Ceiling THEN capped[s] + 1
                      ELSE capped[s]
  BY <1>0 DEF Counted
<1>3. \A t \in Sessions \ {s} : /\ carried'[t] = carried[t] /\ passed'[t] = passed[t]
                                /\ capped'[t] = capped[t]
  BY <1>0 DEF Counted
<1>4. /\ carried' \in [Sessions -> Nat] /\ passed' \in [Sessions -> Nat]
      /\ capped' \in [Sessions -> Nat]
  BY <1>0 DEF Counted
<1>5. /\ passed'[s] <= carried'[s]
      /\ Ceiling # 0 => passed'[s] <= Ceiling
      /\ capped'[s] <= 1
      /\ capped'[s] > 0 => Ceiling # 0 /\ carried'[s] > Ceiling
      /\ capped[s] > 0 => passed'[s] = passed[s] /\ capped'[s] = 1
  <2>1. CASE Allows(s, size)
    BY <1>0, <1>1, <1>2, <2>1 DEF Allows
  <2>2. CASE ~Allows(s, size)
    BY <1>0, <1>1, <1>2, <2>2 DEF Allows
  <2> QED
    BY <2>1, <2>2
<1>6. CountsRight'
  BY <1>3, <1>5 DEF TunnelInv, CountsRight
<1>7. CountsKept
  BY <1>0, <1>3, <1>5 DEF TunnelInv, CountsRight, CountsKept
<1> QED
  BY <1>4, <1>6, <1>7

LEMMA TunnelBegins == TunnelInit => TunnelInv
PROOF BY TunnelAssumption DEF TunnelInit, TunnelInv, TunnelTypes, CountsRight, OwnPackets

LEMMA TunnelStep ==
    ASSUME TunnelInv, [TunnelNext]_tunnelVars
    PROVE  TunnelInv' /\ CountsKept /\ NothingGot
PROOF
<1> DEFINE Counts == carried' = carried /\ passed' = passed /\ capped' = capped
           Goal == TunnelInv' /\ CountsKept /\ NothingGot
<1>0. TunnelTypes /\ CountsRight /\ OwnPackets
  BY DEF TunnelInv
<1>1. ASSUME Counts
      PROVE  CountsRight' /\ CountsKept
  BY <1>0, <1>1 DEF TunnelTypes, CountsRight, CountsKept
<1>2. ASSUME UNCHANGED <<queue, got>>
      PROVE  OwnPackets' /\ NothingGot
  BY <1>0, <1>2 DEF OwnPackets, NothingGot
<1>3. CASE UNCHANGED tunnelVars
  BY <1>0, <1>1, <1>2, <1>3 DEF tunnelVars, TunnelInv, TunnelTypes
<1>4. ASSUME NEW s \in Sessions, Open(s) \/ ViewerLeaves(s)
      PROVE  Goal
  BY <1>0, <1>1, <1>2, <1>4 DEF Open, ViewerLeaves, TunnelInv, TunnelTypes
<1>5. ASSUME NEW s \in Sessions, FromViewer(s)
      PROVE  Goal
  <2>1. PICK size \in Sizes :
            /\ Counted(s, size)
            /\ inbox' \in {inbox, Append(inbox, [session |-> s, size |-> size])}
            /\ inbox' # inbox => Len(inbox) < InboxLimit
            /\ relay' \in {relay, [relay EXCEPT ![s] = "closed"]}
    BY <1>5 DEF FromViewer
  <2>2. UNCHANGED <<reading, queue, got>>
    BY <1>5 DEF FromViewer
  <2>3. [session |-> s, size |-> size] \in Packet
    BY DEF Packet
  <2>4. inbox' \in Seq(Packet) /\ Len(inbox') <= InboxLimit
    <3>1. inbox \in Seq(Packet) /\ Len(inbox) <= InboxLimit /\ InboxLimit \in Nat
      BY <1>0, TunnelAssumption DEF TunnelTypes
    <3>2. CASE inbox' = inbox
      BY <3>1, <3>2
    <3>3. CASE inbox' # inbox
      BY <2>1, <2>3, <3>1, <3>3, AppendProperties
    <3> QED
      BY <3>2, <3>3
  <2> QED
    BY <1>0, <1>2, <2>1, <2>2, <2>4, CountStep DEF TunnelInv, TunnelTypes
<1>6. CASE AgentReads
  <2>1. inbox' \in Seq(Packet) /\ Len(inbox') <= InboxLimit
    BY <1>0, <1>6, TunnelAssumption DEF AgentReads, TunnelTypes
  <2> QED
    BY <1>0, <1>1, <1>2, <1>6, <2>1 DEF AgentReads, TunnelInv, TunnelTypes
<1>7. ASSUME NEW s \in Sessions, FromAgent(s)
      PROVE  Goal
  <2>1. reading' \in Packet \cup {NoPacket}
    BY <1>7 DEF FromAgent, Packet
  <2> QED
    BY <1>0, <1>1, <1>2, <1>7, <2>1 DEF FromAgent, TunnelInv, TunnelTypes
<1>8. CASE ToViewer
  <2> DEFINE s == reading.session
  <2>1. s \in Sessions /\ reading.size \in Sizes
    BY <1>0, <1>8 DEF ToViewer, TunnelTypes, Packet
  <2>2. /\ Counted(s, reading.size) /\ reading' = NoPacket
        /\ queue' \in {queue, [queue EXCEPT ![s] = Append(queue[s], s)]}
        /\ queue' # queue => Len(queue[s]) < QueueBound
        /\ UNCHANGED <<relay, inbox, got>>
    BY <1>8 DEF ToViewer
  <2> HIDE DEF s
  <2>3. /\ queue' \in [Sessions -> Seq(Sessions)]
        /\ \A t \in Sessions : /\ Len(queue'[t]) <= QueueBound
                               /\ \A i \in 1 .. Len(queue'[t]) : queue'[t][i] = t
    <3>1. CASE queue' = queue
      BY <1>0, <3>1 DEF TunnelTypes, OwnPackets
    <3>2. CASE queue' # queue
      <4>1. /\ queue' = [queue EXCEPT ![s] = Append(queue[s], s)]
            /\ Len(queue[s]) < QueueBound
        BY <2>2, <3>2
      <4>2. /\ queue[s] \in Seq(Sessions)
            /\ \A i \in 1 .. Len(queue[s]) : queue[s][i] = s
        BY <1>0, <2>1 DEF TunnelTypes, OwnPackets
      <4>3. /\ Append(queue[s], s) \in Seq(Sessions)
            /\ Len(Append(queue[s], s)) <= QueueBound
            /\ \A i \in 1 .. Len(Append(queue[s], s)) : Append(queue[s], s)[i] = s
        BY <2>1, <4>1, <4>2, AppendProperties, TunnelAssumption
      <4> QED
        BY <1>0, <2>1, <4>1, <4>3 DEF TunnelTypes, OwnPackets
    <3> QED
      BY <3>1, <3>2
  <2>4. OwnPackets' /\ NothingGot
    BY <1>0, <2>2, <2>3 DEF OwnPackets, NothingGot
  <2>5. /\ carried' \in [Sessions -> Nat] /\ passed' \in [Sessions -> Nat]
        /\ capped' \in [Sessions -> Nat]
        /\ CountsRight' /\ CountsKept
    BY <2>1, <2>2, CountStep
  <2> QED
    BY <1>0, <2>2, <2>3, <2>4, <2>5 DEF TunnelInv, TunnelTypes
<1>9. ASSUME NEW s \in Sessions, ViewerGets(s)
      PROVE  Goal
  <2>1. /\ relay[s] = "open" /\ queue[s] # <<>>
        /\ got' = [got EXCEPT ![s] = @ \cup {Head(queue[s])}]
        /\ queue' = [queue EXCEPT ![s] = Tail(queue[s])]
        /\ Counts /\ UNCHANGED <<relay, reading, inbox>>
    BY <1>9 DEF ViewerGets
  <2>2. /\ queue[s] \in Seq(Sessions) /\ Len(queue[s]) <= QueueBound
        /\ \A i \in 1 .. Len(queue[s]) : queue[s][i] = s
    BY <1>0 DEF TunnelTypes, OwnPackets
  <2>3. /\ Head(queue[s]) = s
        /\ Tail(queue[s]) \in Seq(Sessions) /\ Len(Tail(queue[s])) <= QueueBound
        /\ \A i \in 1 .. Len(Tail(queue[s])) : Tail(queue[s])[i] = s
    BY <2>1, <2>2, HeadTailProperties, TunnelAssumption
  <2>4. /\ queue' \in [Sessions -> Seq(Sessions)] /\ got' \in [Sessions -> SUBSET Sessions]
        /\ \A t \in Sessions : Len(queue'[t]) <= QueueBound
    BY <1>0, <2>1, <2>3 DEF TunnelTypes
  <2>5. OwnPackets' /\ NothingGot
    BY <1>0, <2>1, <2>3, ZenonT(30) DEF TunnelTypes, OwnPackets, NothingGot
  <2> QED
    BY <1>0, <1>1, <2>1, <2>4, <2>5 DEF TunnelInv, TunnelTypes
<1> QED
  BY <1>3, <1>4, <1>5, <1>6, <1>7, <1>8, <1>9 DEF TunnelNext

LEMMA TunnelInvariant == TunnelSpec => []TunnelInv
PROOF
<1>1. TunnelInv /\ [TunnelNext]_tunnelVars => TunnelInv'
  BY TunnelStep
<1> QED
  BY <1>1, TunnelBegins, PTL DEF TunnelSpec

-----------------------------------------------------------------------------
(* The tunnel: what its runs check follows from the invariant. *)

\* Every packet the relay passes on is counted, its queues are bounded, no
\* session carries more than the ceiling and no viewer gets another's packets
\* (Ceiling, tunnel, OverTcp, Inbox).
THEOREM TunnelAlwaysSafe == TunnelSpec => [](TunnelTypeOK /\ CeilingHolds /\ NoCrosstalk)
PROOF
<1>1. TunnelInv => TunnelTypeOK /\ CeilingHolds /\ NoCrosstalk
  BY DEF TunnelInv, TunnelTypes, CountsRight, OwnPackets, TunnelTypeOK, CeilingHolds, NoCrosstalk
<1> QED
  BY <1>1, TunnelInvariant, PTL

\* A ceiling once reached stays reached and is reported once, and a closed
\* tunnel gives its viewer nothing (Ceiling::allows, relay).
THEOREM TunnelStepsSafe == TunnelSpec => CeilingStays /\ ClosedGetsNothing
PROOF
<1>1. TunnelInv /\ [TunnelNext]_tunnelVars
      => [CountsKept]_tunnelVars /\ [NothingGot]_tunnelVars
  BY TunnelStep
<1> QED
  BY <1>1, TunnelInvariant, PTL DEF TunnelSpec, CeilingStays, ClosedGetsNothing,
     CountsKept, NothingGot

-----------------------------------------------------------------------------
(* Attempts *)

AttemptsTypes ==
    /\ time \in Nat /\ time <= TimeBound /\ tried \in [Addresses -> Nat]
    /\ tries \in [Addresses -> Seq(Nat)] /\ allowed \in [Addresses -> Seq(Nat)]
    /\ \A ip \in Addresses : Len(tries[ip]) <= TryLimit

\* The times an address was let through, as they came.
Ascending ==
    \A ip \in Addresses :
        /\ \A i \in 1 .. Len(allowed[ip]) : allowed[ip][i] <= time
        /\ \A i, j \in 1 .. Len(allowed[ip]) : i <= j => allowed[ip][i] <= allowed[ip][j]

\* times are the last of them, and what is not among these is old.
IsLast(times, ip) ==
    /\ times \in Seq(Nat) /\ Len(times) <= Len(allowed[ip])
    /\ \A i \in 1 .. Len(times) : times[i] = allowed[ip][Len(allowed[ip]) - Len(times) + i]
    /\ \A i \in 1 .. Len(allowed[ip]) - Len(times) : Old(allowed[ip][i])
HoldsLast == \A ip \in Addresses : IsLast(tries[ip], ip)

\* Any ATTEMPTS + 1 of them in a row take as long as the window.
Spread ==
    \A ip \in Addresses : \A i, j \in 1 .. Len(allowed[ip]) :
        j = i + TryLimit => allowed[ip][j] - allowed[ip][i] >= TryWindow

AttemptsInv == AttemptsTypes /\ Ascending /\ HoldsLast /\ Spread

\* What the table holds of one address: times, the last it was let through.
LEMMA Retaining ==
    ASSUME AttemptsInv, NEW ip \in Addresses
    PROVE  /\ IsLast(Retained[ip], ip) /\ Len(Retained[ip]) <= TryLimit
           /\ Retained[ip] # <<>> => ~Old(Last(Retained[ip]))
PROOF
<1> DEFINE times == tries[ip]
           all == allowed[ip]
<1>0. /\ time \in Nat /\ TryLimit \in Nat /\ TryWindow \in Nat
      /\ times \in Seq(Nat) /\ all \in Seq(Nat) /\ Len(times) <= TryLimit
      /\ Len(times) \in Nat /\ Len(all) \in Nat
      /\ \A i \in 1 .. Len(all) : all[i] \in Nat
  BY AttemptsAssumption DEF AttemptsInv, AttemptsTypes
<1>1. /\ IsLast(times, ip)
      /\ \A i, j \in 1 .. Len(all) : i <= j => all[i] <= all[j]
  BY DEF AttemptsInv, Ascending, HoldsLast
<1>2. Retained[ip] = IF times # <<>> /\ ~Old(Last(times)) THEN times ELSE <<>>
  BY DEF Retained
<1> HIDE DEF times, all
<1>3. CASE times # <<>> /\ ~Old(Last(times))
  BY <1>0, <1>1, <1>2, <1>3
<1>4. CASE times = <<>>
  BY <1>0, <1>1, <1>2, <1>4
<1>5. CASE times # <<>> /\ Old(Last(times))
  <2>1. Len(times) \in 1 .. Len(all) /\ Last(times) = all[Len(all)] /\ Old(all[Len(all)])
    BY <1>0, <1>1, <1>5 DEF IsLast, Last, all
  <2>2. \A i \in 1 .. Len(all) : all[i] \in Nat /\ all[i] <= all[Len(all)]
    BY <1>0, <1>1, <2>1
  <2>3. \A i \in 1 .. Len(all) : Old(all[i])
    BY <1>0, <2>1, <2>2, SMTT(30) DEF Old, Aged
  <2>4. Retained[ip] = <<>> /\ Len(Retained[ip]) = 0
    BY <1>2, <1>5
  <2> QED
    BY <1>0, <2>3, <2>4 DEF IsLast, all
<1> QED
  BY <1>3, <1>4, <1>5

\* What is left of them after popping.
LEMMA Recent ==
    ASSUME AttemptsInv, NEW ip \in Addresses, NEW times, IsLast(times, ip)
    PROVE  /\ IsLast(LatelyBy(times), ip) /\ Len(LatelyBy(times)) <= Len(times)
           /\ \A i \in 1 .. Len(LatelyBy(times)) : ~Old(LatelyBy(times)[i])
PROOF
<1> DEFINE all == allowed[ip]
           left == LatelyBy(times)
<1>0. /\ time \in Nat /\ TryWindow \in Nat /\ all \in Seq(Nat)
      /\ times \in Seq(Nat) /\ Len(times) \in Nat /\ Len(all) \in Nat
      /\ \A i \in 1 .. Len(all) : all[i] \in Nat
  BY AttemptsAssumption DEF AttemptsInv, AttemptsTypes, IsLast
<1>1. PICK k \in 0 .. Len(times) :
         /\ left = SubSeq(times, k + 1, Len(times))
         /\ \A i \in 1 .. k : Old(times[i])
         /\ k < Len(times) => ~Old(times[k + 1])
  BY <1>0, Popping DEF LatelyBy, Old
<1>2. /\ Len(times) <= Len(all)
      /\ \A i \in 1 .. Len(times) : times[i] = all[Len(all) - Len(times) + i]
      /\ \A i \in 1 .. Len(all) - Len(times) : Old(all[i])
      /\ \A i, j \in 1 .. Len(all) : i <= j => all[i] <= all[j]
  BY DEF IsLast, AttemptsInv, Ascending
<1> HIDE DEF all, left
<1>3. \A i \in k + 1 .. Len(times) : times[i] \in Nat
  BY <1>0
<1>4. /\ left \in Seq(Nat) /\ Len(left) = Len(times) - k
      /\ \A i \in 1 .. Len(left) : left[i] = times[k + i]
  <2>1. k + 1 \in Int /\ Len(times) \in Int
    BY <1>0
  <2>2. /\ left \in Seq(Nat)
        /\ Len(left) = IF k + 1 <= Len(times) THEN Len(times) - (k + 1) + 1 ELSE 0
        /\ \A i \in 1 .. Len(times) - (k + 1) + 1 : left[i] = times[k + 1 + i - 1]
    BY <1>1, <1>3, <2>1, SubSeqProperties
  <2> QED
    BY <1>0, <2>2
<1>5. \A i \in 1 .. Len(left) :
         left[i] = all[Len(all) - Len(left) + i] /\ Len(all) - Len(left) + i \in 1 .. Len(all)
  <2> SUFFICES ASSUME NEW i \in 1 .. Len(left)
               PROVE  /\ left[i] = all[Len(all) - Len(left) + i]
                      /\ Len(all) - Len(left) + i \in 1 .. Len(all)
    OBVIOUS
  <2>1. k + i \in 1 .. Len(times) /\ left[i] = times[k + i]
    BY <1>0, <1>4
  <2>2. times[k + i] = all[Len(all) - Len(times) + (k + i)]
    BY <1>2, <2>1
  <2>3. /\ Len(left) = Len(times) - k /\ i \in Nat /\ 1 <= i /\ k \in Nat
        /\ k + i <= Len(times) /\ Len(times) <= Len(all)
    BY <1>0, <1>2, <1>4, <2>1
  <2>4. /\ Len(all) - Len(times) + (k + i) = Len(all) - Len(left) + i
        /\ Len(all) - Len(left) + i \in 1 .. Len(all)
    BY <1>0, <2>3
  <2> QED
    BY <2>1, <2>2, <2>4
<1>6. \A i \in 1 .. Len(all) - Len(left) : Old(all[i])
  <2> SUFFICES ASSUME NEW i \in 1 .. Len(all) - Len(left)
               PROVE  Old(all[i])
    OBVIOUS
  <2>1. CASE i <= Len(all) - Len(times)
    BY <1>0, <1>2, <2>1
  <2>2. CASE i > Len(all) - Len(times)
    <3>1. i - (Len(all) - Len(times)) \in 1 .. k
      BY <1>0, <1>2, <1>4, <2>2
    <3>2. times[i - (Len(all) - Len(times))] = all[i]
      BY <1>0, <1>2, <3>1
    <3> QED
      BY <1>1, <3>1, <3>2
  <2> QED
    BY <1>0, <2>1, <2>2
<1>7. \A i \in 1 .. Len(left) : ~Old(left[i])
  <2> SUFFICES ASSUME NEW i \in 1 .. Len(left)
               PROVE  ~Old(left[i])
    OBVIOUS
  <2>1. left[1] = times[k + 1] /\ ~Old(left[1]) /\ Len(left) \in Nat
    BY <1>0, <1>1, <1>4
  <2>2. left[1] <= left[i] /\ left[1] \in Nat /\ left[i] \in Nat
    <3> DEFINE p == Len(all) - Len(left) + 1
               q == Len(all) - Len(left) + i
    <3>1. /\ left[1] = all[p] /\ p \in 1 .. Len(all)
          /\ left[i] = all[q] /\ q \in 1 .. Len(all)
      BY <1>5, <2>1
    <3>2. p <= q
      BY <1>0, <2>1
    <3> HIDE DEF p, q
    <3> QED
      BY <1>0, <1>2, <3>1, <3>2
  <2> QED
    BY <1>0, <2>1, <2>2, SMTT(30) DEF Old, Aged
<1> QED
  BY <1>0, <1>2, <1>4, <1>5, <1>6, <1>7 DEF IsLast, all, left

\* What an attempt is refused for, and what the table forgets.
RefusedOnlyFull ==
    \A ip \in Addresses :
        tried'[ip] > tried[ip] /\ allowed'[ip] = allowed[ip] =>
            Cardinality({i \in DOMAIN allowed[ip] : ~Old(allowed[ip][i])}) = TryLimit
ForgetsQuiet ==
    \A ip \in Addresses : tried'[ip] > tried[ip] =>
        \A other \in Addresses : tries'[other] # <<>> => time - Last(tries'[other]) < TryWindow

LEMMA AttemptsBegin == AttemptsInit => AttemptsInv
PROOF BY AttemptsAssumption DEF AttemptsInit, AttemptsInv, AttemptsTypes, Ascending, HoldsLast,
         IsLast, Spread

LEMMA AttemptStep ==
    ASSUME AttemptsInv, NEW ip \in Addresses, Attempt(ip)
    PROVE  AttemptsInv' /\ RefusedOnlyFull /\ ForgetsQuiet
PROOF
<1> DEFINE all == allowed[ip]
           times == LatelyBy(Retained[ip])
           may == Len(times) < TryLimit
<1>0. /\ time \in Nat /\ time' = time /\ TryWindow \in Nat \ {0} /\ TryLimit \in Nat
      /\ tried \in [Addresses -> Nat] /\ tried' = [tried EXCEPT ![ip] = tried[ip] + 1]
      /\ tries' = [Retained EXCEPT ![ip] = IF may THEN Append(times, time) ELSE times]
      /\ allowed' = [allowed EXCEPT ![ip] = IF may THEN Append(all, time) ELSE all]
      /\ allowed \in [Addresses -> Seq(Nat)] /\ all \in Seq(Nat) /\ Len(all) \in Nat
  BY AttemptsAssumption DEF AttemptsInv, AttemptsTypes, Attempt
<1>1. /\ IsLast(times, ip) /\ Len(times) <= TryLimit /\ Len(times) <= Len(all)
      /\ \A i \in 1 .. Len(times) : ~Old(times[i])
      /\ times \in Seq(Nat) /\ Len(times) \in Nat
  <2>1. IsLast(Retained[ip], ip) /\ Len(Retained[ip]) <= TryLimit
    BY Retaining
  <2>2. /\ IsLast(times, ip) /\ Len(times) <= Len(Retained[ip])
        /\ \A i \in 1 .. Len(times) : ~Old(times[i])
    BY <2>1, Recent
  <2>3. Retained[ip] \in Seq(Nat) /\ times \in Seq(Nat) /\ Len(times) <= Len(all)
    BY <2>1, <2>2 DEF IsLast
  <2> QED
    BY <1>0, <2>1, <2>2, <2>3, SMTT(30)
<1>2. \A other \in Addresses \ {ip} :
         /\ tries'[other] = Retained[other] /\ allowed'[other] = allowed[other]
         /\ tried'[other] = tried[other]
  BY <1>0 DEF Retained
<1>3. /\ tries'[ip] = IF may THEN Append(times, time) ELSE times
      /\ allowed'[ip] = IF may THEN Append(all, time) ELSE all
      /\ DOMAIN tries' = Addresses /\ DOMAIN allowed' = Addresses
  BY <1>0 DEF Retained
<1>4. /\ \A i \in 1 .. Len(all) : all[i] \in Nat /\ all[i] <= time
      /\ \A i, j \in 1 .. Len(all) : i <= j => all[i] <= all[j]
      /\ \A i, j \in 1 .. Len(all) : j = i + TryLimit => all[j] - all[i] >= TryWindow
      /\ \A i \in 1 .. Len(times) : times[i] = all[Len(all) - Len(times) + i]
      /\ \A i \in 1 .. Len(all) - Len(times) : Old(all[i])
  <2>1. Ascending /\ Spread
    BY Zenon DEF AttemptsInv
  <2>2. /\ \A i \in 1 .. Len(all) : all[i] <= time
        /\ \A i, j \in 1 .. Len(all) : i <= j => all[i] <= all[j]
    BY <2>1, Zenon DEF Ascending
  <2>3. \A i, j \in 1 .. Len(all) : j = i + TryLimit => all[j] - all[i] >= TryWindow
    BY <2>1, Zenon DEF Spread
  <2>4. /\ \A i \in 1 .. Len(times) : times[i] = all[Len(all) - Len(times) + i]
        /\ \A i \in 1 .. Len(all) - Len(times) : Old(all[i])
    BY <1>1, Zenon DEF IsLast
  <2>5. \A i \in 1 .. Len(all) : all[i] \in Nat
    BY <1>0
  <2> QED
    BY <2>2, <2>3, <2>4, <2>5, Zenon
<1> HIDE DEF all, times
<1> DEFINE longer == Append(all, time)
           kept == Append(times, time)
<1>5. /\ longer \in Seq(Nat) /\ Len(longer) = Len(all) + 1
      /\ \A i \in 1 .. Len(all) : longer[i] = all[i]
      /\ longer[Len(all) + 1] = time
      /\ kept \in Seq(Nat) /\ Len(kept) = Len(times) + 1
      /\ \A i \in 1 .. Len(times) : kept[i] = times[i]
      /\ kept[Len(times) + 1] = time
      /\ tries'[ip] = (IF may THEN kept ELSE times) /\ allowed'[ip] = (IF may THEN longer ELSE all)
  BY <1>0, <1>1, <1>3, AppendProperties
<1> HIDE DEF longer, kept
<1>n. /\ time \in Nat /\ time' = time /\ TryWindow \in Nat \ {0} /\ TryLimit \in Nat
      /\ Len(all) \in Nat /\ Len(times) \in Nat /\ Len(times) <= Len(all)
      /\ Len(times) <= TryLimit
  BY <1>0, <1>1
<1>l. /\ longer \in Seq(Nat) /\ Len(longer) = Len(all) + 1 /\ longer[Len(all) + 1] = time
      /\ \A i \in 1 .. Len(all) : longer[i] = all[i]
  BY <1>5
\* Every address keeps the last of its times.
<1>6. \A other \in Addresses : /\ IsLast(tries[other], other)'
                               /\ Len(tries'[other]) <= TryLimit
  <2>1. ASSUME NEW other \in Addresses \ {ip}
        PROVE  IsLast(tries[other], other)' /\ Len(tries'[other]) <= TryLimit
    <3>1. IsLast(Retained[other], other) /\ Len(Retained[other]) <= TryLimit
      BY Retaining
    <3> QED
      BY <1>0, <1>2, <3>1 DEF IsLast, Old, Aged
  <2>2. ASSUME ~may
        PROVE  IsLast(tries[ip], ip)' /\ Len(tries'[ip]) <= TryLimit
    <3>1. tries'[ip] = times /\ allowed'[ip] = all
      BY <1>5, <2>2
    <3> QED
      BY <1>n, <1>1, <3>1 DEF IsLast, Old, all
  <2>3. ASSUME may
        PROVE  IsLast(tries[ip], ip)' /\ Len(tries'[ip]) <= TryLimit
    <3>1. \A i \in 1 .. Len(times) + 1 :
             kept[i] = longer[Len(all) - Len(times) + i]
      <4> SUFFICES ASSUME NEW i \in 1 .. Len(times) + 1
                   PROVE  kept[i] = longer[Len(all) - Len(times) + i]
        OBVIOUS
      <4>1. CASE i = Len(times) + 1
        <5>1. Len(all) - Len(times) + i = Len(all) + 1
          BY <1>0, <1>1, <4>1
        <5> QED
          BY <1>5, <4>1, <5>1
      <4>2. CASE i # Len(times) + 1
        <5>1. i \in 1 .. Len(times) /\ Len(all) - Len(times) + i \in 1 .. Len(all)
          BY <1>0, <1>1, <4>2
        <5> QED
          BY <1>4, <1>5, <5>1
      <4> QED
        BY <4>1, <4>2
    <3>2. /\ Len(all) + 1 - (Len(times) + 1) = Len(all) - Len(times)
          /\ Len(times) + 1 <= Len(all) + 1 /\ Len(times) + 1 <= TryLimit
      BY <1>0, <1>1, <2>3
    <3>3. \A i \in 1 .. Len(all) - Len(times) : longer[i] = all[i]
      BY <1>0, <1>1, <1>5
    <3>4. /\ tries'[ip] = kept /\ allowed'[ip] = longer
      BY <1>5, <2>3
    <3>5. /\ Len(longer) - Len(kept) = Len(all) - Len(times) /\ Len(kept) <= Len(longer)
          /\ Len(kept) <= TryLimit
      BY <1>5, <3>2
    <3>6. /\ \A i \in 1 .. Len(kept) : kept[i] = longer[Len(longer) - Len(kept) + i]
          /\ \A i \in 1 .. Len(longer) - Len(kept) : Old(longer[i])
      BY <1>4, <1>5, <3>1, <3>3, <3>5
    <3> QED
      BY <1>n, <1>5, <3>4, <3>5, <3>6 DEF IsLast, Old, Aged
  <2> QED
    BY <2>1, <2>2, <2>3
<1>7. AttemptsTypes' /\ HoldsLast'
  <2>1. \A other \in Addresses : tries'[other] \in Seq(Nat) /\ allowed'[other] \in Seq(Nat)
    <3>1. \A other \in Addresses \ {ip} : allowed'[other] \in Seq(Nat)
      BY <1>0, <1>2
    <3>2. allowed'[ip] \in Seq(Nat)
      BY <1>0, <1>5
    <3> QED
      BY <1>6, <3>1, <3>2 DEF IsLast
  <2>2. /\ tries' = [other \in Addresses |-> tries'[other]]
        /\ allowed' = [other \in Addresses |-> allowed'[other]]
    BY <1>0 DEF Retained
  <2>3. tries' \in [Addresses -> Seq(Nat)] /\ allowed' \in [Addresses -> Seq(Nat)]
    BY <2>1, <2>2
  <2>4. tried' \in [Addresses -> Nat]
    BY <1>0
  <2> QED
    BY <1>0, <1>6, <2>3, <2>4 DEF AttemptsInv, AttemptsTypes, HoldsLast
<1>8. Ascending'
  <2>1. CASE ~may
    BY <1>0, <1>2, <1>5, <2>1, ZenonT(30) DEF Ascending, AttemptsInv, all
  <2>2. CASE may
    <3>0. /\ 1 .. Len(longer) = (1 .. Len(all)) \cup {Len(all) + 1}
          /\ \A j \in 1 .. Len(all) : ~ (Len(all) + 1 <= j)
      BY <1>n, <1>l
    <3>1. \A i \in 1 .. Len(longer) : longer[i] \in Nat /\ longer[i] <= time
      <4>1. \A i \in 1 .. Len(all) : longer[i] \in Nat /\ longer[i] <= time
        BY <1>4, <1>l
      <4>2. longer[Len(all) + 1] \in Nat /\ longer[Len(all) + 1] <= time
        BY <1>n, <1>l
      <4> QED
        BY <3>0, <4>1, <4>2
    <3>2. \A i, j \in 1 .. Len(longer) : i <= j => longer[i] <= longer[j]
      BY <1>n, <1>4, <1>l, <3>0, <3>1
    <3>3. allowed'[ip] = longer
      BY <1>5, <2>2
    <3> QED
      BY <1>n, <1>2, <3>1, <3>2, <3>3 DEF Ascending, AttemptsInv
  <2> QED
    BY <2>1, <2>2
<1>9. Spread'
  <2>1. CASE ~may
    BY <1>2, <1>5, <2>1 DEF Spread, AttemptsInv, all
  <2>2. CASE may
    <3>1. ASSUME NEW i \in 1 .. Len(all) + 1, Len(all) + 1 = i + TryLimit
          PROVE  longer[Len(all) + 1] - longer[i] >= TryWindow
      <4>1. i \in 1 .. Len(all) - Len(times) /\ i \in 1 .. Len(all)
        BY <1>0, <1>1, <2>2, <3>1
      <4> QED
        BY <1>0, <1>4, <1>5, <4>1 DEF Old, Aged
    <3>2. \A i, j \in 1 .. Len(all) + 1 : j = i + TryLimit =>
             longer[j] - longer[i] >= TryWindow
      <4> SUFFICES ASSUME NEW i \in 1 .. Len(all) + 1, NEW j \in 1 .. Len(all) + 1,
                          j = i + TryLimit
                   PROVE  longer[j] - longer[i] >= TryWindow
        OBVIOUS
      <4>1. CASE j = Len(all) + 1
        BY <3>1, <4>1
      <4>2. CASE j # Len(all) + 1
        <5>1. i \in 1 .. Len(all) /\ j \in 1 .. Len(all)
          BY <1>n, <4>2
        <5> QED
          BY <1>4, <1>l, <5>1
      <4> QED
        BY <4>1, <4>2
    <3>3. allowed'[ip] = longer
      BY <1>5, <2>2
    <3> QED
      BY <1>2, <1>5, <3>2, <3>3 DEF Spread, AttemptsInv
  <2> QED
    BY <2>1, <2>2
<1>10. RefusedOnlyFull
  <2> SUFFICES ASSUME allowed'[ip] = all
               PROVE  Cardinality({i \in DOMAIN all : ~Old(all[i])}) = TryLimit
    <3>1. \A other \in Addresses \ {ip} : ~ (tried'[other] > tried[other])
      BY <1>0, <1>2
    <3> QED
      BY <3>1 DEF RefusedOnlyFull, all
  <2>1. Len(times) = TryLimit
    <3>1. longer # all
      BY <1>0, <1>5
    <3> QED
      BY <1>0, <1>1, <1>5, <3>1
  <2>2. \A i \in 1 .. Len(all) :
           i > Len(all) - TryLimit => all[i] = times[i - (Len(all) - TryLimit)]
    BY <1>0, <1>1, <1>4, <2>1, SMTT(30)
  <2> DEFINE from == Len(all) - TryLimit + 1
  <2>3. \A i \in 1 .. Len(all) : Old(all[i]) <=> i < from
    <3> SUFFICES ASSUME NEW i \in 1 .. Len(all)
                 PROVE  Old(all[i]) <=> i < from
      OBVIOUS
    <3>1. CASE i < from
      BY <1>n, <1>4, <2>1, <3>1
    <3>2. CASE ~ (i < from)
      <4>1. i - (Len(all) - TryLimit) \in 1 .. Len(times) /\ i > Len(all) - TryLimit
        BY <1>n, <2>1, <3>2
      <4> QED
        BY <1>1, <2>2, <3>2, <4>1
    <3> QED
      BY <3>1, <3>2
  <2>4. from \in Int /\ 1 <= from /\ DOMAIN all = 1 .. Len(all)
    BY <1>n, <1>0, <2>1
  <2>5. {i \in DOMAIN all : ~Old(all[i])} = from .. Len(all)
    BY <1>n, <2>3, <2>4
  <2>6. Len(all) - from + 1 = TryLimit /\ (from > Len(all) => TryLimit = 0)
    BY <1>n, <2>1
  <2> HIDE DEF from
  <2>7. Cardinality(from .. Len(all)) = IF from > Len(all) THEN 0 ELSE Len(all) - from + 1
    <3>1. Len(all) \in Int
      BY <1>n
    <3> QED
      BY <2>4, <3>1, FS_Interval
  <2> QED
    BY <2>5, <2>6, <2>7
<1>11. ForgetsQuiet
  <2>1. ASSUME NEW other \in Addresses \ {ip}, tries'[other] # <<>>
        PROVE  time - Last(tries'[other]) < TryWindow
    <3>1. ~Old(Last(Retained[other])) /\ Retained[other] \in Seq(Nat) /\ Retained[other] # <<>>
      BY <1>2, <2>1, Retaining DEF IsLast
    <3>2. Last(Retained[other]) \in Nat
      BY <3>1 DEF Last
    <3> QED
      BY <1>0, <1>2, <3>1, <3>2 DEF Old, Aged
  <2>2. CASE may
    <3>1. Last(tries'[ip]) = time
      BY <1>3, <1>5, <2>2 DEF Last
    <3> QED
      BY <1>0, <2>1, <3>1 DEF ForgetsQuiet
  <2>3. ASSUME ~may, tries'[ip] # <<>>
        PROVE  time - Last(tries'[ip]) < TryWindow
    <3>1. tries'[ip] = times /\ Len(times) \in 1 .. Len(times)
      BY <1>1, <1>3, <2>3
    <3>2. Last(times) \in Nat /\ ~Old(Last(times))
      BY <1>1, <3>1 DEF Last
    <3> QED
      BY <1>0, <3>1, <3>2 DEF Old, Aged
  <2> QED
    BY <2>1, <2>2, <2>3 DEF ForgetsQuiet
<1> QED
  BY <1>7, <1>8, <1>9, <1>10, <1>11 DEF AttemptsInv

LEMMA AttemptsStep ==
    ASSUME AttemptsInv, [AttemptsNext]_attemptVars
    PROVE  AttemptsInv' /\ [RefusedOnlyFull /\ ForgetsQuiet]_attemptVars
PROOF
<1>1. ASSUME NEW ip \in Addresses, Attempt(ip)
      PROVE  AttemptsInv' /\ RefusedOnlyFull /\ ForgetsQuiet
  BY <1>1, AttemptStep
<1>2. CASE AttemptsTick
  <2>1. /\ time \in Nat /\ time' = time + 1 /\ TryWindow \in Nat
        /\ UNCHANGED <<tries, tried, allowed>>
        /\ tried \in [Addresses -> Nat] /\ allowed \in [Addresses -> Seq(Nat)]
    BY <1>2, AttemptsAssumption DEF AttemptsTick, AttemptsInv, AttemptsTypes
  <2>2. AttemptsTypes' /\ Spread'
    <3>1. time' <= TimeBound
      BY <1>2, <2>1, AttemptsAssumption DEF AttemptsTick
    <3> QED
      BY <2>1, <3>1 DEF AttemptsInv, AttemptsTypes, Spread
  <2>3. Ascending'
    BY <2>1 DEF AttemptsInv, Ascending
  <2>4. \A at \in Nat : Old(at) => Old(at)'
    BY <2>1 DEF Old, Aged
  <2>5. \A ip \in Addresses : \A i \in 1 .. Len(allowed[ip]) : Old(allowed[ip][i]) => Old(allowed[ip][i])'
    BY <2>1 DEF Old, Aged
  <2>6. HoldsLast'
    <3> SUFFICES ASSUME NEW ip \in Addresses
                 PROVE  IsLast(tries[ip], ip)'
      BY DEF HoldsLast
    <3>1. /\ IsLast(tries[ip], ip) /\ Len(allowed[ip]) \in Nat /\ Len(tries[ip]) \in Nat
      BY <2>1 DEF AttemptsInv, AttemptsTypes, HoldsLast
    <3>2. 1 .. Len(allowed[ip]) - Len(tries[ip]) \subseteq 1 .. Len(allowed[ip])
      <4> HIDE DEF IsLast
      <4>1. \A m, n \in Nat : 1 .. m - n \subseteq 1 .. m
        OBVIOUS
      <4> QED
        BY <3>1, <4>1
    <3> QED
      BY <2>1, <2>5, <3>1, <3>2 DEF IsLast
  <2>7. RefusedOnlyFull /\ ForgetsQuiet
    BY <2>1 DEF RefusedOnlyFull, ForgetsQuiet
  <2> QED
    BY <2>2, <2>3, <2>6, <2>7 DEF AttemptsInv
<1>3. CASE UNCHANGED attemptVars
  BY <1>3 DEF attemptVars, AttemptsInv, AttemptsTypes, Ascending, HoldsLast, IsLast, Old, Spread
<1> QED
  BY <1>1, <1>2, <1>3 DEF AttemptsNext

LEMMA AttemptsInvariant == AttemptsSpec => []AttemptsInv
PROOF
<1>1. AttemptsInv /\ [AttemptsNext]_attemptVars => AttemptsInv'
  BY AttemptsStep
<1> QED
  BY <1>1, AttemptsBegin, PTL DEF AttemptsSpec

\* ATTEMPTS + 1 times in a row take the window, so no window holds as many.
LEMMA InvHoldsWindow == AttemptsInv => WindowHolds
PROOF
<1> SUFFICES ASSUME AttemptsInv, NEW ip \in Addresses, NEW from \in Nat
             PROVE  Cardinality(LetThrough(ip, from, from + TryWindow)) <= TryLimit
  BY AttemptsAssumption DEF WindowHolds
<1> DEFINE all == allowed[ip]
           S == LetThrough(ip, from, from + TryWindow)
<1>0. /\ TryWindow \in Nat /\ TryLimit \in Nat /\ all \in Seq(Nat) /\ Len(all) \in Nat
      /\ \A i \in 1 .. Len(all) : all[i] \in Nat
      /\ \A i, j \in 1 .. Len(all) : i <= j => all[i] <= all[j]
      /\ \A i, j \in 1 .. Len(all) : j = i + TryLimit => all[j] - all[i] >= TryWindow
  BY AttemptsAssumption DEF AttemptsInv, AttemptsTypes, Ascending, Spread
<1>1. S = {i \in 1 .. Len(all) : all[i] \in from .. from + TryWindow - 1}
  BY <1>0 DEF LetThrough
<1> HIDE DEF all, S
<1>2. CASE S = {}
  <2>1. Cardinality(S) = 0
    BY <1>2, FS_EmptySet
  <2> QED
    BY <1>0, <2>1 DEF S
<1>3. CASE S # {}
  <2>1. PICK m \in S : \A i \in S : m <= i
    <3>1. S \in SUBSET Nat
      BY <1>1
    <3> QED
      BY <1>3, <3>1, Least
  <2> DEFINE end == m + TryLimit - 1
  <2>2. m \in 1 .. Len(all) /\ all[m] \in Nat /\ from <= all[m]
    BY <1>0, <1>1
  <2>3. ASSUME NEW i \in S
        PROVE  i \in m .. m + TryLimit - 1
    <3>1. i \in 1 .. Len(all) /\ m <= i /\ all[i] \in Nat /\ all[i] < from + TryWindow
      BY <1>0, <1>1, <2>1
    <3>2. SUFFICES ASSUME m + TryLimit <= i
                   PROVE  FALSE
      BY <1>0, <2>2, <3>1
    <3>3. m + TryLimit \in 1 .. Len(all)
      BY <1>0, <2>2, <3>1, <3>2
    <3>4. all[m + TryLimit] - all[m] >= TryWindow /\ all[m + TryLimit] <= all[i]
      BY <1>0, <2>2, <3>1, <3>2, <3>3
    <3>5. all[m + TryLimit] \in Nat
      BY <1>0, <3>3
    <3> QED
      BY <1>0, <2>2, <3>1, <3>4, <3>5, SMTT(30)
  <2>4. /\ m \in Int /\ end \in Int
        /\ (IF m > end THEN 0 ELSE end - m + 1) = TryLimit
    BY <1>0, <2>2
  <2>5. S \subseteq m .. end
    BY <2>3
  <2> HIDE DEF end
  <2>6. IsFiniteSet(m .. end) /\ Cardinality(m .. end) = TryLimit
    BY <2>4, FS_Interval
  <2> QED
    BY <2>5, <2>6, FS_Subset DEF S
<1> QED
  BY <1>2, <1>3

LEMMA InvTimesPast == AttemptsInv => AttemptsTypeOK
PROOF
<1> SUFFICES ASSUME AttemptsInv
             PROVE  AttemptsTypeOK
  OBVIOUS
<1>0. /\ time \in Nat /\ time <= TimeBound /\ TimeBound \in Nat
      /\ tries \in [Addresses -> Seq(Nat)] /\ allowed \in [Addresses -> Seq(Nat)]
  BY AttemptsAssumption DEF AttemptsInv, AttemptsTypes
<1>1. ASSUME NEW ip \in Addresses
      PROVE  /\ tries[ip] \in Seq(0 .. TimeBound)
             /\ \A i \in DOMAIN tries[ip] : tries[ip][i] <= time
  <2> DEFINE times == tries[ip]
             all == allowed[ip]
  <2>1. /\ times \in Seq(Nat) /\ Len(times) \in Nat /\ Len(all) \in Nat
        /\ DOMAIN times = 1 .. Len(times)
    BY <1>0
  <2>2. /\ Len(times) <= Len(all)
        /\ \A i \in 1 .. Len(times) : times[i] = all[Len(all) - Len(times) + i]
        /\ \A i \in 1 .. Len(all) : all[i] <= time
    BY DEF AttemptsInv, HoldsLast, IsLast, Ascending
  <2> HIDE DEF times, all
  <2>3. \A i \in 1 .. Len(times) : times[i] \in 0 .. TimeBound /\ times[i] <= time
    <3>1. \A i \in 1 .. Len(times) : Len(all) - Len(times) + i \in 1 .. Len(all)
      BY <2>1, <2>2
    <3>2. \A i \in 1 .. Len(times) : times[i] \in Nat
      BY <2>1
    <3>3. \A i \in 1 .. Len(times) : times[i] <= time
      BY <2>2, <3>1
    <3> QED
      BY <1>0, <3>2, <3>3
  <2>4. SubSeq(times, 1, Len(times)) \in Seq(0 .. TimeBound)
    <3>1. 1 \in Int /\ Len(times) \in Int
      BY <2>1
    <3> QED
      BY <2>3, <3>1, SubSeqProperties
  <2>5. SubSeq(times, 1, Len(times)) = times
    BY <2>1, SubSeqFull
  <2> QED
    BY <2>1, <2>3, <2>4, <2>5 DEF times
<1> QED
  BY <1>0, <1>1 DEF AttemptsTypeOK

\* In no stretch as long as the window is an address let through more than
\* ATTEMPTS times (Registry::attempt).
THEOREM WindowAlwaysHolds == AttemptsSpec => [](AttemptsTypeOK /\ WindowHolds)
PROOF BY AttemptsInvariant, InvHoldsWindow, InvTimesPast, PTL

\* An address is refused only while the window holds ATTEMPTS it was allowed,
\* and the table forgets the addresses that have gone quiet (Registry::attempt).
THEOREM AttemptStepsSafe == AttemptsSpec => RefusedOnlyWhenFull /\ TableForgets
PROOF
<1>1. AttemptsInv /\ [AttemptsNext]_attemptVars => [RefusedOnlyFull /\ ForgetsQuiet]_attemptVars
  BY AttemptsStep
<1> QED
  BY <1>1, AttemptsInvariant, PTL DEF AttemptsSpec, RefusedOnlyWhenFull, TableForgets,
     RefusedOnlyFull, ForgetsQuiet

-----------------------------------------------------------------------------
(* Fleet *)

Ref == [id : Nat, meant : Nat]
EnrollToken == [group : Ref, left : Nat, used : Nat, expired : BOOLEAN]
Chore == [op : {"none", "move", "token", "member", "rule"},
          dg : Ref, ug : Ref, user : Ref, machine : Machines \cup {"none"}]

FleetTypes ==
    /\ serial \in Nat /\ serial <= SerialBound
    /\ DOMAIN rows = Tables
    /\ \A t \in Tables : \A i \in DOMAIN rows[t] : i \in 1 .. serial /\ rows[t][i] \in Nat
    /\ fleet \in [DOMAIN fleet -> Ref] /\ DOMAIN fleet \subseteq Machines
    /\ etokens \subseteq EnrollToken
    /\ members \subseteq [ug : Ref, user : Ref]
    /\ rules \subseteq [ug : Ref, dg : Ref, role : Roles]
    /\ chore \in [Managers -> Chore]
    /\ installed \in [Machines -> {"none", "waiting", "enrolled", "refused"}]
    /\ fleetPast \in [raced : BOOLEAN, untold : SUBSET Machines, forgotten : SUBSET Machines]

\* A reference to a row that is there, and to the one that was meant unless a
\* handler raced.
Holds(t, ref) == There(t, ref) /\ (~fleetPast.raced => Meant(t, ref))
HoldsOrNone(t, ref) == ref = NoRef \/ Holds(t, ref)

Referring ==
    /\ \A k \in DOMAIN fleet : HoldsOrNone("dgroup", fleet[k])
    /\ \A e \in etokens : HoldsOrNone("dgroup", e.group)
    /\ \A m \in members : Holds("ugroup", m.ug) /\ Holds("user", m.user)
    /\ \A r \in rules : Holds("ugroup", r.ug) /\ Holds("dgroup", r.dg)

\* A request that is to write a membership or a grant names both its ends.
ChoresNamed ==
    \A w \in Managers :
        /\ chore[w].op = "member" => chore[w].ug # NoRef /\ chore[w].user # NoRef
        /\ chore[w].op = "rule" => chore[w].ug # NoRef /\ chore[w].dg # NoRef

\* A device that waits, or was refused, was enrolled before or not answered.
Told ==
    \A k \in Machines :
        /\ installed[k] = "enrolled" => k \in DOMAIN fleet \cup fleetPast.forgotten
        /\ installed[k] \in {"waiting", "refused"} /\ k \in DOMAIN fleet
           => k \in fleetPast.untold

FleetInv == FleetTypes /\ Referring /\ TokenUsedUp /\ ChoresNamed /\ Told

\* What no step of the fleet may do to the access a user has.
RowsGiveNothing ==
    \A t \in Tables : CreateRow(t) =>
        \A k \in Machines, u \in DOMAIN rows'["user"] :
            RoleOn(u, k)' = (IF u \in DOMAIN rows["user"] THEN RoleOn(u, k) ELSE 0)

LEMMA FleetBegins == FleetInit => FleetInv
PROOF
<1> SUFFICES ASSUME FleetInit
             PROVE  FleetInv
  OBVIOUS
<1>1. NoRef \in Ref /\ NoChore \in Chore
  BY DEF NoRef, NoChore, Ref, Chore
<1> QED
  BY <1>1, FleetAssumption DEF FleetInit, FleetInv, FleetTypes, Referring, TokenUsedUp, ChoresNamed,
     Told, NoChore, Tables

\* A new row has an id that none has.
LEMMA FreshIsNew ==
    ASSUME FleetInv, NEW t \in Tables
    PROVE  FreshRow(t) \in 1 .. serial + 1 /\ FreshRow(t) \notin DOMAIN rows[t]
PROOF BY NextId DEF FleetInv, FleetTypes, FreshRow

LEMMA CreateRowStep ==
    ASSUME FleetInv, NEW t \in Tables, CreateRow(t)
    PROVE  FleetInv'
PROOF
<1> DEFINE new == FreshRow(t)
<1>1. new \in 1 .. serial + 1 /\ new \notin DOMAIN rows[t]
  BY FreshIsNew
<1>2. /\ serial < SerialBound /\ serial' = serial + 1 /\ serial \in Nat
      /\ rows' = [rows EXCEPT ![t] = With(rows[t], new, serial + 1)]
      /\ DOMAIN rows = Tables
      /\ \A t2 \in Tables : \A i \in DOMAIN rows[t2] : i \in 1 .. serial /\ rows[t2][i] \in Nat
      /\ UNCHANGED <<fleet, etokens, members, rules, chore, installed, fleetPast>>
  BY DEF CreateRow, FleetInv, FleetTypes
<1> HIDE DEF new
<1>3. /\ DOMAIN rows'[t] = DOMAIN rows[t] \cup {new}
      /\ rows'[t][new] = serial + 1
      /\ \A i \in DOMAIN rows[t] : rows'[t][i] = rows[t][i]
      /\ \A t2 \in Tables \ {t} : rows'[t2] = rows[t2]
      /\ DOMAIN rows' = Tables
  <2>1. /\ rows'[t] = With(rows[t], new, serial + 1)
        /\ \A t2 \in Tables \ {t} : rows'[t2] = rows[t2]
        /\ DOMAIN rows' = Tables
    BY <1>2
  <2> QED
    BY <1>1, <2>1 DEF With
<1>4. \A t2 \in Tables : \A i \in DOMAIN rows'[t2] :
         i \in 1 .. serial + 1 /\ rows'[t2][i] \in Nat
  BY <1>1, <1>2, <1>3
<1>5. FleetTypes'
  BY <1>2, <1>3, <1>4, FleetAssumption DEF FleetInv, FleetTypes
<1>6. \A t2 \in Tables : \A ref : /\ Holds(t2, ref) => Holds(t2, ref)'
                                  /\ HoldsOrNone(t2, ref) => HoldsOrNone(t2, ref)'
  BY <1>2, <1>3 DEF Holds, HoldsOrNone, There, Meant
<1>7. Referring'
  BY <1>2, <1>6 DEF FleetInv, Referring, Tables
<1>8. TokenUsedUp' /\ ChoresNamed' /\ Told'
  BY <1>2 DEF FleetInv, TokenUsedUp, ChoresNamed, Told
<1> QED
  BY <1>5, <1>7, <1>8 DEF FleetInv

\* A deleted row takes with it what referred to it.
LEMMA DeleteRowStep ==
    ASSUME FleetInv, NEW t \in Tables, DeleteRow(t)
    PROVE  FleetInv'
PROOF
<1>1. PICK i \in DOMAIN rows[t] :
         /\ rows' = [rows EXCEPT ![t] = [j \in DOMAIN rows[t] \ {i} |-> rows[t][j]]]
         /\ Cascade(t, i)
  BY DEF DeleteRow
<1>2. /\ UNCHANGED <<chore, serial, installed, fleetPast>>
      /\ DOMAIN rows = Tables
      /\ \A t2 \in Tables : \A j \in DOMAIN rows[t2] : j \in 1 .. serial /\ rows[t2][j] \in Nat
      /\ fleet \in [DOMAIN fleet -> Ref]
  BY DEF DeleteRow, FleetInv, FleetTypes
<1>3. /\ DOMAIN rows'[t] = DOMAIN rows[t] \ {i}
      /\ \A j \in DOMAIN rows[t] \ {i} : rows'[t][j] = rows[t][j]
      /\ \A t2 \in Tables \ {t} : rows'[t2] = rows[t2]
      /\ DOMAIN rows' = Tables
  BY <1>1, <1>2
<1>4. /\ DOMAIN fleet' = DOMAIN fleet
      /\ \A k \in DOMAIN fleet :
            fleet'[k] = IF t = "dgroup" /\ fleet[k].id = i THEN NoRef ELSE fleet[k]
      /\ fleet' = [k \in DOMAIN fleet' |-> fleet'[k]]
      /\ etokens' = {e \in etokens : ~(t = "dgroup" /\ e.group.id = i)}
      /\ members' = {m \in members : ~(t = "ugroup" /\ m.ug.id = i) /\ ~(t = "user" /\ m.user.id = i)}
      /\ rules' = {r \in rules : ~(t = "ugroup" /\ r.ug.id = i) /\ ~(t = "dgroup" /\ r.dg.id = i)}
  BY <1>1 DEF Cascade
<1>5. FleetTypes'
  <2>1. \A t2 \in Tables : \A j \in DOMAIN rows'[t2] : j \in 1 .. serial /\ rows'[t2][j] \in Nat
    BY <1>2, <1>3
  <2>2. fleet' \in [DOMAIN fleet' -> Ref]
    <3>1. NoRef \in Ref
      BY DEF NoRef, Ref
    <3>2. \A k \in DOMAIN fleet' : fleet'[k] \in Ref
      BY <1>2, <1>4, <3>1
    <3> QED
      BY <1>4, <3>2
  <2> QED
    BY <1>2, <1>3, <1>4, <2>1, <2>2 DEF FleetInv, FleetTypes
<1>6. \A t2 \in Tables : \A ref : ~(t2 = t /\ ref.id = i) /\ Holds(t2, ref) => Holds(t2, ref)'
  BY <1>2, <1>3 DEF Holds, There, Meant
<1>7. Referring'
  <2>1. \A k \in DOMAIN fleet' : HoldsOrNone("dgroup", fleet[k])'
    BY <1>4, <1>6 DEF FleetInv, Referring, HoldsOrNone, Tables
  <2>2. \A e \in etokens' : HoldsOrNone("dgroup", e.group)'
    BY <1>4, <1>6 DEF FleetInv, Referring, HoldsOrNone, Tables
  <2>3. \A m \in members' : Holds("ugroup", m.ug)' /\ Holds("user", m.user)'
    BY <1>4, <1>6 DEF FleetInv, Referring, Tables
  <2>4. \A r \in rules' : Holds("ugroup", r.ug)' /\ Holds("dgroup", r.dg)'
    BY <1>4, <1>6 DEF FleetInv, Referring, Tables
  <2> QED
    BY <2>1, <2>2, <2>3, <2>4 DEF Referring
<1>8. TokenUsedUp' /\ ChoresNamed' /\ Told'
  BY <1>2, <1>4 DEF FleetInv, TokenUsedUp, ChoresNamed, Told
<1> QED
  BY <1>5, <1>7, <1>8 DEF FleetInv

\* What a check leaves: a request that names rows that are there.
LEMMA CheckStep ==
    ASSUME FleetInv, NEW w \in Managers,
           MoveCheck(w) \/ TokenCheck(w) \/ MemberCheck(w) \/ RuleCheck(w)
    PROVE  FleetInv'
PROOF
<1>1. /\ UNCHANGED <<rows, fleet, etokens, members, rules, serial, installed, fleetPast>>
      /\ chore \in [Managers -> Chore]
  BY DEF MoveCheck, TokenCheck, MemberCheck, RuleCheck, Checked, FleetInv, FleetTypes
<1>2. /\ NoRef = [id |-> 0, meant |-> 0] /\ NoRef \in Ref
      /\ NoChore = [op |-> "none", dg |-> NoRef, ug |-> NoRef, user |-> NoRef, machine |-> "none"]
  BY DEF NoRef, NoChore, Ref
<1>3. \A t \in Tables : \A ref \in Refs(t) : ref \in Ref /\ ref # NoRef
  <2> SUFFICES ASSUME NEW t \in Tables, NEW i \in DOMAIN rows[t]
               PROVE  RefTo(t, i) \in Ref /\ RefTo(t, i) # NoRef
    BY DEF Refs
  <2>1. i \in 1 .. serial /\ rows[t][i] \in Nat /\ serial \in Nat
    BY DEF FleetInv, FleetTypes
  <2>2. i \in Nat /\ i # 0
    BY <2>1
  <2> QED
    BY <2>1, <2>2 DEF RefTo, NoRef, Ref
<1>4. PICK next \in Chore :
         /\ chore' = [chore EXCEPT ![w] = next]
         /\ next.op = "member" => next.ug # NoRef /\ next.user # NoRef
         /\ next.op = "rule" => next.ug # NoRef /\ next.dg # NoRef
  <2>1. CASE MoveCheck(w)
    <3>1. PICK k \in DOMAIN fleet, g \in Refs("dgroup") :
             chore' = [chore EXCEPT ![w] = [NoChore EXCEPT !.op = "move", !.dg = g, !.machine = k]]
      BY <2>1 DEF MoveCheck, Checked
    <3>2. [NoChore EXCEPT !.op = "move", !.dg = g, !.machine = k]
            = [op |-> "move", dg |-> g, ug |-> NoRef, user |-> NoRef, machine |-> k]
      <4>1. [NoChore EXCEPT !.op = "move"]
              = [op |-> "move", dg |-> NoRef, ug |-> NoRef, user |-> NoRef, machine |-> "none"]
        BY DEF NoChore
      <4>2. [[op |-> "move", dg |-> NoRef, ug |-> NoRef, user |-> NoRef, machine |-> "none"] EXCEPT !.dg = g]
              = [op |-> "move", dg |-> g, ug |-> NoRef, user |-> NoRef, machine |-> "none"]
        OBVIOUS
      <4>3. [[op |-> "move", dg |-> g, ug |-> NoRef, user |-> NoRef, machine |-> "none"] EXCEPT !.machine = k]
              = [op |-> "move", dg |-> g, ug |-> NoRef, user |-> NoRef, machine |-> k]
        OBVIOUS
      <4> QED
        BY <4>1, <4>2, <4>3
    <3>3. [op |-> "move", dg |-> g, ug |-> NoRef, user |-> NoRef, machine |-> k] \in Chore
      BY <1>2, <1>3 DEF Chore, Tables, FleetInv, FleetTypes
    <3> QED
      BY <3>1, <3>2, <3>3
  <2>2. CASE TokenCheck(w)
    <3>1. PICK g \in Refs("dgroup") :
             chore' = [chore EXCEPT ![w] = [NoChore EXCEPT !.op = "token", !.dg = g]]
      BY <2>2 DEF TokenCheck, Checked
    <3>2. [NoChore EXCEPT !.op = "token", !.dg = g]
            = [op |-> "token", dg |-> g, ug |-> NoRef, user |-> NoRef, machine |-> "none"]
      <4>1. [NoChore EXCEPT !.op = "token"]
              = [op |-> "token", dg |-> NoRef, ug |-> NoRef, user |-> NoRef, machine |-> "none"]
        BY DEF NoChore
      <4>2. [[op |-> "token", dg |-> NoRef, ug |-> NoRef, user |-> NoRef, machine |-> "none"] EXCEPT !.dg = g]
              = [op |-> "token", dg |-> g, ug |-> NoRef, user |-> NoRef, machine |-> "none"]
        OBVIOUS
      <4> QED
        BY <4>1, <4>2
    <3>3. [op |-> "token", dg |-> g, ug |-> NoRef, user |-> NoRef, machine |-> "none"] \in Chore
      BY <1>2, <1>3 DEF Chore, Tables
    <3> QED
      BY <3>1, <3>2, <3>3
  <2>3. CASE MemberCheck(w)
    <3>1. PICK g \in Refs("ugroup"), u \in Refs("user") :
             chore' = [chore EXCEPT ![w] = [NoChore EXCEPT !.op = "member", !.ug = g, !.user = u]]
      BY <2>3 DEF MemberCheck, Checked
    <3>2. [NoChore EXCEPT !.op = "member", !.ug = g, !.user = u]
            = [op |-> "member", dg |-> NoRef, ug |-> g, user |-> u, machine |-> "none"]
      <4>1. [NoChore EXCEPT !.op = "member"]
              = [op |-> "member", dg |-> NoRef, ug |-> NoRef, user |-> NoRef, machine |-> "none"]
        BY DEF NoChore
      <4>2. [[op |-> "member", dg |-> NoRef, ug |-> NoRef, user |-> NoRef, machine |-> "none"] EXCEPT !.ug = g]
              = [op |-> "member", dg |-> NoRef, ug |-> g, user |-> NoRef, machine |-> "none"]
        OBVIOUS
      <4>3. [[op |-> "member", dg |-> NoRef, ug |-> g, user |-> NoRef, machine |-> "none"] EXCEPT !.user = u]
              = [op |-> "member", dg |-> NoRef, ug |-> g, user |-> u, machine |-> "none"]
        OBVIOUS
      <4> QED
        BY <4>1, <4>2, <4>3
    <3>3. [op |-> "member", dg |-> NoRef, ug |-> g, user |-> u, machine |-> "none"] \in Chore
      BY <1>2, <1>3 DEF Chore, Tables
    <3> QED
      BY <1>3, <3>1, <3>2, <3>3 DEF Tables
  <2>4. CASE RuleCheck(w)
    <3>1. PICK g \in Refs("ugroup"), d \in Refs("dgroup") :
             chore' = [chore EXCEPT ![w] = [NoChore EXCEPT !.op = "rule", !.ug = g, !.dg = d]]
      BY <2>4 DEF RuleCheck, Checked
    <3>2. [NoChore EXCEPT !.op = "rule", !.ug = g, !.dg = d]
            = [op |-> "rule", dg |-> d, ug |-> g, user |-> NoRef, machine |-> "none"]
      <4>1. [NoChore EXCEPT !.op = "rule"]
              = [op |-> "rule", dg |-> NoRef, ug |-> NoRef, user |-> NoRef, machine |-> "none"]
        BY DEF NoChore
      <4>2. [[op |-> "rule", dg |-> NoRef, ug |-> NoRef, user |-> NoRef, machine |-> "none"] EXCEPT !.ug = g]
              = [op |-> "rule", dg |-> NoRef, ug |-> g, user |-> NoRef, machine |-> "none"]
        OBVIOUS
      <4>3. [[op |-> "rule", dg |-> NoRef, ug |-> g, user |-> NoRef, machine |-> "none"] EXCEPT !.dg = d]
              = [op |-> "rule", dg |-> d, ug |-> g, user |-> NoRef, machine |-> "none"]
        OBVIOUS
      <4> QED
        BY <4>1, <4>2, <4>3
    <3>3. [op |-> "rule", dg |-> d, ug |-> g, user |-> NoRef, machine |-> "none"] \in Chore
      BY <1>2, <1>3 DEF Chore, Tables
    <3> QED
      BY <1>3, <3>1, <3>2, <3>3 DEF Tables
  <2> QED
    BY <2>1, <2>2, <2>3, <2>4
<1>5. ChoresNamed' /\ chore' \in [Managers -> Chore]
  BY <1>1, <1>4 DEF FleetInv, ChoresNamed
<1>6. FleetTypes'
  BY <1>1, <1>5 DEF FleetInv, FleetTypes
<1>7. Referring' /\ TokenUsedUp' /\ Told'
  BY <1>1 DEF FleetInv, Referring, HoldsOrNone, Holds, There, Meant, TokenUsedUp, Told
<1> QED
  BY <1>5, <1>6, <1>7 DEF FleetInv

\* A write changes one table; the references in the others hold as they did.
LEMMA WriteStep ==
    ASSUME FleetInv, NEW w \in Managers,
           MoveWrite(w) \/ TokenWrite(w) \/ MemberWrite(w) \/ RuleWrite(w)
    PROVE  FleetInv'
PROOF
\* The request as it is before the write, which ends it.
<1>0. PICK c \in Chore : c = chore[w]
  BY DEF FleetInv, FleetTypes
<1>1. /\ chore \in [Managers -> Chore] /\ KeysHold(w) /\ WroteAsMeant(w) /\ Finish(w)
      /\ fleetPast \in [raced : BOOLEAN, untold : SUBSET Machines, forgotten : SUBSET Machines]
      /\ fleet \in [DOMAIN fleet -> Ref]
  BY DEF MoveWrite, TokenWrite, MemberWrite, RuleWrite, FleetInv, FleetTypes
<1>2. c.dg \in Ref /\ c.ug \in Ref /\ c.user \in Ref
  BY <1>0 DEF Chore
<1>3. /\ UNCHANGED <<rows, serial, installed>>
      /\ chore' = [chore EXCEPT ![w] = NoChore]
      /\ fleetPast' = [raced |-> fleetPast.raced \/ ~AsMeant(w), untold |-> fleetPast.untold,
                       forgotten |-> fleetPast.forgotten]
  BY <1>1 DEF Finish, WroteAsMeant
<1>4. /\ fleetPast'.raced = (fleetPast.raced \/ ~AsMeant(w))
      /\ fleetPast'.untold = fleetPast.untold /\ fleetPast'.forgotten = fleetPast.forgotten
      /\ AsMeant(w) \in BOOLEAN /\ fleetPast.raced \in BOOLEAN
      /\ fleetPast' \in [raced : BOOLEAN, untold : SUBSET Machines, forgotten : SUBSET Machines]
  BY <1>1, <1>3 DEF AsMeant
<1>5. \A t \in Tables : \A ref : /\ Holds(t, ref) => Holds(t, ref)'
                                 /\ HoldsOrNone(t, ref) => HoldsOrNone(t, ref)'
  BY <1>3, <1>4 DEF Holds, HoldsOrNone, There, Meant
<1>6. \A n \in Named(w) : n[2] = NoRef \/ (There(n[1], n[2]) /\ (~fleetPast'.raced => Meant(n[1], n[2])))
  BY <1>1, <1>4 DEF KeysHold, AsMeant
<1>7. /\ c.dg = NoRef \/ Holds("dgroup", c.dg)'
      /\ c.ug = NoRef \/ Holds("ugroup", c.ug)'
      /\ c.user = NoRef \/ Holds("user", c.user)'
  <2>1. <<"dgroup", c.dg>> \in Named(w) /\ <<"ugroup", c.ug>> \in Named(w) /\ <<"user", c.user>> \in Named(w)
    BY <1>0 DEF Named
  <2>2. \A t, ref : There(t, ref) /\ (~fleetPast'.raced => Meant(t, ref)) =>
           There(t, ref)' /\ (~fleetPast'.raced => Meant(t, ref)')
    BY <1>3 DEF There, Meant
  <2> QED
    BY <1>6, <2>1, <2>2 DEF Holds
<1>8. /\ chore' \in [Managers -> Chore] /\ ChoresNamed'
  <2>1. NoChore \in Chore /\ NoChore.op = "none"
    BY DEF NoChore, NoRef, Ref, Chore
  <2> QED
    BY <1>1, <1>3, <2>1 DEF FleetInv, ChoresNamed
<1>9. CASE MoveWrite(w)
  <2>1. /\ fleet' = [k \in DOMAIN fleet |-> IF k = c.machine THEN c.dg ELSE fleet[k]]
        /\ UNCHANGED <<etokens, members, rules>>
    BY <1>0, <1>9 DEF MoveWrite
  <2>2. fleet' \in [DOMAIN fleet' -> Ref] /\ DOMAIN fleet' = DOMAIN fleet
    BY <1>1, <1>2, <2>1
  <2>3. FleetTypes'
    BY <1>3, <1>4, <1>8, <2>1, <2>2 DEF FleetInv, FleetTypes
  <2>4. \A k \in DOMAIN fleet' : HoldsOrNone("dgroup", fleet[k])'
    BY <1>5, <1>7, <2>1 DEF FleetInv, Referring, HoldsOrNone, Tables
  <2>5. Referring'
    BY <1>5, <2>1, <2>4 DEF FleetInv, Referring, Tables
  <2> QED
    BY <1>3, <1>4, <1>8, <2>1, <2>2, <2>3, <2>5 DEF FleetInv, TokenUsedUp, Told
<1>10. CASE TokenWrite(w)
  <2>1. etokens' = {NewToken(c.dg)} /\ UNCHANGED <<fleet, members, rules>>
    BY <1>0, <1>10 DEF TokenWrite
  <2>2. /\ NewToken(c.dg) \in EnrollToken /\ NewToken(c.dg).group = c.dg
        /\ NewToken(c.dg).used + NewToken(c.dg).left = TokenUses
    BY <1>2, FleetAssumption DEF NewToken, EnrollToken
  <2>3. FleetTypes'
    BY <1>3, <1>4, <1>8, <2>1, <2>2 DEF FleetInv, FleetTypes
  <2>4. \A e \in etokens' : HoldsOrNone("dgroup", e.group)'
    BY <1>7, <2>1, <2>2 DEF HoldsOrNone
  <2>5. Referring'
    BY <1>5, <2>1, <2>4 DEF FleetInv, Referring, Tables
  <2>6. TokenUsedUp'
    BY <2>1, <2>2 DEF TokenUsedUp
  <2> QED
    BY <1>3, <1>4, <1>8, <2>1, <2>3, <2>5, <2>6 DEF FleetInv, Told
<1>11. CASE MemberWrite(w)
  <2> DEFINE new == [ug |-> c.ug, user |-> c.user]
  <2>1. /\ members' \in {members, members \cup {new}} /\ UNCHANGED <<fleet, etokens, rules>>
        /\ c.op = "member"
    BY <1>0, <1>11 DEF MemberWrite
  <2>2. /\ new \in [ug : Ref, user : Ref] /\ new.ug = c.ug /\ new.user = c.user
        /\ c.ug # NoRef /\ c.user # NoRef
    BY <1>0, <1>2, <2>1 DEF FleetInv, ChoresNamed
  <2> HIDE DEF new
  <2>3. FleetTypes'
    BY <1>3, <1>4, <1>8, <2>1, <2>2 DEF FleetInv, FleetTypes
  <2>4. \A m \in members' : Holds("ugroup", m.ug)' /\ Holds("user", m.user)'
    BY <1>5, <1>7, <2>1, <2>2 DEF FleetInv, Referring, Tables
  <2>5. Referring'
    BY <1>5, <2>1, <2>4 DEF FleetInv, Referring, Tables
  <2> QED
    BY <1>3, <1>4, <1>8, <2>1, <2>3, <2>5 DEF FleetInv, TokenUsedUp, Told
<1>12. CASE RuleWrite(w)
  <2>1. PICK role \in Roles :
          LET same == {r \in rules : r.ug.id = c.ug.id /\ r.dg.id = c.dg.id}
          IN rules' = IF same = {}
                      THEN rules \cup {[ug |-> c.ug, dg |-> c.dg, role |-> role]}
                      ELSE (rules \ same) \cup {[r EXCEPT !.role = role] : r \in same}
    BY <1>0, <1>12 DEF RuleWrite
  <2> DEFINE new == [ug |-> c.ug, dg |-> c.dg, role |-> role]
  <2>2. c.op = "rule" /\ UNCHANGED <<fleet, etokens, members>>
    BY <1>0, <1>12 DEF RuleWrite
  <2>3. /\ new \in [ug : Ref, dg : Ref, role : Roles] /\ new.ug = c.ug /\ new.dg = c.dg
        /\ c.ug # NoRef /\ c.dg # NoRef
    BY <1>0, <1>2, <2>2 DEF FleetInv, ChoresNamed
  <2>4. \A r \in rules : /\ [r EXCEPT !.role = role] \in [ug : Ref, dg : Ref, role : Roles]
                         /\ [r EXCEPT !.role = role].ug = r.ug
                         /\ [r EXCEPT !.role = role].dg = r.dg
    BY DEF FleetInv, FleetTypes
  <2>5. \A r \in rules' :
           \/ r \in rules
           \/ r = new
           \/ \E q \in rules : r = [q EXCEPT !.role = role]
    BY <2>1
  <2> HIDE DEF new
  <2>6. rules' \subseteq [ug : Ref, dg : Ref, role : Roles]
    BY <2>3, <2>4, <2>5 DEF FleetInv, FleetTypes
  <2>7. FleetTypes'
    BY <1>3, <1>4, <1>8, <2>2, <2>6 DEF FleetInv, FleetTypes
  <2>8. \A r \in rules : Holds("ugroup", r.ug)' /\ Holds("dgroup", r.dg)'
    BY <1>5 DEF FleetInv, Referring, Tables
  <2>9. Holds("ugroup", c.ug)' /\ Holds("dgroup", c.dg)'
    BY <1>7, <2>3
  <2>10. \A r \in rules' : Holds("ugroup", r.ug)' /\ Holds("dgroup", r.dg)'
    <3> SUFFICES ASSUME NEW r \in rules'
                 PROVE  Holds("ugroup", r.ug)' /\ Holds("dgroup", r.dg)'
      OBVIOUS
    <3>1. CASE r \in rules
      BY <2>8, <3>1
    <3>2. CASE r = new
      BY <2>3, <2>9, <3>2
    <3>3. CASE \E q \in rules : r = [q EXCEPT !.role = role]
      BY <2>4, <2>8, <3>3
    <3> QED
      BY <2>5, <3>1, <3>2, <3>3
  <2>11. Referring'
    BY <1>5, <2>2, <2>10 DEF FleetInv, Referring, Tables
  <2> QED
    BY <1>3, <1>4, <1>8, <2>2, <2>7, <2>11 DEF FleetInv, TokenUsedUp, Told
<1> QED
  BY <1>9, <1>10, <1>11, <1>12

\* The handlers that only take away, or make a token without a group.
LEMMA TakeAwayStep ==
    ASSUME FleetInv,
           \/ FreeToken \/ RemoveMember \/ DeleteRule \/ DeleteToken \/ TokenExpires \/ ListTokens
           \/ \E k \in Machines : TakeOut(k) \/ ForgetMachine(k)
           \/ \E w \in Managers : WriteRefused(w)
    PROVE  FleetInv'
PROOF
<1>1. /\ fleet \in [DOMAIN fleet -> Ref] /\ DOMAIN fleet \subseteq Machines
      /\ fleetPast \in [raced : BOOLEAN, untold : SUBSET Machines, forgotten : SUBSET Machines]
      /\ etokens \subseteq EnrollToken
      /\ NoRef \in Ref
  BY DEF FleetInv, FleetTypes, NoRef, Ref
<1>2. ASSUME UNCHANGED rows, fleetPast'.raced = fleetPast.raced
      PROVE  \A t \in Tables : \A ref : /\ Holds(t, ref) => Holds(t, ref)'
                                        /\ HoldsOrNone(t, ref) => HoldsOrNone(t, ref)'
  BY <1>2 DEF Holds, HoldsOrNone, There, Meant
<1>3. ASSUME NEW tokens, tokens \subseteq EnrollToken, etokens' = tokens,
             \A e \in tokens : HoldsOrNone("dgroup", e.group) /\ e.used + e.left = TokenUses,
             UNCHANGED <<rows, fleet, members, rules, chore, serial, installed, fleetPast>>
      PROVE  FleetInv'
  <2>1. FleetTypes'
    BY <1>3 DEF FleetInv, FleetTypes
  <2>2. Referring'
    BY <1>2, <1>3 DEF FleetInv, Referring, Tables
  <2> QED
    BY <1>3, <2>1, <2>2 DEF FleetInv, TokenUsedUp, ChoresNamed, Told
<1>4. CASE FreeToken
  <2>1. /\ NewToken(NoRef) \in EnrollToken /\ NewToken(NoRef).group = NoRef
        /\ NewToken(NoRef).used + NewToken(NoRef).left = TokenUses
    BY <1>1, FleetAssumption DEF NewToken, EnrollToken
  <2> QED
    BY <1>3, <1>4, <2>1 DEF FreeToken, HoldsOrNone
<1>5. CASE TokenExpires
  <2>1. PICK e \in etokens : etokens' = {[e EXCEPT !.expired = TRUE]}
    BY <1>5 DEF TokenExpires
  <2>2. /\ [e EXCEPT !.expired = TRUE] \in EnrollToken
        /\ [e EXCEPT !.expired = TRUE].group = e.group /\ [e EXCEPT !.expired = TRUE].used = e.used
        /\ [e EXCEPT !.expired = TRUE].left = e.left
    BY <1>1 DEF EnrollToken
  <2> QED
    BY <1>3, <1>5, <2>1, <2>2, ZenonT(30) DEF TokenExpires, FleetInv, Referring, TokenUsedUp
<1>6. CASE DeleteToken \/ ListTokens
  <2>1. etokens' \subseteq etokens
    BY <1>6 DEF DeleteToken, ListTokens, WithoutToken
  <2> QED
    BY <1>1, <1>3, <1>6, <2>1 DEF DeleteToken, ListTokens, FleetInv, Referring, TokenUsedUp
<1>7. CASE RemoveMember \/ DeleteRule
  <2>1. /\ members' \subseteq members /\ rules' \subseteq rules
        /\ UNCHANGED <<rows, fleet, etokens, chore, serial, installed, fleetPast>>
    BY <1>7 DEF RemoveMember, DeleteRule, WithoutMember, WithoutRule
  <2>2. Referring'
    BY <1>2, <2>1 DEF FleetInv, Referring, Tables
  <2>3. FleetTypes'
    BY <2>1 DEF FleetInv, FleetTypes
  <2> QED
    BY <2>1, <2>2, <2>3 DEF FleetInv, TokenUsedUp, ChoresNamed, Told
<1>8. ASSUME NEW k \in Machines, TakeOut(k)
      PROVE  FleetInv'
  <2>1. /\ fleet' = [fleet EXCEPT ![k] = NoRef]
        /\ UNCHANGED <<rows, etokens, members, rules, chore, serial, installed, fleetPast>>
    BY <1>8 DEF TakeOut
  <2>2. fleet' \in [DOMAIN fleet' -> Ref] /\ DOMAIN fleet' = DOMAIN fleet
    BY <1>1, <2>1
  <2>3. Referring'
    BY <1>1, <1>2, <2>1 DEF FleetInv, Referring, HoldsOrNone, Tables
  <2>4. FleetTypes'
    BY <2>1, <2>2 DEF FleetInv, FleetTypes
  <2> QED
    BY <2>1, <2>2, <2>3, <2>4 DEF FleetInv, TokenUsedUp, ChoresNamed, Told
<1>9. ASSUME NEW k \in Machines, ForgetMachine(k)
      PROVE  FleetInv'
  <2>1. /\ fleet' = [j \in DOMAIN fleet \ {k} |-> fleet[j]]
        /\ fleetPast' = [fleetPast EXCEPT !.forgotten = fleetPast.forgotten \cup {k}]
        /\ UNCHANGED <<rows, etokens, members, rules, chore, serial, installed>>
    BY <1>9 DEF ForgetMachine, WithoutMachine
  <2>2. /\ fleetPast' \in [raced : BOOLEAN, untold : SUBSET Machines, forgotten : SUBSET Machines]
        /\ fleetPast'.raced = fleetPast.raced /\ fleetPast'.untold = fleetPast.untold
        /\ fleetPast'.forgotten = fleetPast.forgotten \cup {k}
    BY <1>1, <2>1
  <2>3. fleet' \in [DOMAIN fleet' -> Ref] /\ DOMAIN fleet' = DOMAIN fleet \ {k}
    BY <1>1, <2>1
  <2>4. Referring'
    BY <1>2, <2>1, <2>2 DEF FleetInv, Referring, Tables
  <2>5. FleetTypes'
    BY <2>1, <2>2, <2>3 DEF FleetInv, FleetTypes
  <2> QED
    BY <2>1, <2>2, <2>3, <2>4, <2>5 DEF FleetInv, TokenUsedUp, ChoresNamed, Told
<1>10. ASSUME NEW w \in Managers, WriteRefused(w)
       PROVE  FleetInv'
  <2>1. /\ chore' = [chore EXCEPT ![w] = NoChore]
        /\ UNCHANGED <<rows, fleet, etokens, members, rules, serial, installed, fleetPast>>
    BY <1>10 DEF WriteRefused, Finish
  <2>2. NoChore \in Chore /\ NoChore.op = "none"
    BY DEF NoChore, NoRef, Ref, Chore
  <2>3. FleetTypes' /\ ChoresNamed'
    BY <2>1, <2>2 DEF FleetInv, FleetTypes, ChoresNamed
  <2>4. Referring'
    BY <1>2, <2>1 DEF FleetInv, Referring, Tables
  <2> QED
    BY <2>1, <2>3, <2>4 DEF FleetInv, TokenUsedUp, Told
<1> QED
  BY <1>4, <1>5, <1>6, <1>7, <1>8, <1>9, <1>10

\* An agent that asks: installed with a token, enrolled or refused, and told or not.
LEMMA EnrollStep ==
    ASSUME FleetInv, NEW k \in Machines,
           \/ Install(k)
           \/ \E answered \in BOOLEAN : EnrollMachine(k, answered) \/ EnrollRefused(k, answered)
    PROVE  FleetInv'
PROOF
<1>1. /\ fleet \in [DOMAIN fleet -> Ref] /\ DOMAIN fleet \subseteq Machines
      /\ fleetPast \in [raced : BOOLEAN, untold : SUBSET Machines, forgotten : SUBSET Machines]
      /\ installed \in [Machines -> {"none", "waiting", "enrolled", "refused"}]
      /\ etokens \subseteq EnrollToken
      /\ NoRef \in Ref
  BY DEF FleetInv, FleetTypes, NoRef, Ref
<1>2. ASSUME UNCHANGED rows, fleetPast'.raced = fleetPast.raced
      PROVE  \A t \in Tables : \A ref : /\ Holds(t, ref) => Holds(t, ref)'
                                        /\ HoldsOrNone(t, ref) => HoldsOrNone(t, ref)'
  BY <1>2 DEF Holds, HoldsOrNone, There, Meant
<1>3. CASE Install(k)
  <2>1. /\ installed' = [installed EXCEPT ![k] = "waiting"]
        /\ fleetPast' = [fleetPast EXCEPT !.untold = IF k \in DOMAIN fleet THEN @ \cup {k} ELSE @ \ {k}]
        /\ UNCHANGED <<rows, fleet, etokens, members, rules, chore, serial>>
    BY <1>3 DEF Install
  <2>2. /\ fleetPast' \in [raced : BOOLEAN, untold : SUBSET Machines, forgotten : SUBSET Machines]
        /\ fleetPast'.raced = fleetPast.raced /\ fleetPast'.forgotten = fleetPast.forgotten
        /\ fleetPast'.untold = IF k \in DOMAIN fleet THEN fleetPast.untold \cup {k}
                               ELSE fleetPast.untold \ {k}
    BY <1>1, <2>1
  <2>3. Referring'
    BY <1>2, <2>1, <2>2 DEF FleetInv, Referring, Tables
  <2>4. FleetTypes'
    BY <2>1, <2>2 DEF FleetInv, FleetTypes
  <2>5. Told'
    BY <1>1, <2>1, <2>2 DEF FleetInv, Told
  <2> QED
    BY <2>1, <2>3, <2>4, <2>5 DEF FleetInv, TokenUsedUp, ChoresNamed
<1>4. ASSUME NEW answered \in BOOLEAN, EnrollMachine(k, answered)
      PROVE  FleetInv'
  <2>1. PICK e \in etokens : /\ Good(e) /\ Enrolled(k, e)
                             /\ etokens' = {[e EXCEPT !.left = @ - 1, !.used = @ + 1]}
    BY <1>4 DEF EnrollMachine
  <2>2. /\ installed' = [installed EXCEPT ![k] = IF answered THEN "enrolled" ELSE "waiting"]
        /\ fleetPast' = [fleetPast EXCEPT !.untold = IF answered THEN @ ELSE @ \cup {k}]
        /\ UNCHANGED <<rows, members, rules, chore, serial>>
    BY <1>4 DEF EnrollMachine
  <2>3. /\ fleetPast' \in [raced : BOOLEAN, untold : SUBSET Machines, forgotten : SUBSET Machines]
        /\ fleetPast'.raced = fleetPast.raced /\ fleetPast'.forgotten = fleetPast.forgotten
        /\ fleetPast'.untold = IF answered THEN fleetPast.untold ELSE fleetPast.untold \cup {k}
    BY <1>1, <2>2
  <2> DEFINE used == [group |-> e.group, left |-> e.left - 1, used |-> e.used + 1,
                      expired |-> e.expired]
  <2>4. /\ e.group \in Ref /\ e.left \in Nat /\ e.used \in Nat /\ e.expired \in BOOLEAN
        /\ e.left > 0 /\ e = [group |-> e.group, left |-> e.left, used |-> e.used, expired |-> e.expired]
    BY <1>1, <2>1 DEF EnrollToken, Good
  <2>5. etokens' = {used}
    <3>1. [e EXCEPT !.left = e.left - 1] = [group |-> e.group, left |-> e.left - 1, used |-> e.used,
                                            expired |-> e.expired]
      BY <2>4
    <3>2. [[group |-> e.group, left |-> e.left - 1, used |-> e.used, expired |-> e.expired]
              EXCEPT !.used = e.used + 1] = used
      OBVIOUS
    <3>3. [e EXCEPT !.left = @ - 1, !.used = @ + 1] = used
      BY <3>1, <3>2
    <3> QED
      BY <2>1, <3>3
  <2>6. used \in EnrollToken /\ used.group = e.group /\ used.used + used.left = TokenUses
    BY <2>4 DEF EnrollToken, FleetInv, TokenUsedUp
  <2> HIDE DEF used
  <2>7. PICK group : /\ fleet' = With(fleet, k, group)
                     /\ group = e.group \/ group = NoRef \/ (k \in DOMAIN fleet /\ group = fleet[k])
    BY <2>1 DEF Enrolled
  <2>8. /\ DOMAIN fleet' = DOMAIN fleet \cup {k} /\ group \in Ref
        /\ fleet'[k] = group /\ \A j \in DOMAIN fleet \ {k} : fleet'[j] = fleet[j]
        /\ fleet' = [j \in DOMAIN fleet' |-> fleet'[j]]
    BY <1>1, <2>4, <2>7 DEF With
  <2>9. fleet' \in [DOMAIN fleet' -> Ref] /\ DOMAIN fleet' \subseteq Machines
    <3>1. \A j \in DOMAIN fleet' : fleet'[j] \in Ref
      BY <1>1, <2>8
    <3> QED
      BY <1>1, <2>8, <3>1
  <2>10. HoldsOrNone("dgroup", e.group)' /\ HoldsOrNone("dgroup", group)'
    BY <1>2, <2>2, <2>3, <2>7 DEF FleetInv, Referring, Tables, HoldsOrNone
  <2>11. Referring'
    <3>1. \A j \in DOMAIN fleet' : HoldsOrNone("dgroup", fleet[j])'
      BY <1>2, <2>2, <2>3, <2>8, <2>10 DEF FleetInv, Referring, Tables
    <3>2. \A f \in etokens' : HoldsOrNone("dgroup", f.group)'
      BY <2>5, <2>6, <2>10
    <3> QED
      BY <1>2, <2>2, <2>3, <3>1, <3>2 DEF FleetInv, Referring, Tables
  <2>12. FleetTypes'
    BY <1>1, <2>2, <2>3, <2>5, <2>6, <2>9 DEF FleetInv, FleetTypes
  <2>13. Told'
    BY <1>1, <2>2, <2>3, <2>8 DEF FleetInv, Told
  <2>14. TokenUsedUp'
    BY <2>5, <2>6 DEF TokenUsedUp
  <2> QED
    BY <2>2, <2>11, <2>12, <2>13, <2>14 DEF FleetInv, ChoresNamed
<1>5. ASSUME NEW answered \in BOOLEAN, EnrollRefused(k, answered)
      PROVE  FleetInv'
  <2>1. /\ installed[k] = "waiting"
        /\ installed' = [installed EXCEPT ![k] = IF answered THEN "refused" ELSE "waiting"]
        /\ UNCHANGED <<rows, fleet, etokens, members, rules, chore, serial, fleetPast>>
    BY <1>5 DEF EnrollRefused
  <2>2. FleetTypes'
    BY <1>1, <2>1 DEF FleetInv, FleetTypes
  <2>3. Referring'
    BY <1>2, <2>1 DEF FleetInv, Referring, Tables
  <2>4. Told'
    BY <1>1, <2>1 DEF FleetInv, Told
  <2> QED
    BY <2>1, <2>2, <2>3, <2>4 DEF FleetInv, TokenUsedUp, ChoresNamed
<1> QED
  BY <1>3, <1>4, <1>5

LEMMA FleetStep ==
    ASSUME FleetInv, [FleetNext]_fleetVars
    PROVE  FleetInv'
PROOF
<1>1. "dgroup" \in Tables /\ "ugroup" \in Tables /\ "user" \in Tables
  BY DEF Tables
<1>2. CASE CreateGroup \/ CreateUserGroup \/ CreateRow("user")
  BY <1>1, <1>2, CreateRowStep DEF CreateGroup, CreateUserGroup
<1>3. CASE DeleteGroup \/ DeleteUserGroup \/ DeleteRow("user")
  BY <1>1, <1>3, DeleteRowStep DEF DeleteGroup, DeleteUserGroup
<1>4. ASSUME NEW w \in Managers, UpdateDevice(w) \/ NewEnrollToken(w) \/ AddMember(w) \/ SetGrant(w)
      PROVE  FleetInv'
  BY <1>4, CheckStep, WriteStep DEF UpdateDevice, NewEnrollToken, AddMember, SetGrant
<1>5. CASE UNCHANGED fleetVars
  BY <1>5 DEF fleetVars, FleetInv, FleetTypes, Referring, HoldsOrNone, Holds, There, Meant, TokenUsedUp,
     ChoresNamed, Told
<1> QED
  BY <1>2, <1>3, <1>4, <1>5, TakeAwayStep, EnrollStep DEF FleetNext

LEMMA FleetInvariant == FleetSpec => []FleetInv
PROOF
<1>1. FleetInv /\ [FleetNext]_fleetVars => FleetInv'
  BY FleetStep
<1> QED
  BY <1>1, FleetBegins, PTL DEF FleetSpec

\* No reference to a row that is gone, no access inherited through an id that
\* is given again, no token used more often than it was made for, and agents
\* told the truth (devices.rs, grants.rs, enroll.rs).
THEOREM FleetAlwaysSafe == FleetSpec => []FleetSafe
PROOF
<1>1. ASSUME FleetInv
      PROVE  FleetSafe
  <2>1. NoInheritedAccess
    BY <1>1 DEF FleetInv, Referring, HoldsOrNone, Holds, NoInheritedAccess
  <2>2. \A e \in etokens : e.left \in 0 .. TokenUses
    BY <1>1, FleetAssumption DEF FleetInv, FleetTypes, EnrollToken, TokenUsedUp
  <2>3. FleetTypeOK
    BY <1>1, <2>2, FleetAssumption DEF FleetInv, FleetTypes, Referring, HoldsOrNone, Holds, FleetTypeOK
  <2>4. ToldTruth
    BY <1>1 DEF FleetInv, Told, ToldTruth
  <2> QED
    BY <1>1, <2>1, <2>3, <2>4 DEF FleetInv, FleetSafe
<1> QED
  BY <1>1, FleetInvariant, PTL

\* A new row gives nobody anything, and takes nothing: the ids references hold
\* are of rows that are there (create_group, create_user_group, create_user).
THEOREM NewRowsGiveNothing == FleetSpec => NewRowsReachNothing
PROOF
<1>1. ASSUME FleetInv
      PROVE  RowsGiveNothing
  <2> SUFFICES ASSUME NEW t \in Tables, CreateRow(t), NEW k \in Machines, NEW u \in DOMAIN rows'["user"]
               PROVE  RoleOn(u, k)' = (IF u \in DOMAIN rows["user"] THEN RoleOn(u, k) ELSE 0)
    BY DEF RowsGiveNothing
  <2>1. UNCHANGED <<fleet, members, rules>>
    BY DEF CreateRow
  <2>2. RoleOn(u, k)' = RoleOn(u, k)
    BY <2>1 DEF RoleOn, RolesOn
  <2>3. u \notin DOMAIN rows["user"] => RolesOn(u, k) = {}
    BY <1>1 DEF FleetInv, Referring, Holds, There, RolesOn
  <2> QED
    BY <2>2, <2>3 DEF RoleOn
<1>2. FleetInv => [RowsGiveNothing]_fleetVars
  BY <1>1
<1> QED
  BY <1>2, FleetInvariant, PTL DEF FleetSpec, NewRowsReachNothing, RowsGiveNothing

-----------------------------------------------------------------------------
(* Users *)

UserRow == [person : People, admin : BOOLEAN, disabled : BOOLEAN, born : Nat]

Job == [pc : {"none", "setup", "create", "update", "count", "write", "delete", "deleting", "gone",
              "own", "log"},
        by : Nat, who : Nat, target : Nat, active : BOOLEAN, admin : Choice, disabled : Choice,
        stale : BOOLEAN]

UsersPast == [raced : BOOLEAN, cut : BOOLEAN, changes : Nat, setups : Nat, starts : Nat]

UsersTypes ==
    /\ UserIds \subseteq 1 .. past.changes
    /\ users \in [UserIds -> UserRow]
    /\ \A i \in UserIds : users[i].born <= past.changes
    /\ apiTokens \subseteq [owner : Nat, for : Nat]
    /\ \A t \in apiTokens : t.owner \in UserIds /\ t.for <= past.changes
    /\ setupToken \in BOOLEAN
    /\ job \in [Askers -> Job]
    /\ \A a \in Askers : job[a].target <= past.changes /\ job[a].who <= past.changes
    /\ jobs \in 0 .. JobBound
    /\ auditLog \in Nat
    /\ past \in UsersPast

\* What a request may rely on until a row changes under it: someone else is
\* left before it takes an administrator away, and its caller is who it was.
JobTrue(j) ==
    /\ j.pc = "setup" /\ ~j.stale => UserIds = {} /\ setupToken
    /\ j.pc = "create" => UserIds # {} \/ past.raced
    /\ j.pc = "write" /\ ~j.stale /\ ~past.raced /\ (j.admin = "no" \/ j.disabled = "yes")
       => ActiveAdmins \ {j.target} # {}
    /\ j.pc = "deleting" /\ ~j.stale => j.target \in UserIds /\ j.active = (j.target \in ActiveAdmins)
    /\ j.pc = "gone" /\ ~j.stale /\ ~past.raced => ActiveAdmins \ {j.target} # {}
    /\ j.pc = "own" /\ ~j.stale => j.by \in UserIds /\ users[j.by].born = j.who

JobsTrue == \A a \in Askers : JobTrue(job[a])

TokenLeft == past.setups + (IF setupToken THEN 1 ELSE 0) <= past.starts

Logging == {a \in Askers : job[a].pc = "log"}

\* A change is in the log, or its request is about to write it there.
LogCounted ==
    /\ auditLog + Cardinality(Logging) <= past.changes
    /\ ~past.cut => auditLog + Cardinality(Logging) = past.changes

UsersInv ==
    /\ UsersTypes /\ JobsTrue /\ AdminLeftUnlessRaced /\ TokenLeft /\ TokensOnesOwn /\ LogCounted

LEMMA NoJobType ==
    /\ NoJob \in Job /\ NoJob.pc = "none" /\ NoJob.target = 0 /\ NoJob.who = 0 /\ ~NoJob.stale
    /\ Done \in Job /\ Done.pc = "log" /\ Done.target = 0 /\ Done.who = 0 /\ ~Done.stale
PROOF
<1>1. NoJob \in Job /\ NoJob.pc = "none" /\ NoJob.target = 0 /\ NoJob.who = 0 /\ ~NoJob.stale
  BY DEF NoJob, Job, Choice
<1> QED
  BY <1>1 DEF Done, Job

LEMMA UsersBegins == UsersInit => UsersInv
PROOF
<1> SUFFICES ASSUME UsersInit
             PROVE  UsersInv
  OBVIOUS
<1>1. /\ users = << >> /\ UserIds = {} /\ apiTokens = {} /\ setupToken = FALSE
      /\ job = [a \in Askers |-> NoJob] /\ jobs = 0 /\ auditLog = 0
      /\ past = [raced |-> FALSE, cut |-> FALSE, changes |-> 0, setups |-> 0, starts |-> 0]
  BY DEF UsersInit, UserIds
<1>2. Logging = {}
  BY <1>1, NoJobType DEF Logging
<1>3. LogCounted
  BY <1>1, <1>2, FS_EmptySet DEF LogCounted
<1>4. UsersTypes
  <2>1. users \in [UserIds -> UserRow]
    BY <1>1 DEF UserIds
  <2>2. past \in UsersPast /\ past.changes = 0
    BY <1>1 DEF UsersPast
  <2>3. /\ job \in [Askers -> Job]
        /\ \A a \in Askers : job[a].target <= past.changes /\ job[a].who <= past.changes
    BY <1>1, <2>2, NoJobType
  <2>4. jobs \in 0 .. JobBound /\ auditLog \in Nat
    BY <1>1, UsersAssumption
  <2> QED
    BY <1>1, <2>1, <2>2, <2>3, <2>4 DEF UsersTypes
<1>5. JobsTrue
  BY <1>1, NoJobType DEF JobsTrue, JobTrue
<1> QED
  BY <1>1, <1>3, <1>4, <1>5 DEF UsersInv, AdminLeftUnlessRaced, TokenLeft, TokensOnesOwn

LEMMA AdminsFinite ==
    ASSUME UsersInv
    PROVE  IsFiniteSet(ActiveAdmins) /\ Cardinality(ActiveAdmins) \in Nat
PROOF
<1>1. past.changes \in Nat /\ ActiveAdmins \subseteq 1 .. past.changes
  BY DEF UsersInv, UsersTypes, UsersPast, ActiveAdmins
<1>2. PICK n \in Nat : n = past.changes
  BY <1>1
<1>3. 1 \in Int /\ n \in Int
  BY <1>2
<1>4. IsFiniteSet(1 .. n)
  BY <1>3, FS_Interval
<1>5. IsFiniteSet(ActiveAdmins)
  BY <1>1, <1>2, <1>4, FS_Subset
<1> QED
  BY <1>5, FS_CardinalityType

\* LogCounted more than one, someone else than any one of them is left.
LEMMA SomeoneElse ==
    ASSUME UsersInv, ~ (Cardinality(ActiveAdmins) <= 1), NEW t
    PROVE  ActiveAdmins \ {t} # {}
PROOF
<1>1. SUFFICES ASSUME ActiveAdmins \subseteq {t}
               PROVE  FALSE
  OBVIOUS
<1>2. IsFiniteSet({t}) /\ Cardinality({t}) = 1
  BY FS_Singleton
<1>3. Cardinality(ActiveAdmins) <= 1
  BY <1>1, <1>2, FS_Subset
<1> QED
  BY <1>3

\* The requests about to write to the log, when one request moves.
LEMMA LoggingMoves ==
    ASSUME UsersInv, NEW a \in Askers, \A b \in Askers \ {a} : job'[b].pc = job[b].pc
    PROVE  /\ Cardinality(Logging) \in Nat
           /\ (job'[a].pc = "log") = (job[a].pc = "log")
              => Cardinality(Logging)' = Cardinality(Logging)
           /\ job[a].pc # "log" /\ job'[a].pc = "log"
              => Cardinality(Logging)' = Cardinality(Logging) + 1
           /\ job[a].pc = "log" /\ job'[a].pc # "log"
              => Cardinality(Logging)' = Cardinality(Logging) - 1
PROOF
<1>1. IsFiniteSet(Logging)
  BY UsersAssumption, FS_Subset DEF Logging
<1>2. Cardinality(Logging) \in Nat
  BY <1>1, FS_CardinalityType
<1>3. ASSUME (job'[a].pc = "log") = (job[a].pc = "log")
      PROVE  Cardinality(Logging)' = Cardinality(Logging)
  <2>1. Logging' = Logging
    BY <1>3 DEF Logging
  <2> QED
    BY <2>1
<1>4. ASSUME job[a].pc # "log", job'[a].pc = "log"
      PROVE  Cardinality(Logging)' = Cardinality(Logging) + 1
  <2>1. Logging' = Logging \cup {a} /\ a \notin Logging
    BY <1>4 DEF Logging
  <2> QED
    BY <1>1, <2>1, FS_AddElement
<1>5. ASSUME job[a].pc = "log", job'[a].pc # "log"
      PROVE  Cardinality(Logging)' = Cardinality(Logging) - 1
  <2>1. Logging' = Logging \ {a} /\ a \in Logging
    BY <1>5 DEF Logging
  <2> QED
    BY <1>1, <2>1, FS_RemoveElement
<1> QED
  BY <1>2, <1>3, <1>4, <1>5

\* One request moves and no row of `users` changes.
LEMMA OneMoves ==
    ASSUME UsersInv, NEW a \in Askers, NEW next \in Job,
           job' = [job EXCEPT ![a] = next], UNCHANGED users,
           past' \in UsersPast, past.raced => past'.raced, past'.changes >= past.changes,
           setupToken => setupToken',
           next.target <= past.changes, next.who <= past.changes,
           JobTrue(next)'
    PROVE  /\ job' \in [Askers -> Job] /\ JobsTrue'
           /\ \A b \in Askers : job'[b].target <= past'.changes /\ job'[b].who <= past'.changes
           /\ job'[a] = next /\ \A b \in Askers \ {a} : job'[b] = job[b]
           /\ UserIds' = UserIds /\ ActiveAdmins' = ActiveAdmins
           /\ \A i \in UserIds : users[i].born <= past'.changes
           /\ UserIds \subseteq 1 .. past'.changes
           /\ \A t \in apiTokens : t.for <= past'.changes
PROOF
<1>1. /\ job \in [Askers -> Job] /\ past.changes \in Nat /\ past'.changes \in Nat
      /\ past.raced \in BOOLEAN /\ past'.raced \in BOOLEAN
      /\ \A b \in Askers : job[b].target <= past.changes /\ job[b].who <= past.changes
      /\ \A b \in Askers : job[b].target \in Nat /\ job[b].who \in Nat
      /\ next.target \in Nat /\ next.who \in Nat
  BY DEF UsersInv, UsersTypes, UsersPast, Job
<1>2. job' \in [Askers -> Job] /\ job'[a] = next /\ \A b \in Askers \ {a} : job'[b] = job[b]
  BY <1>1
<1>3. UserIds' = UserIds /\ ActiveAdmins' = ActiveAdmins
  BY DEF UserIds, ActiveAdmins
<1>4. \A b \in Askers : JobTrue(job[b]) => JobTrue(job[b])' \/ b = a
  BY <1>1, <1>2, <1>3 DEF JobTrue
<1>5. \A b \in Askers : JobTrue(job[b])'
  <2> SUFFICES ASSUME NEW b \in Askers
               PROVE  JobTrue(job[b])'
    OBVIOUS
  <2>1. CASE b = a
    BY <1>2, <2>1 DEF JobTrue
  <2>2. CASE b # a
    BY <1>4, <2>2 DEF UsersInv, JobsTrue
  <2> QED
    BY <2>1, <2>2
<1>6. \A b \in Askers : job'[b].target <= past'.changes /\ job'[b].who <= past'.changes
  BY <1>1, <1>2
<1>7. \A i \in UserIds : users[i].born <= past'.changes
  BY <1>1 DEF UsersInv, UsersTypes, UserRow
<1>8. UserIds \subseteq 1 .. past'.changes
  BY <1>1 DEF UsersInv, UsersTypes
<1>9. \A t \in apiTokens : t.for <= past'.changes
  BY <1>1 DEF UsersInv, UsersTypes
<1> QED
  BY <1>2, <1>3, <1>5, <1>6, <1>7, <1>8, <1>9 DEF JobsTrue

\* A row of `users` changes: who has read before knows that it may not be true.
LEMMA AllMove ==
    ASSUME UsersInv, NEW a \in Askers, NEW next \in Job,
           job' = [b \in Askers |-> IF b = a THEN next
                                    ELSE [job[b] EXCEPT !.stale = b \in HasRead]],
           past' \in UsersPast, past.raced => past'.raced, past'.changes >= past.changes,
           UserIds # {} => UserIds' # {} \/ past'.raced,
           next.target <= past'.changes, next.who <= past'.changes,
           JobTrue(next)'
    PROVE  /\ job' \in [Askers -> Job] /\ JobsTrue'
           /\ \A b \in Askers : job'[b].target <= past'.changes /\ job'[b].who <= past'.changes
           /\ job'[a] = next /\ \A b \in Askers \ {a} : job'[b].pc = job[b].pc
PROOF
<1>1. /\ job \in [Askers -> Job] /\ past.changes \in Nat /\ past'.changes \in Nat
      /\ past.raced \in BOOLEAN /\ past'.raced \in BOOLEAN
      /\ \A b \in Askers : job[b].target <= past.changes /\ job[b].who <= past.changes
      /\ \A b \in Askers : job[b].target \in Nat /\ job[b].who \in Nat
  BY DEF UsersInv, UsersTypes, UsersPast, Job
<1>2. ASSUME NEW b \in Askers \ {a}
      PROVE  /\ job'[b] \in Job /\ job'[b].pc = job[b].pc
             /\ job'[b].target = job[b].target /\ job'[b].who = job[b].who
             /\ job'[b].stale = (b \in HasRead)
  <2>1. job[b] \in Job /\ job'[b] = [job[b] EXCEPT !.stale = b \in HasRead]
    BY <1>1
  <2>2. (b \in HasRead) \in BOOLEAN
    OBVIOUS
  <2> QED
    BY <2>1, <2>2 DEF Job
<1>3. job'[a] = next
  OBVIOUS
<1>4. job' \in [Askers -> Job]
  <2>1. \A b \in Askers : job'[b] \in Job
    BY <1>2, <1>3
  <2>2. job' = [b \in Askers |-> job'[b]]
    OBVIOUS
  <2> QED
    BY <2>1, <2>2
<1>5. JobsTrue'
  <2> SUFFICES ASSUME NEW b \in Askers
               PROVE  JobTrue(job[b])'
    BY DEF JobsTrue
  <2>1. CASE b = a
    BY <1>3, <2>1 DEF JobTrue
  <2>2. CASE b # a
    <3>1. job'[b].pc = job[b].pc /\ (job'[b].pc \in {"setup", "write", "deleting", "gone", "own"}
                                       => job'[b].stale)
      <4>1. /\ job'[b].pc = job[b].pc /\ job'[b].stale = (b \in HasRead)
        BY <1>2, <2>2
      <4>2. job[b].pc \in {"setup", "write", "deleting", "gone", "own"} => b \in HasRead
        BY DEF HasRead
      <4> QED
        BY <4>1, <4>2
    <3>2. job[b].pc = "create" => UserIds' # {} \/ past'.raced
      BY <1>1 DEF UsersInv, JobsTrue, JobTrue
    <3> QED
      BY <3>1, <3>2 DEF JobTrue
  <2> QED
    BY <2>1, <2>2
<1>6. \A b \in Askers : job'[b].target <= past'.changes /\ job'[b].who <= past'.changes
  BY <1>1, <1>2, <1>3
<1> QED
  BY <1>2, <1>3, <1>4, <1>5, <1>6

\* A step of one request that changes no table.
LEMMA LookStep ==
    ASSUME UsersInv, NEW a \in Askers, NEW next \in Job,
           job' = [job EXCEPT ![a] = next],
           UNCHANGED <<users, apiTokens, setupToken, auditLog, past>>, jobs' \in 0 .. JobBound,
           next.target <= past.changes, next.who <= past.changes, JobTrue(next),
           next.pc # "log", job[a].pc # "log"
    PROVE  UsersInv'
PROOF
<1>1. /\ past' \in UsersPast /\ past.changes \in Nat /\ past'.changes = past.changes
      /\ past'.changes >= past.changes /\ JobTrue(next)'
  BY DEF UsersInv, UsersTypes, UsersPast, JobTrue, UserIds, ActiveAdmins
<1>2. /\ job' \in [Askers -> Job] /\ JobsTrue'
      /\ \A b \in Askers : job'[b].target <= past'.changes /\ job'[b].who <= past'.changes
      /\ job'[a] = next /\ \A b \in Askers \ {a} : job'[b] = job[b]
      /\ UserIds' = UserIds /\ ActiveAdmins' = ActiveAdmins
  BY <1>1, OneMoves
<1>3. UsersTypes'
  BY <1>1, <1>2 DEF UsersInv, UsersTypes
<1>4. Cardinality(Logging)' = Cardinality(Logging)
  BY <1>2, LoggingMoves
<1>5. LogCounted'
  BY <1>4 DEF UsersInv, LogCounted
<1> QED
  BY <1>2, <1>3, <1>5 DEF UsersInv, AdminLeftUnlessRaced, TokenLeft, TokensOnesOwn

LEMMA EndsStep ==
    ASSUME UsersInv, NEW a \in Askers, JobEnds(a), job[a].pc # "log",
           UNCHANGED <<users, apiTokens, setupToken, jobs, auditLog, past>>
    PROVE  UsersInv'
PROOF
<1>1. JobTrue(NoJob)
  BY NoJobType DEF JobTrue
<1>0. past.changes \in Nat /\ 0 <= past.changes
  BY DEF UsersInv, UsersTypes, UsersPast
<1>2. job' = [job EXCEPT ![a] = NoJob] /\ jobs' \in 0 .. JobBound
  BY DEF JobEnds, UsersInv, UsersTypes
<1> QED
  BY <1>0, <1>1, <1>2, NoJobType, LookStep

LEMMA AskStep ==
    ASSUME UsersInv, NEW a \in Askers,
           SetupRead(a) \/ \E i \in UserIds, pc \in {"create", "update", "delete", "own"} : JobAsked(a, i, pc)
    PROVE  UsersInv'
PROOF
<1>1. job[a].pc = "none" /\ past.changes \in Nat /\ 0 <= past.changes
  <2>1. job[a].pc = "none"
    BY DEF SetupRead, JobAsked, Busy
  <2> QED
    BY <2>1 DEF UsersInv, UsersTypes, UsersPast
<1>2. CASE SetupRead(a)
  <2>1. PICK next : next = [NoJob EXCEPT !.pc = "setup"]
    OBVIOUS
  <2>2. next \in Job /\ next.pc = "setup" /\ next.target = 0 /\ next.who = 0
    BY <2>1, NoJobType DEF Job
  <2>3. JobTrue(next) /\ job' = [job EXCEPT ![a] = next] /\ jobs' \in 0 .. JobBound
    BY <1>2, <2>1, <2>2 DEF JobTrue, SetupRead, UsersInv, UsersTypes
  <2>4. UNCHANGED <<users, apiTokens, setupToken, auditLog, past>>
    BY <1>2 DEF SetupRead
  <2> QED
    BY <1>1, <2>2, <2>3, <2>4, LookStep
<1>3. ASSUME NEW i \in UserIds, NEW pc \in {"create", "update", "delete", "own"}, JobAsked(a, i, pc)
      PROVE  UsersInv'
  <2>1. PICK t \in (IF pc \in {"create", "own"} THEN {0} ELSE UserIds) :
           job' = [job EXCEPT ![a] =
                    IF pc = "own"
                    THEN [NoJob EXCEPT !.pc = pc, !.by = i, !.who = users[i].born]
                    ELSE [NoJob EXCEPT !.pc = pc, !.target = t]]
    BY <1>3 DEF JobAsked
  <2>2. /\ i \in Nat /\ users[i].born \in Nat /\ users[i].born <= past.changes
        /\ t \in Nat /\ t <= past.changes
    BY <1>1, <2>1 DEF UsersInv, UsersTypes, UserRow
  <2>3. PICK next : next = IF pc = "own"
                           THEN [NoJob EXCEPT !.pc = pc, !.by = i, !.who = users[i].born]
                           ELSE [NoJob EXCEPT !.pc = pc, !.target = t]
    OBVIOUS
  <2>4. next \in Job /\ next.pc = pc /\ next.target <= past.changes /\ next.who <= past.changes
    <3>1. CASE pc = "own"
      BY <1>1, <2>2, <2>3, <3>1, NoJobType DEF Job
    <3>2. CASE pc # "own"
      <4>1. next = [NoJob EXCEPT !.pc = pc, !.target = t]
        BY <2>3, <3>2
      <4>2. next \in Job /\ next.pc = pc /\ next.target = t /\ next.who = NoJob.who
        BY <2>2, <4>1, NoJobType DEF Job
      <4> QED
        BY <1>1, <2>2, <4>2, NoJobType
    <3> QED
      BY <3>1, <3>2
  <2>5. pc = "own" => next.by = i /\ next.who = users[i].born
    BY <2>2, <2>3, NoJobType DEF Job
  <2>6. JobTrue(next)
    BY <2>4, <2>5 DEF JobTrue
  <2>7. /\ jobs' \in 0 .. JobBound /\ job' = [job EXCEPT ![a] = next]
        /\ UNCHANGED <<users, apiTokens, setupToken, auditLog, past>>
    <3>1. jobs \in 0 .. JobBound /\ jobs < JobBound /\ jobs' = jobs + 1
      BY <1>3 DEF JobAsked, UsersInv, UsersTypes
    <3>2. jobs' \in 0 .. JobBound
      BY <3>1, UsersAssumption
    <3>3. UNCHANGED <<users, apiTokens, setupToken, auditLog, past>>
      BY <1>3 DEF JobAsked
    <3> QED
      BY <2>1, <2>3, <3>2, <3>3
  <2> QED
    BY <1>1, <2>4, <2>6, <2>7, LookStep
<1> QED
  BY <1>2, <1>3

\* update_user and delete_user look before they write.
LEMMA ReadStep ==
    ASSUME UsersInv, NEW a \in Askers,
           UpdateRead(a) \/ UpdateCount(a) \/ DeleteRead(a) \/ DeleteCount(a)
    PROVE  UsersInv'
PROOF
<1>1. /\ past.changes \in Nat /\ job[a] \in Job /\ job[a].pc # "log" /\ past.raced \in BOOLEAN
      /\ job[a].target <= past.changes /\ job[a].who <= past.changes
      /\ JobTrue(job[a]) /\ jobs \in 0 .. JobBound
      /\ UNCHANGED <<users, apiTokens, setupToken, jobs, auditLog, past>>
  BY DEF UpdateRead, UpdateCount, DeleteRead, DeleteCount, UsersInv, UsersTypes, UsersPast, JobsTrue
<1>2. ASSUME NEW next \in Job, job' = [job EXCEPT ![a] = next], JobTrue(next), next.pc # "log",
             next.target = job[a].target, next.who = job[a].who
      PROVE  UsersInv'
  BY <1>1, <1>2, LookStep
<1>3. CASE JobEnds(a)
  BY <1>1, <1>3, EndsStep
<1>4. CASE UpdateRead(a)
  <2>1. PICK adm \in Choice, dis \in Choice :
           \/ JobEnds(a)
           \/ /\ job[a].target \in UserIds
              /\ LET row == users[job[a].target]
                     losing == row.admin /\ ~row.disabled /\ (adm = "no" \/ dis = "yes")
                 IN job' = [job EXCEPT ![a] =
                       [job[a] EXCEPT !.pc = IF losing THEN "count" ELSE "write",
                                      !.admin = adm, !.disabled = dis, !.stale = FALSE]]
    BY <1>4 DEF UpdateRead
  <2>2. CASE ~JobEnds(a)
    <3> DEFINE row == users[job[a].target]
               losing == row.admin /\ ~row.disabled /\ (adm = "no" \/ dis = "yes")
    <3>1. PICK pc \in {"count", "write"} : pc = IF losing THEN "count" ELSE "write"
      OBVIOUS
    <3>2. PICK next : next = [job[a] EXCEPT !.pc = pc, !.admin = adm, !.disabled = dis, !.stale = FALSE]
      OBVIOUS
    <3>3. job' = [job EXCEPT ![a] = next] /\ job[a].target \in UserIds
      BY <2>1, <2>2, <3>1, <3>2
    <3>4. /\ next \in Job /\ next.pc = pc /\ next.target = job[a].target /\ next.who = job[a].who
          /\ next.admin = adm /\ next.disabled = dis
      BY <1>1, <3>1, <3>2 DEF Job
    <3>5. JobTrue(next)
      <4>1. SUFFICES ASSUME pc = "write", ~past.raced, adm = "no" \/ dis = "yes"
                     PROVE  ActiveAdmins \ {job[a].target} # {}
        BY <3>1, <3>4 DEF JobTrue
      <4>2. ~ (row.admin /\ ~row.disabled)
        BY <3>1, <4>1
      <4>3. job[a].target \notin ActiveAdmins
        BY <4>2 DEF ActiveAdmins
      <4>4. ActiveAdmins # {}
        BY <3>3, <4>1 DEF UsersInv, AdminLeftUnlessRaced
      <4> QED
        BY <4>3, <4>4
    <3> QED
      BY <1>2, <3>1, <3>3, <3>4, <3>5
  <2> QED
    BY <1>3, <2>2
<1>5. CASE UpdateCount(a)
  <2>1. CASE Cardinality(ActiveAdmins) <= 1
    BY <1>3, <1>5, <2>1 DEF UpdateCount
  <2>2. CASE ~ (Cardinality(ActiveAdmins) <= 1)
    <3>1. PICK next : next = [job[a] EXCEPT !.pc = "write"]
      OBVIOUS
    <3>2. job' = [job EXCEPT ![a] = next]
      BY <1>5, <2>2, <3>1 DEF UpdateCount, JobGoes
    <3>3. /\ next \in Job /\ next.pc = "write" /\ next.target = job[a].target
          /\ next.who = job[a].who
      BY <1>1, <3>1 DEF Job
    <3>4. JobTrue(next)
      BY <2>2, <3>3, SomeoneElse DEF JobTrue
    <3> QED
      BY <1>2, <3>2, <3>3, <3>4
  <2> QED
    BY <2>1, <2>2
<1>6. CASE DeleteRead(a)
  <2>1. CASE job[a].target \notin UserIds
    BY <1>3, <1>6, <2>1 DEF DeleteRead
  <2>2. CASE job[a].target \in UserIds
    <3>1. PICK next : next = [job[a] EXCEPT !.pc = "deleting", !.stale = FALSE,
                                            !.active = job[a].target \in ActiveAdmins]
      OBVIOUS
    <3>2. job' = [job EXCEPT ![a] = next]
      BY <1>6, <2>2, <3>1 DEF DeleteRead
    <3>3. (job[a].target \in ActiveAdmins) \in BOOLEAN
      OBVIOUS
    <3>4. /\ next \in Job /\ next.pc = "deleting" /\ next.target = job[a].target
          /\ next.who = job[a].who /\ next.active = (job[a].target \in ActiveAdmins)
      BY <1>1, <3>1, <3>3 DEF Job
    <3>5. JobTrue(next)
      BY <2>2, <3>4 DEF JobTrue
    <3> QED
      BY <1>2, <3>2, <3>4, <3>5
  <2> QED
    BY <2>1, <2>2
<1>7. CASE DeleteCount(a)
  <2>1. CASE job[a].active /\ Cardinality(ActiveAdmins) <= 1
    BY <1>3, <1>7, <2>1 DEF DeleteCount
  <2>2. CASE ~ (job[a].active /\ Cardinality(ActiveAdmins) <= 1)
    <3>1. PICK next : next = [job[a] EXCEPT !.pc = "gone"]
      OBVIOUS
    <3>2. job' = [job EXCEPT ![a] = next] /\ job[a].pc = "deleting"
      BY <1>7, <2>2, <3>1 DEF DeleteCount, JobGoes
    <3>3. /\ next \in Job /\ next.pc = "gone" /\ next.target = job[a].target
          /\ next.who = job[a].who /\ next.stale = job[a].stale
      BY <1>1, <3>1 DEF Job
    <3>4. ASSUME ~job[a].stale, ~past.raced
          PROVE  ActiveAdmins \ {job[a].target} # {}
      <4>1. job[a].target \in UserIds /\ job[a].active = (job[a].target \in ActiveAdmins)
        BY <1>1, <3>2, <3>4 DEF JobTrue
      <4>2. CASE job[a].active
        BY <2>2, <4>2, SomeoneElse
      <4>3. CASE ~job[a].active
        BY <3>4, <4>1, <4>3 DEF UsersInv, AdminLeftUnlessRaced
      <4> QED
        BY <4>2, <4>3
    <3>5. JobTrue(next)
      BY <3>3, <3>4 DEF JobTrue
    <3> QED
      BY <1>2, <3>2, <3>3, <3>5
  <2> QED
    BY <2>1, <2>2
<1> QED
  BY <1>4, <1>5, <1>6, <1>7

\* The log and the changes, when a request makes its change ...
LEMMA ChangeCounted ==
    ASSUME UsersInv, NEW a \in Askers, job[a].pc # "log", job'[a].pc = "log",
           \A b \in Askers \ {a} : job'[b].pc = job[b].pc,
           past'.changes = past.changes + 1, past'.cut = past.cut, auditLog' = auditLog
    PROVE  LogCounted'
PROOF
<1>1. Cardinality(Logging) \in Nat /\ Cardinality(Logging)' = Cardinality(Logging) + 1
  BY LoggingMoves
<1>2. auditLog \in Nat /\ past.changes \in Nat
  BY DEF UsersInv, UsersTypes, UsersPast
<1> QED
  BY <1>1, <1>2 DEF UsersInv, LogCounted

\* ... and when it makes none.
LEMMA NothingCounted ==
    ASSUME UsersInv, NEW a \in Askers, job[a].pc # "log", job'[a].pc # "log",
           \A b \in Askers \ {a} : job'[b].pc = job[b].pc,
           past'.changes = past.changes, past'.cut = past.cut, auditLog' = auditLog
    PROVE  LogCounted'
PROOF
<1>1. Cardinality(Logging)' = Cardinality(Logging)
  BY LoggingMoves
<1> QED
  BY <1>1 DEF UsersInv, LogCounted

\* A new user: a new id, and every other row as it was.
LEMMA InsertedRow ==
    ASSUME UsersInv, NEW p \in People, NEW adm \in BOOLEAN, users' = Inserted(p, adm),
           past'.changes = past.changes + 1
    PROVE  /\ UserIds' # {} /\ UserIds \subseteq UserIds' /\ UserIds' \subseteq 1 .. past'.changes
           /\ users' \in [UserIds' -> UserRow]
           /\ \A i \in UserIds : users'[i] = users[i]
           /\ \A i \in UserIds' : users'[i].born <= past'.changes
           /\ ActiveAdmins \subseteq ActiveAdmins'
           /\ adm => ActiveAdmins' # {}
PROOF
<1>1. /\ past.changes \in Nat /\ UserIds \subseteq 1 .. past.changes
      /\ users \in [UserIds -> UserRow] /\ \A i \in UserIds : users[i].born <= past.changes
  BY DEF UsersInv, UsersTypes, UsersPast
<1>2. FreshId \in 1 .. past.changes + 1 /\ FreshId \notin UserIds
  BY <1>1, NextId DEF FreshId
<1> DEFINE new == [person |-> p, admin |-> adm, disabled |-> FALSE, born |-> past.changes]
<1>3. new \in UserRow /\ new.admin = adm /\ new.disabled = FALSE /\ new.born = past.changes
  BY <1>1 DEF UserRow
<1>4. users' = [i \in UserIds \cup {FreshId} |-> IF i = FreshId THEN new ELSE users[i]]
  BY DEF Inserted
<1> HIDE DEF new
<1>5. /\ UserIds' = UserIds \cup {FreshId} /\ users'[FreshId] = new
      /\ \A i \in UserIds : users'[i] = users[i]
  <2>1. DOMAIN users' = UserIds \cup {FreshId}
    BY <1>4
  <2> QED
    BY <1>2, <1>4, <2>1 DEF UserIds
<1>6. users' \in [UserIds' -> UserRow]
  <2>1. \A i \in UserIds' : users'[i] \in UserRow
    BY <1>1, <1>3, <1>5
  <2>2. users' = [i \in UserIds' |-> users'[i]]
    BY <1>4, <1>5
  <2> QED
    BY <2>1, <2>2
<1>7. ActiveAdmins \subseteq ActiveAdmins'
  BY <1>5 DEF ActiveAdmins
<1>8. adm => FreshId \in ActiveAdmins'
  BY <1>3, <1>5 DEF ActiveAdmins
<1>9. UserIds' \subseteq 1 .. past'.changes
  BY <1>1, <1>2, <1>5
<1>10. \A i \in UserIds' : users'[i].born <= past'.changes
  BY <1>1, <1>3, <1>5 DEF UserRow
<1> QED
  BY <1>5, <1>6, <1>7, <1>8, <1>9, <1>10

LEMMA ChangedPast ==
    ASSUME UsersInv, NEW raced \in BOOLEAN, Changed(raced)
    PROVE  /\ past' \in UsersPast /\ past'.raced = (past.raced \/ raced)
           /\ past'.changes = past.changes + 1
           /\ past'.cut = past.cut /\ past'.setups = past.setups /\ past'.starts = past.starts
PROOF
<1>1. past \in UsersPast /\ past.changes \in Nat /\ past.raced \in BOOLEAN
  BY DEF UsersInv, UsersTypes, UsersPast
<1>2. PICK r \in BOOLEAN, n \in Nat : r = (past.raced \/ raced) /\ n = past.changes + 1
  BY <1>1
<1>3. past' = [past EXCEPT !.raced = r, !.changes = n]
  BY <1>2 DEF Changed
<1>4. /\ past' \in UsersPast /\ past'.raced = r /\ past'.changes = n
      /\ past'.cut = past.cut /\ past'.setups = past.setups /\ past'.starts = past.starts
  BY <1>1, <1>3 DEF UsersPast
<1> QED
  BY <1>2, <1>4

\* The setup, and create_user.
LEMMA InsertStep ==
    ASSUME UsersInv, NEW a \in Askers, SetupWrite(a) \/ CreateUser(a)
    PROVE  UsersInv'
PROOF
<1>1. /\ past \in UsersPast /\ past.changes \in Nat /\ past.setups \in Nat /\ past.starts \in Nat
      /\ past.raced \in BOOLEAN /\ setupToken \in BOOLEAN /\ job[a].pc # "log"
      /\ JobTrue(job[a])
  BY DEF UsersInv, UsersTypes, UsersPast, JobsTrue, SetupWrite, CreateUser
<1>2. ASSUME NEW p \in People, NEW adm \in BOOLEAN, UsersWritten(a, Inserted(p, adm), Done),
             past' \in UsersPast, past'.changes = past.changes + 1, past'.cut = past.cut,
             past'.raced = past.raced,
             past'.setups + (IF setupToken' THEN 1 ELSE 0) <= past'.starts,
             setupToken' \in BOOLEAN, UNCHANGED <<apiTokens, jobs, auditLog>>,
             adm \/ UserIds # {} \/ past.raced
      PROVE  UsersInv'
  <2>1. /\ UserIds' # {} /\ UserIds \subseteq UserIds' /\ UserIds' \subseteq 1 .. past'.changes
        /\ users' \in [UserIds' -> UserRow]
        /\ \A i \in UserIds : users'[i] = users[i]
        /\ \A i \in UserIds' : users'[i].born <= past'.changes
        /\ ActiveAdmins \subseteq ActiveAdmins'
        /\ adm => ActiveAdmins' # {}
    BY <1>2, InsertedRow DEF UsersWritten
  <2>2. JobTrue(Done)' /\ past'.changes >= past.changes /\ 0 <= past'.changes
    BY <1>1, <1>2, NoJobType DEF JobTrue
  <2>3. job' = [b \in Askers |-> IF b = a THEN Done ELSE [job[b] EXCEPT !.stale = b \in HasRead]]
    BY <1>2 DEF UsersWritten
  <2>4. /\ job' \in [Askers -> Job] /\ JobsTrue'
        /\ \A b \in Askers : job'[b].target <= past'.changes /\ job'[b].who <= past'.changes
        /\ job'[a] = Done /\ \A b \in Askers \ {a} : job'[b].pc = job[b].pc
    BY <1>2, <2>1, <2>2, <2>3, NoJobType, AllMove
  <2>5. LogCounted'
    BY <1>1, <1>2, <2>4, NoJobType, ChangeCounted
  <2>6. \A t \in apiTokens' : t.owner \in UserIds' /\ t.for <= past'.changes
    BY <1>1, <1>2, <2>1 DEF UsersInv, UsersTypes
  <2>7. UsersTypes'
    BY <1>2, <2>1, <2>4, <2>6 DEF UsersInv, UsersTypes
  <2>8. AdminLeftUnlessRaced'
    BY <1>2, <2>1 DEF UsersInv, AdminLeftUnlessRaced
  <2>9. TokensOnesOwn'
    BY <1>2, <2>1 DEF UsersInv, UsersTypes, TokensOnesOwn
  <2> QED
    BY <1>2, <2>4, <2>5, <2>7, <2>8, <2>9 DEF UsersInv, TokenLeft
<1>3. CASE SetupWrite(a)
  <2>1. /\ past' = [past EXCEPT !.setups = @ + 1, !.changes = @ + 1] /\ setupToken' = FALSE
        /\ job[a].pc = "setup" /\ ~job[a].stale
        /\ UNCHANGED <<apiTokens, jobs, auditLog>>
    BY <1>3 DEF SetupWrite
  <2>2. /\ past' \in UsersPast /\ past'.changes = past.changes + 1 /\ past'.cut = past.cut
        /\ past'.raced = past.raced /\ past'.setups = past.setups + 1 /\ past'.starts = past.starts
    <3>1. PICK s \in Nat, n \in Nat : s = past.setups + 1 /\ n = past.changes + 1
      BY <1>1
    <3>2. past' = [past EXCEPT !.setups = s, !.changes = n]
      BY <2>1, <3>1
    <3>3. /\ past' \in UsersPast /\ past'.changes = n /\ past'.cut = past.cut
          /\ past'.raced = past.raced /\ past'.setups = s /\ past'.starts = past.starts
      BY <1>1, <3>2 DEF UsersPast
    <3> QED
      BY <3>1, <3>3
  <2>3. setupToken /\ past.setups + 1 <= past.starts
    BY <1>1, <2>1 DEF JobTrue, UsersInv, TokenLeft
  <2>4. past'.setups + (IF setupToken' THEN 1 ELSE 0) <= past'.starts
    BY <1>1, <2>1, <2>2, <2>3
  <2> QED
    BY <1>2, <1>3, <2>1, <2>2, <2>4 DEF SetupWrite
<1>4. CASE CreateUser(a)
  <2>1. PICK p \in People, adm \in BOOLEAN :
          \/ UsersWritten(a, Inserted(p, adm), Done) /\ Changed(FALSE)
          \/ JobEnds(a) /\ UNCHANGED <<users, past>>
    BY <1>4 DEF CreateUser
  <2>2. job[a].pc = "create" /\ UNCHANGED <<apiTokens, setupToken, jobs, auditLog>>
    BY <1>4 DEF CreateUser
  <2>3. CASE JobEnds(a) /\ UNCHANGED <<users, past>>
    BY <1>1, <2>2, <2>3, EndsStep
  <2>4. CASE UsersWritten(a, Inserted(p, adm), Done) /\ Changed(FALSE)
    <3>1. /\ past' \in UsersPast /\ past'.changes = past.changes + 1 /\ past'.cut = past.cut
          /\ past'.raced = past.raced /\ past'.setups = past.setups /\ past'.starts = past.starts
      BY <1>1, <2>4, ChangedPast
    <3>2. UserIds # {} \/ past.raced
      BY <1>1, <2>2 DEF JobTrue
    <3>3. past'.setups + (IF setupToken' THEN 1 ELSE 0) <= past'.starts
      BY <2>2, <3>1 DEF UsersInv, TokenLeft
    <3> QED
      BY <1>1, <1>2, <2>2, <2>4, <3>1, <3>2, <3>3
  <2> QED
    BY <2>1, <2>3, <2>4
<1> QED
  BY <1>3, <1>4

\* update_user writes: nobody but its target gains or loses anything.
LEMMA UpdateStep ==
    ASSUME UsersInv, NEW a \in Askers, UpdateWrite(a)
    PROVE  UsersInv'
PROOF
<1> DEFINE i == job[a].target
           both == job[a].admin # "keep" /\ job[a].disabled # "keep"
           field(row) == IF job[a].admin # "keep"
                         THEN [row EXCEPT !.admin = Chosen(job[a].admin, @)]
                         ELSE [row EXCEPT !.disabled = Chosen(job[a].disabled, @)]
<1>1. /\ past \in UsersPast /\ past.changes \in Nat /\ past.raced \in BOOLEAN
      /\ job[a] \in Job /\ JobTrue(job[a]) /\ job[a].stale \in BOOLEAN
      /\ job[a].target <= past.changes /\ job[a].who <= past.changes
      /\ i \in Nat /\ job[a].who \in Nat /\ job[a].admin \in Choice /\ job[a].disabled \in Choice
      /\ UserIds \subseteq 1 .. past.changes
      /\ users \in [UserIds -> UserRow] /\ \A j \in UserIds : users[j].born <= past.changes
  BY DEF UsersInv, UsersTypes, UsersPast, JobsTrue, Job
<1>2. /\ job[a].pc = "write"
      /\ users' = [j \in UserIds |-> IF j = i THEN field(users[j]) ELSE users[j]]
      /\ UNCHANGED <<apiTokens, setupToken, jobs, auditLog>>
  BY DEF UpdateWrite, UsersWritten
<1>3. PICK n \in Nat : n = IF ~both /\ i \in UserIds THEN past.changes + 1 ELSE past.changes
  BY <1>1
<1>4. PICK raced \in BOOLEAN : raced = (past.raced \/ job[a].stale)
  OBVIOUS
<1>5. /\ past' \in UsersPast /\ past'.raced = raced /\ past'.changes = n
      /\ past'.cut = past.cut /\ past'.setups = past.setups /\ past'.starts = past.starts
  <2>1. past' = [past EXCEPT !.raced = raced, !.changes = n]
    BY <1>3, <1>4 DEF UpdateWrite
  <2> QED
    BY <1>1, <2>1 DEF UsersPast
<1>6. n >= past.changes /\ past'.changes >= past.changes /\ (past.raced => past'.raced) /\ 0 <= n
  BY <1>1, <1>3, <1>4, <1>5
<1>7. PICK next : next = CASE both -> [job[a] EXCEPT !.admin = "keep"]
                           [] ~both /\ i \in UserIds -> Done
                           [] OTHER -> NoJob
  OBVIOUS
<1>8. job' = [b \in Askers |-> IF b = a THEN next ELSE [job[b] EXCEPT !.stale = b \in HasRead]]
  BY <1>7 DEF UpdateWrite, UsersWritten
<1>9. ASSUME NEW j \in UserIds
      PROVE  /\ users'[j] \in UserRow /\ users'[j].born = users[j].born
             /\ j # i => users'[j] = users[j]
             /\ job[a].admin # "no" /\ job[a].disabled # "yes" /\ users[j].admin /\ ~users[j].disabled
                => users'[j].admin /\ ~users'[j].disabled
  <2>1. users[j] \in UserRow
    BY <1>1
  <2>2. CASE j # i
    BY <1>2, <2>1, <2>2
  <2>3. CASE j = i /\ job[a].admin # "keep"
    <3>1. PICK v \in BOOLEAN : v = Chosen(job[a].admin, users[j].admin)
      BY <2>3 DEF Chosen
    <3>2. users'[j] = [users[j] EXCEPT !.admin = v]
      BY <1>2, <2>3, <3>1
    <3>3. job[a].admin # "no" => v
      BY <1>1, <2>3, <3>1 DEF Chosen, Choice
    <3> QED
      BY <2>1, <2>3, <3>2, <3>3 DEF UserRow
  <2>4. CASE j = i /\ job[a].admin = "keep"
    <3>1. PICK v \in BOOLEAN : v = Chosen(job[a].disabled, users[j].disabled)
      BY <2>1 DEF Chosen, UserRow
    <3>2. users'[j] = [users[j] EXCEPT !.disabled = v]
      BY <1>2, <2>4, <3>1
    <3>3. job[a].disabled # "yes" /\ ~users[j].disabled => ~v
      BY <1>1, <3>1 DEF Chosen, Choice
    <3> QED
      BY <2>1, <2>4, <3>2, <3>3 DEF UserRow
  <2> QED
    BY <2>2, <2>3, <2>4
<1> HIDE DEF field, both
<1>10. UserIds' = UserIds
  BY <1>2 DEF UserIds
<1>11. users' \in [UserIds' -> UserRow]
  <2>1. \A j \in UserIds' : users'[j] \in UserRow
    BY <1>9, <1>10
  <2>2. users' = [j \in UserIds' |-> users'[j]]
    BY <1>2, <1>10
  <2> QED
    BY <2>1, <2>2
<1>12. ActiveAdmins' \ {i} = ActiveAdmins \ {i}
  BY <1>9, <1>10 DEF ActiveAdmins
<1>13. job[a].admin # "no" /\ job[a].disabled # "yes" => ActiveAdmins \subseteq ActiveAdmins'
  BY <1>9, <1>10 DEF ActiveAdmins
<1>14. ~past'.raced => ~past.raced /\ ~job[a].stale
  BY <1>4, <1>5
<1>15. /\ next \in Job /\ next.target <= past'.changes /\ next.who <= past'.changes
       /\ JobTrue(next)' /\ (next.pc = "log") = (~both /\ i \in UserIds)
  <2>1. CASE both
    <3>1. next = [job[a] EXCEPT !.admin = "keep"]
      BY <1>7, <2>1
    <3>2. /\ next \in Job /\ next.target = i /\ next.who = job[a].who /\ next.pc = "write"
          /\ next.admin = "keep" /\ next.disabled = job[a].disabled /\ next.stale = job[a].stale
      BY <1>1, <1>2, <3>1 DEF Job, Choice
    <3>3. ~next.stale /\ ~past'.raced /\ next.disabled = "yes" => ActiveAdmins' \ {i} # {}
      BY <1>1, <1>2, <1>12, <1>14, <3>2 DEF JobTrue
    <3>4. JobTrue(next)'
      BY <3>2, <3>3 DEF JobTrue
    <3>5. next.target <= past'.changes /\ next.who <= past'.changes
      BY <1>1, <1>5, <1>6, <3>2
    <3> QED
      BY <2>1, <3>2, <3>4, <3>5
  <2>2. CASE ~both
    <3>1. next = IF i \in UserIds THEN Done ELSE NoJob
      BY <1>7, <2>2
    <3>2. /\ next \in Job /\ next.target = 0 /\ next.who = 0
          /\ next.pc = IF i \in UserIds THEN "log" ELSE "none"
      BY <3>1, NoJobType
    <3>3. JobTrue(next)'
      BY <3>2 DEF JobTrue
    <3> QED
      BY <1>5, <1>6, <2>2, <3>2, <3>3
  <2> QED
    BY <2>1, <2>2
<1>16. /\ job' \in [Askers -> Job] /\ JobsTrue'
       /\ \A b \in Askers : job'[b].target <= past'.changes /\ job'[b].who <= past'.changes
       /\ job'[a] = next /\ \A b \in Askers \ {a} : job'[b].pc = job[b].pc
  BY <1>5, <1>6, <1>8, <1>10, <1>15, AllMove
<1>17. LogCounted'
  <2>1. CASE ~both /\ i \in UserIds
    <3>1. past'.changes = past.changes + 1 /\ next.pc = "log"
      BY <1>3, <1>5, <1>15, <2>1
    <3> QED
      BY <1>2, <1>5, <1>16, <3>1, ChangeCounted
  <2>2. CASE ~ (~both /\ i \in UserIds)
    <3>1. past'.changes = past.changes /\ next.pc # "log"
      BY <1>3, <1>5, <1>15, <2>2
    <3> QED
      BY <1>2, <1>5, <1>16, <3>1, NothingCounted
  <2> QED
    BY <2>1, <2>2
<1>18. AdminLeftUnlessRaced'
  <2> SUFFICES ASSUME UserIds' # {}, ~past'.raced
               PROVE  ActiveAdmins' # {}
    BY DEF AdminLeftUnlessRaced
  <2>1. CASE job[a].admin = "no" \/ job[a].disabled = "yes"
    BY <1>1, <1>2, <1>12, <1>14, <2>1 DEF JobTrue
  <2>2. CASE job[a].admin # "no" /\ job[a].disabled # "yes"
    BY <1>10, <1>13, <1>14, <2>2 DEF UsersInv, AdminLeftUnlessRaced
  <2> QED
    BY <2>1, <2>2
<1>19. UsersTypes'
  <2>1. UserIds' \subseteq 1 .. past'.changes
    BY <1>1, <1>5, <1>6, <1>10
  <2>2. \A j \in UserIds' : users'[j].born <= past'.changes
    <3> SUFFICES ASSUME NEW j \in UserIds
                 PROVE  users'[j].born <= past'.changes
      BY <1>10
    <3>1. users'[j].born = users[j].born /\ users[j].born <= past.changes /\ users[j].born \in Nat
      BY <1>1, <1>9 DEF UserRow
    <3> QED
      BY <1>1, <1>5, <1>6, <3>1
  <2>3. \A t \in apiTokens' : t.owner \in UserIds' /\ t.for <= past'.changes
    BY <1>1, <1>2, <1>5, <1>6, <1>10 DEF UsersInv, UsersTypes
  <2> QED
    BY <1>2, <1>5, <1>11, <1>16, <2>1, <2>2, <2>3 DEF UsersInv, UsersTypes
<1>20. TokensOnesOwn'
  BY <1>2, <1>9, <1>14 DEF UsersInv, UsersTypes, TokensOnesOwn
<1>21. TokenLeft'
  BY <1>2, <1>5 DEF UsersInv, TokenLeft
<1> QED
  BY <1>16, <1>17, <1>18, <1>19, <1>20, <1>21 DEF UsersInv

\* delete_user writes: the row goes, and the tokens that were its own.
LEMMA DeleteStep ==
    ASSUME UsersInv, NEW a \in Askers, DeleteWrite(a)
    PROVE  UsersInv'
PROOF
<1> DEFINE i == job[a].target
<1>1. /\ past \in UsersPast /\ past.changes \in Nat /\ past.raced \in BOOLEAN
      /\ JobTrue(job[a]) /\ job[a].stale \in BOOLEAN
      /\ UserIds \subseteq 1 .. past.changes
      /\ users \in [UserIds -> UserRow] /\ \A j \in UserIds : users[j].born <= past.changes
  BY DEF UsersInv, UsersTypes, UsersPast, JobsTrue, Job
<1>2. /\ job[a].pc = "gone"
      /\ users' = [j \in UserIds \ {i} |-> users[j]]
      /\ job' = [b \in Askers |-> IF b = a THEN Done ELSE [job[b] EXCEPT !.stale = b \in HasRead]]
      /\ Changed(job[a].stale) /\ apiTokens' = {t \in apiTokens : t.owner # i}
      /\ UNCHANGED <<setupToken, jobs, auditLog>>
  BY DEF DeleteWrite, UsersWritten
<1>3. /\ past' \in UsersPast /\ past'.raced = (past.raced \/ job[a].stale)
      /\ past'.changes = past.changes + 1
      /\ past'.cut = past.cut /\ past'.setups = past.setups /\ past'.starts = past.starts
  BY <1>1, <1>2, ChangedPast
<1>4. /\ UserIds' = UserIds \ {i} /\ \A j \in UserIds' : users'[j] = users[j]
      /\ users' \in [UserIds' -> UserRow]
  <2>1. DOMAIN users' = UserIds \ {i}
    BY <1>2
  <2>2. UserIds' = UserIds \ {i}
    BY <2>1 DEF UserIds
  <2>3. \A j \in UserIds' : users'[j] = users[j]
    BY <1>2, <2>2
  <2> QED
    BY <1>1, <1>2, <2>2, <2>3
<1>5. ActiveAdmins' = ActiveAdmins \ {i}
  BY <1>4 DEF ActiveAdmins
<1>6. ~past'.raced => ActiveAdmins' # {} /\ UserIds' # {}
  <2>1. ~past'.raced => ActiveAdmins' # {}
    BY <1>1, <1>2, <1>3, <1>5 DEF JobTrue
  <2>2. ActiveAdmins' \subseteq UserIds'
    BY DEF ActiveAdmins
  <2> QED
    BY <2>1, <2>2
<1>7. JobTrue(Done)' /\ past'.changes >= past.changes /\ 0 <= past'.changes
  BY <1>1, <1>3, NoJobType DEF JobTrue
<1>8. /\ job' \in [Askers -> Job] /\ JobsTrue'
      /\ \A b \in Askers : job'[b].target <= past'.changes /\ job'[b].who <= past'.changes
      /\ job'[a] = Done /\ \A b \in Askers \ {a} : job'[b].pc = job[b].pc
  <2>1. past.raced => past'.raced
    BY <1>3
  <2> QED
    BY <1>2, <1>3, <1>6, <1>7, <2>1, NoJobType, AllMove
<1>9. LogCounted'
  BY <1>2, <1>3, <1>8, NoJobType, ChangeCounted
<1>10. UsersTypes'
  <2>1. UserIds' \subseteq 1 .. past'.changes
    <3>1. 1 .. past.changes \subseteq 1 .. past'.changes
      BY <1>1, <1>3
    <3> QED
      BY <1>1, <1>4, <3>1
  <2>2. \A j \in UserIds' : users'[j].born <= past'.changes
    BY <1>1, <1>3, <1>4 DEF UserRow
  <2>3. \A t \in apiTokens' : t \in apiTokens /\ t.owner \in UserIds' /\ t.for <= past'.changes
    BY <1>1, <1>2, <1>3, <1>4 DEF UsersInv, UsersTypes
  <2> QED
    BY <1>2, <1>3, <1>4, <1>8, <2>1, <2>2, <2>3 DEF UsersInv, UsersTypes
<1>11. TokensOnesOwn'
  BY <1>2, <1>3, <1>4 DEF UsersInv, UsersTypes, TokensOnesOwn
<1> QED
  BY <1>2, <1>3, <1>6, <1>8, <1>9, <1>10, <1>11 DEF UsersInv, AdminLeftUnlessRaced, TokenLeft

\* A caller's own tokens: made for the row the caller was read from, or deleted.
LEMMA TokenStep ==
    ASSUME UsersInv, NEW a \in Askers, NewApiToken(a) \/ DeleteApiToken(a)
    PROVE  UsersInv'
PROOF
<1>1. /\ past.changes \in Nat /\ past.raced \in BOOLEAN
      /\ JobTrue(job[a]) /\ job[a].stale \in BOOLEAN /\ job[a].pc = "own"
      /\ job[a].by \in Nat /\ job[a].who \in Nat /\ job[a].who <= past.changes
      /\ UNCHANGED <<users, setupToken, jobs, auditLog>>
  BY DEF UsersInv, UsersTypes, UsersPast, JobsTrue, Job, NewApiToken, DeleteApiToken
<1>2. ASSUME NEW raced \in BOOLEAN, Changed(raced), job' = [job EXCEPT ![a] = Done],
             apiTokens' \subseteq [owner : Nat, for : Nat],
             \A t \in apiTokens' : t.owner \in UserIds /\ t.for <= past.changes,
             ~past.raced /\ ~raced => \A t \in apiTokens' : users[t.owner].born = t.for
      PROVE  UsersInv'
  <2>1. /\ past' \in UsersPast /\ past'.raced = (past.raced \/ raced)
        /\ past'.changes = past.changes + 1
        /\ past'.cut = past.cut /\ past'.setups = past.setups /\ past'.starts = past.starts
    BY <1>2, ChangedPast
  <2>2. /\ past'.changes >= past.changes /\ 0 <= past.changes /\ JobTrue(Done)'
        /\ (past.raced => past'.raced)
    BY <1>1, <2>1, NoJobType DEF JobTrue
  <2>3. /\ job' \in [Askers -> Job] /\ JobsTrue'
        /\ \A b \in Askers : job'[b].target <= past'.changes /\ job'[b].who <= past'.changes
        /\ job'[a] = Done /\ \A b \in Askers \ {a} : job'[b] = job[b]
        /\ UserIds' = UserIds /\ ActiveAdmins' = ActiveAdmins
        /\ \A i \in UserIds : users[i].born <= past'.changes
        /\ UserIds \subseteq 1 .. past'.changes
    BY <1>1, <1>2, <2>1, <2>2, NoJobType, OneMoves
  <2>4. \A t \in apiTokens' : t.owner \in UserIds' /\ t.for <= past'.changes
    BY <1>1, <1>2, <2>1, <2>3
  <2>5. UsersTypes'
    BY <1>1, <1>2, <2>1, <2>3, <2>4 DEF UsersInv, UsersTypes
  <2>6. LogCounted'
    BY <1>1, <2>1, <2>3, NoJobType, ChangeCounted
  <2>7. TokensOnesOwn'
    BY <1>1, <1>2, <2>1 DEF TokensOnesOwn
  <2> QED
    BY <1>1, <2>1, <2>3, <2>5, <2>6, <2>7 DEF UsersInv, AdminLeftUnlessRaced, TokenLeft
<1>3. CASE NewApiToken(a)
  <2>1. CASE job[a].by \in UserIds
    <3>1. /\ apiTokens' = apiTokens \cup {TokenFor(job[a].by, job[a].who)}
          /\ job' = [job EXCEPT ![a] = Done] /\ Changed(job[a].stale)
      BY <1>3, <2>1 DEF NewApiToken
    <3>2. PICK t : t = TokenFor(job[a].by, job[a].who)
      OBVIOUS
    <3>3. t \in [owner : Nat, for : Nat] /\ t.owner = job[a].by /\ t.for = job[a].who
      BY <1>1, <3>2 DEF TokenFor
    <3>4. apiTokens' \subseteq [owner : Nat, for : Nat]
      BY <3>1, <3>2, <3>3 DEF UsersInv, UsersTypes
    <3>5. \A u \in apiTokens' : u.owner \in UserIds /\ u.for <= past.changes
      BY <1>1, <2>1, <3>1, <3>2, <3>3 DEF UsersInv, UsersTypes
    <3>6. ~past.raced /\ ~job[a].stale => \A u \in apiTokens' : users[u.owner].born = u.for
      BY <1>1, <3>1, <3>2, <3>3 DEF JobTrue, UsersInv, TokensOnesOwn
    <3> QED
      BY <1>1, <1>2, <3>1, <3>4, <3>5, <3>6
  <2>2. CASE job[a].by \notin UserIds
    BY <1>1, <1>3, <2>2, EndsStep DEF NewApiToken
  <2> QED
    BY <2>1, <2>2
<1>4. CASE DeleteApiToken(a)
  <2>1. /\ apiTokens' \subseteq apiTokens /\ job' = [job EXCEPT ![a] = Done] /\ Changed(FALSE)
    BY <1>4 DEF DeleteApiToken
  <2> QED
    BY <1>2, <2>1 DEF UsersInv, UsersTypes, TokensOnesOwn
<1> QED
  BY <1>3, <1>4

\* A request ends: its change written to the log, or cut short by its client.
LEMMA EndStep ==
    ASSUME UsersInv, NEW a \in Askers, Record(a) \/ JobCut(a)
    PROVE  UsersInv'
PROOF
<1>1. /\ past \in UsersPast /\ past.changes \in Nat /\ past.raced \in BOOLEAN /\ 0 <= past.changes
      /\ past.cut \in BOOLEAN /\ auditLog \in Nat
      /\ job' = [job EXCEPT ![a] = NoJob] /\ UNCHANGED <<users, apiTokens, setupToken, jobs>>
  BY DEF UsersInv, UsersTypes, UsersPast, Record, JobCut, JobEnds
<1>2. /\ past' \in UsersPast /\ past'.raced = past.raced /\ past'.changes = past.changes
      /\ past'.setups = past.setups /\ past'.starts = past.starts
      /\ past'.cut = past.cut \/ (past'.cut = TRUE /\ JobCut(a))
  BY <1>1 DEF Record, JobCut, UsersPast
<1>3. /\ JobTrue(NoJob)' /\ past'.changes >= past.changes /\ (past.raced => past'.raced)
      /\ (setupToken => setupToken')
  BY <1>1, <1>2, NoJobType DEF JobTrue
<1>4. /\ job' \in [Askers -> Job] /\ JobsTrue'
      /\ \A b \in Askers : job'[b].target <= past'.changes /\ job'[b].who <= past'.changes
      /\ job'[a] = NoJob /\ \A b \in Askers \ {a} : job'[b] = job[b]
      /\ UserIds' = UserIds /\ ActiveAdmins' = ActiveAdmins
  BY <1>1, <1>2, <1>3, NoJobType, OneMoves
<1>5. /\ Cardinality(Logging) \in Nat
      /\ job[a].pc # "log" => Cardinality(Logging)' = Cardinality(Logging)
      /\ job[a].pc = "log" => Cardinality(Logging)' = Cardinality(Logging) - 1
  BY <1>4, NoJobType, LoggingMoves
<1>6. LogCounted' /\ auditLog' \in Nat
  <2>1. CASE Record(a)
    <3>1. job[a].pc = "log" /\ auditLog' = auditLog + 1 /\ past' = past
      BY <2>1 DEF Record
    <3> QED
      BY <1>1, <1>5, <3>1 DEF UsersInv, LogCounted
  <2>2. CASE JobCut(a)
    <3>1. auditLog' = auditLog /\ past'.cut = TRUE
      BY <1>1, <2>2 DEF JobCut, UsersPast
    <3> QED
      BY <1>1, <1>2, <1>5, <3>1 DEF UsersInv, LogCounted
  <2> QED
    BY <2>1, <2>2
<1>7. UsersTypes'
  BY <1>1, <1>2, <1>4, <1>6 DEF UsersInv, UsersTypes
<1> QED
  BY <1>1, <1>2, <1>4, <1>6, <1>7 DEF UsersInv, AdminLeftUnlessRaced, TokenLeft, TokensOnesOwn

LEMMA NewSetupTokenStep ==
    ASSUME UsersInv, NewSetupToken
    PROVE  UsersInv'
PROOF
<1>1. /\ past \in UsersPast /\ past.starts \in Nat /\ past.setups \in Nat /\ setupToken \in BOOLEAN
  BY DEF UsersInv, UsersTypes, UsersPast
<1>2. /\ setupToken' = TRUE /\ past' = [past EXCEPT !.starts = past.starts + 1]
      /\ UNCHANGED <<users, apiTokens, job, jobs, auditLog>>
  BY DEF NewSetupToken
<1>3. /\ past' \in UsersPast /\ past'.raced = past.raced /\ past'.changes = past.changes
      /\ past'.setups = past.setups /\ past'.starts = past.starts + 1 /\ past'.cut = past.cut
  BY <1>1, <1>2 DEF UsersPast
<1>4. UserIds' = UserIds /\ ActiveAdmins' = ActiveAdmins /\ Logging' = Logging
  BY <1>2 DEF UserIds, ActiveAdmins, Logging
<1>5. UsersTypes'
  BY <1>2, <1>3, <1>4 DEF UsersInv, UsersTypes
<1>6. JobsTrue'
  BY <1>2, <1>3, <1>4 DEF UsersInv, JobsTrue, JobTrue
<1>7. TokenLeft'
  BY <1>1, <1>2, <1>3 DEF UsersInv, TokenLeft
<1>8. LogCounted'
  BY <1>2, <1>3, <1>4 DEF UsersInv, LogCounted
<1> QED
  BY <1>2, <1>3, <1>4, <1>5, <1>6, <1>7, <1>8 DEF UsersInv, AdminLeftUnlessRaced, TokensOnesOwn

LEMMA UsersStep ==
    ASSUME UsersInv, [UsersNext]_usersVars
    PROVE  UsersInv'
PROOF
<1>1. ASSUME NEW a \in Askers, SetupRead(a) \/ JobCut(a) \/ JobStep(a)
      PROVE  UsersInv'
  <2>1. CASE SetupRefused(a)
    BY <2>1, EndsStep DEF SetupRefused
  <2> QED
    BY <1>1, <2>1, AskStep, EndStep, InsertStep, ReadStep, UpdateStep, DeleteStep, TokenStep
    DEF JobStep, UpdateUser, DeleteUser
<1>2. CASE UNCHANGED usersVars
  BY <1>2 DEF usersVars, UsersInv, UsersTypes, JobsTrue, JobTrue, AdminLeftUnlessRaced, TokenLeft,
     TokensOnesOwn, LogCounted, Logging, UserIds, ActiveAdmins
<1> QED
  BY <1>1, <1>2, NewSetupTokenStep, AskStep DEF UsersNext

\* An administrator is left whatever is demoted, disabled or deleted at once, the
\* setup makes one, an API token is its owner's and a change is in the audit log
\* - but for the races and the cut requests the properties name (accounts.rs,
\* update_user, delete_user, setup, new_api_token; audit.rs).
THEOREM UsersAlwaysSafe == UsersSpec => []UsersSafe
PROOF
<1>1. UsersInv /\ [UsersNext]_usersVars => UsersInv'
  BY UsersStep
<1>2. UsersSpec => []UsersInv
  BY <1>1, UsersBegins, PTL DEF UsersSpec
<1>3. ASSUME UsersInv
      PROVE  UsersSafe
  <2>1. /\ past.changes \in Nat /\ past.setups \in Nat /\ past.starts \in Nat /\ auditLog \in Nat
        /\ setupToken \in BOOLEAN /\ IsFiniteSet(Logging) /\ Cardinality(Logging) \in Nat
    <3>1. IsFiniteSet(Logging)
      BY UsersAssumption, FS_Subset DEF Logging
    <3> QED
      BY <1>3, <3>1, FS_CardinalityType DEF UsersInv, UsersTypes, UsersPast
  <2>2. SetupOnce
    BY <1>3, <2>1 DEF UsersInv, TokenLeft, SetupOnce
  <2>3. ChangesRecorded
    <3>1. Busy = {} => Logging = {}
      BY DEF Busy, Logging
    <3>2. Cardinality({}) = 0
      BY FS_EmptySet
    <3> QED
      BY <1>3, <2>1, <3>1, <3>2 DEF UsersInv, LogCounted, ChangesRecorded
  <2>4. auditLog <= past.changes
    BY <1>3, <2>1 DEF UsersInv, LogCounted
  <2>5. UsersTypeOK
    BY <1>3, <2>1, <2>4 DEF UsersInv, UsersTypes, UsersTypeOK, UserRow, Job
  <2> QED
    BY <1>3, <2>2, <2>3, <2>5 DEF UsersInv, UsersSafe
<1> QED
  BY <1>2, <1>3, PTL

-----------------------------------------------------------------------------
(* Sign-in *)

AccountRow == [password : Passwords, secret : 0 .. SecretBound, pending : 0 .. SecretBound,
               last : 0 .. ClockBound + 1, disabled : BOOLEAN]

Request == [pc : {"none", "try", "read", "verify", "step", "login", "change", "changing", "logouts",
                  "confirm", "confirming", "off", "turning off"},
            row : AccountRow, step : 0 .. ClockBound + 1, stale : BOOLEAN]

SignInHistory == [raced : BOOLEAN, cut : BOOLEAN, twice : BOOLEAN, used : SUBSET (Nat \X Nat),
                  confirmed : SUBSET Nat, wrong : Seq(1 .. ClockBound)]

SignInTypes ==
    /\ account \in AccountRow
    /\ logins \subseteq [password : Passwords, expires : Nat]
    /\ attempts \in [SignInKeys -> Seq(1 .. ClockBound)]
    /\ asking \in [Clients -> Request]
    /\ clock \in 1 .. ClockBound /\ secrets \in 0 .. SecretBound /\ asked \in 0 .. AskBound
    /\ history \in SignInHistory

\* What a request knows of the row it read, until the row changes under it.
RequestTrue(r) ==
    /\ r.pc \in {"verify", "step", "confirming"} /\ ~r.stale => r.row = account
    /\ r.pc = "login" /\ ~r.stale => r.row.password = account.password /\ ~account.disabled
    /\ r.pc = "step" => ~r.row.disabled /\ r.row.secret # NoSecret /\ r.step > r.row.last
    /\ r.pc = "confirming" => r.row.pending # NoSecret
    /\ r.row.pending <= secrets

RequestsTrue == \A c \in Clients : RequestTrue(asking[c])

\* A secret is new when it is made ...
SecretsMade ==
    /\ account.pending <= secrets
    /\ \A s \in history.confirmed : s <= secrets

\* ... and no code of the one in force is of a later step than the row says.
CodesSpent ==
    ~history.raced =>
        /\ ~history.twice
        /\ account.secret # NoSecret => account.secret \in history.confirmed
        /\ account.pending # NoSecret => account.pending \notin history.confirmed
        /\ \A u \in history.used : u[1] \in history.confirmed
        /\ account.secret # NoSecret =>
              \A u \in history.used : u[1] = account.secret => u[2] <= account.last

\* The sign-ins that are past may_try and may still turn out wrong.
Guessing == {c \in Clients : asking[c].pc \in {"read", "verify"}}

\* Each key remembers the wrong tries, or there is none within the window.
KeysRemember ==
    /\ \A i \in 1 .. Len(history.wrong) : history.wrong[i] <= clock
    /\ \A i, j \in 1 .. Len(history.wrong) : i <= j => history.wrong[i] <= history.wrong[j]
    /\ \A key \in SignInKeys :
          \/ attempts[key] = history.wrong
          \/ attempts[key] = << >> /\ Within(history.wrong) = << >>

GuessesCounted ==
    Len(Within(history.wrong)) + Cardinality(Guessing) < Attempts + Cardinality(Clients)

SignInInv ==
    /\ SignInTypes /\ RequestsTrue /\ SecretsMade /\ CodesSpent /\ OldSessionsGone
    /\ KeysRemember /\ GuessesCounted

LEMMA NoRequestType ==
    /\ FirstRow \in AccountRow /\ FirstRow.secret = NoSecret /\ FirstRow.pending = NoSecret
    /\ NoRequest \in Request /\ NoRequest.pc = "none" /\ NoRequest.row = FirstRow
    /\ NoRequest.row.pending = 0 /\ NoRequest.step = 0 /\ NoRequest.stale = FALSE
PROOF
<1>1. 1 \in Passwords /\ 0 \in 0 .. SecretBound /\ 0 \in 0 .. ClockBound + 1
  BY SignInAssumption
<1>2. FirstRow \in AccountRow /\ FirstRow.secret = NoSecret /\ FirstRow.pending = NoSecret
  BY <1>1 DEF FirstRow, AccountRow, NoSecret, NoStep
<1>3. NoRequest.row = FirstRow /\ NoRequest.pc = "none" /\ NoRequest.step = 0 /\ NoRequest.stale = FALSE
  BY DEF NoRequest, NoStep
<1>4. NoRequest \in Request
  BY <1>1, <1>2 DEF NoRequest, Request, NoStep
<1> QED
  BY <1>2, <1>3, <1>4 DEF NoSecret

LEMMA SignInBegins == SignInInit => SignInInv
PROOF
<1> SUFFICES ASSUME SignInInit
             PROVE  SignInInv
  OBVIOUS
<1>1. /\ account = FirstRow /\ logins = {} /\ attempts = [key \in SignInKeys |-> << >>]
      /\ asking = [c \in Clients |-> NoRequest] /\ clock = 1 /\ secrets = 0 /\ asked = 0
      /\ history = [raced |-> FALSE, cut |-> FALSE, twice |-> FALSE, used |-> {},
                    confirmed |-> {}, wrong |-> << >>]
  BY DEF SignInInit
<1>2. << >> \in Seq(1 .. ClockBound) /\ Len(<< >>) = 0
  BY EmptySeq
<1>3. /\ history \in SignInHistory /\ history.wrong = << >> /\ history.used = {}
      /\ history.confirmed = {} /\ history.twice = FALSE
  BY <1>1, <1>2 DEF SignInHistory
<1>4. SignInTypes
  BY <1>1, <1>2, <1>3, NoRequestType, SignInAssumption DEF SignInTypes
<1>5. RequestsTrue
  BY <1>1, NoRequestType DEF RequestsTrue, RequestTrue
<1>6. SecretsMade /\ CodesSpent /\ OldSessionsGone
  BY <1>1, <1>3, NoRequestType DEF SecretsMade, CodesSpent, OldSessionsGone, NoSecret, FirstRow
<1>7. KeysRemember
  BY <1>1, <1>2, <1>3 DEF KeysRemember
<1>8. GuessesCounted
  <2>1. Guessing = {}
    BY <1>1, NoRequestType DEF Guessing
  <2>2. Cardinality(Guessing) = 0 /\ Cardinality(Clients) \in Nat
    BY <2>1, FS_EmptySet, FS_CardinalityType, SignInAssumption
  <2>3. Within(history.wrong) = << >>
    <3>1. 1 \in Nat /\ AttemptWindow \in Nat
      BY SignInAssumption
    <3> QED
      BY <1>1, <1>3, <3>1, PopOldNone DEF Within
  <2> QED
    BY <1>2, <2>2, <2>3, SignInAssumption DEF GuessesCounted
<1> QED
  BY <1>4, <1>5, <1>6, <1>7, <1>8 DEF SignInInv

\* The count of guesses when nothing is tried and no time passes.
LEMMA NoGuess ==
    ASSUME SignInInv, UNCHANGED <<attempts, clock>>, history'.wrong = history.wrong,
           Guessing' \subseteq Guessing
    PROVE  KeysRemember' /\ GuessesCounted'
PROOF
<1>1. IsFiniteSet(Guessing)
  BY SignInAssumption, FS_Subset DEF Guessing
<1>2. /\ IsFiniteSet(Guessing') /\ Cardinality(Guessing') <= Cardinality(Guessing)
      /\ Cardinality(Guessing) \in Nat /\ Cardinality(Guessing') \in Nat
      /\ Cardinality(Clients) \in Nat
  BY <1>1, FS_Subset, FS_CardinalityType, SignInAssumption
<1>3. Within(history.wrong)' = Within(history.wrong)
  BY DEF Within
<1>4. Len(Within(history.wrong)) \in Nat
  <2>1. /\ clock \in Nat /\ AttemptWindow \in Nat /\ ClockBound \in Nat
        /\ history.wrong \in Seq(1 .. ClockBound)
    BY SignInAssumption DEF SignInInv, SignInTypes, SignInHistory
  <2> QED
    BY <2>1, PopOldType DEF Within
<1>5. GuessesCounted'
  BY <1>2, <1>3, <1>4, SignInAssumption DEF SignInInv, GuessesCounted
<1>6. KeysRemember'
  BY <1>3 DEF SignInInv, KeysRemember
<1> QED
  BY <1>5, <1>6

LEMMA OneAsks ==
    ASSUME SignInInv, NEW c \in Clients, NEW next \in Request,
           asking' = [asking EXCEPT ![c] = next], UNCHANGED <<account, secrets>>, RequestTrue(next)
    PROVE  /\ asking' \in [Clients -> Request] /\ RequestsTrue'
           /\ asking'[c] = next /\ \A d \in Clients \ {c} : asking'[d] = asking[d]
PROOF
<1>1. /\ asking' \in [Clients -> Request]
      /\ asking'[c] = next /\ \A d \in Clients \ {c} : asking'[d] = asking[d]
  BY DEF SignInInv, SignInTypes
<1>2. ASSUME NEW d \in Clients
      PROVE  RequestTrue(asking[d])'
  <2>1. CASE d = c
    BY <1>1, <2>1 DEF RequestTrue
  <2>2. CASE d # c
    <3>1. asking'[d] = asking[d] /\ RequestTrue(asking[d])
      BY <1>1, <2>2 DEF SignInInv, RequestsTrue
    <3> QED
      BY <3>1 DEF RequestTrue
  <2> QED
    BY <2>1, <2>2
<1> QED
  BY <1>1, <1>2 DEF RequestsTrue

\* The row is written: whoever read it before holds an old copy.
LEMMA AllAsk ==
    ASSUME SignInInv, NEW c \in Clients, NEW next \in Request,
           asking' = [d \in Clients |-> IF d = c THEN next
                                        ELSE [asking[d] EXCEPT !.stale = d \in HoldsRow]],
           secrets' \in Nat, secrets <= secrets', RequestTrue(next)'
    PROVE  /\ asking' \in [Clients -> Request] /\ RequestsTrue'
           /\ asking'[c] = next /\ \A d \in Clients \ {c} : asking'[d].pc = asking[d].pc
PROOF
<1>1. asking \in [Clients -> Request] /\ secrets \in Nat
  BY SignInAssumption DEF SignInInv, SignInTypes
<1>2. ASSUME NEW d \in Clients \ {c}
      PROVE  /\ asking'[d] \in Request /\ asking'[d].pc = asking[d].pc
             /\ asking'[d].row = asking[d].row /\ asking'[d].step = asking[d].step
             /\ asking'[d].stale = (d \in HoldsRow)
  <2>1. asking[d] \in Request /\ asking'[d] = [asking[d] EXCEPT !.stale = d \in HoldsRow]
    BY <1>1
  <2>2. (d \in HoldsRow) \in BOOLEAN
    OBVIOUS
  <2> QED
    BY <2>1, <2>2 DEF Request
<1>3. asking'[c] = next
  OBVIOUS
<1>4. asking' \in [Clients -> Request]
  <2>1. \A d \in Clients : asking'[d] \in Request
    BY <1>2, <1>3
  <2>2. asking' = [d \in Clients |-> asking'[d]]
    OBVIOUS
  <2> QED
    BY <2>1, <2>2
<1>5. ASSUME NEW d \in Clients
      PROVE  RequestTrue(asking[d])'
  <2>1. CASE d = c
    BY <1>3, <2>1 DEF RequestTrue
  <2>2. CASE d # c
    <3>1. /\ asking'[d].pc = asking[d].pc
          /\ asking'[d].row = asking[d].row /\ asking'[d].step = asking[d].step
          /\ asking'[d].stale = (d \in HoldsRow)
      BY <1>2, <2>2
    <3>2. asking[d].pc \in {"verify", "step", "confirming", "login"} => d \in HoldsRow
      BY DEF HoldsRow
    <3>3. asking'[d].pc \in {"verify", "step", "confirming", "login"} => asking'[d].stale
      BY <3>1, <3>2
    <3>4. RequestTrue(asking[d]) /\ asking[d].row.pending \in Nat
      <4>1. asking[d] \in Request /\ asking[d].row \in AccountRow
        BY <1>1 DEF Request
      <4>2. asking[d].row.pending \in 0 .. SecretBound
        BY <4>1 DEF AccountRow
      <4> QED
        BY <4>2, SignInAssumption DEF SignInInv, RequestsTrue
    <3>5. asking'[d].row.pending <= secrets'
      BY <1>1, <3>1, <3>4 DEF RequestTrue
    <3> QED
      BY <3>1, <3>3, <3>4, <3>5 DEF RequestTrue
  <2> QED
    BY <2>1, <2>2
<1> QED
  BY <1>2, <1>3, <1>4, <1>5 DEF RequestsTrue

\* A step of one request that writes to no table.
LEMMA LookAt ==
    ASSUME SignInInv, NEW c \in Clients, NEW next \in Request,
           asking' = [asking EXCEPT ![c] = next],
           UNCHANGED <<account, logins, attempts, clock, secrets, history>>, asked' \in 0 .. AskBound,
           RequestTrue(next), asking[c].pc # "logouts",
           next.pc \in {"read", "verify"} => asking[c].pc \in {"read", "verify"}
    PROVE  SignInInv'
PROOF
<1>1. /\ asking' \in [Clients -> Request] /\ RequestsTrue'
      /\ asking'[c] = next /\ \A d \in Clients \ {c} : asking'[d] = asking[d]
  BY OneAsks
<1>2. SignInTypes'
  BY <1>1 DEF SignInInv, SignInTypes
<1>3. Guessing' \subseteq Guessing
  BY <1>1 DEF Guessing
<1>4. KeysRemember' /\ GuessesCounted'
  BY <1>3, NoGuess
<1>5. SecretsMade' /\ CodesSpent'
  BY DEF SignInInv, SecretsMade, CodesSpent
<1>6. OldSessionsGone'
  BY <1>1 DEF SignInInv, OldSessionsGone
<1> QED
  BY <1>1, <1>2, <1>4, <1>5, <1>6 DEF SignInInv

LEMMA RequestEnds ==
    ASSUME SignInInv, NEW c \in Clients, Ends(c), asking[c].pc # "logouts",
           UNCHANGED <<account, logins, attempts, clock, secrets, asked, history>>
    PROVE  SignInInv'
PROOF
<1>1. /\ RequestTrue(NoRequest) /\ asking' = [asking EXCEPT ![c] = NoRequest]
      /\ asked' \in 0 .. AskBound
  <2>1. 0 <= secrets
    BY SignInAssumption DEF SignInInv, SignInTypes
  <2> QED
    BY <2>1, NoRequestType DEF RequestTrue, Ends, SignInInv, SignInTypes
<1> QED
  BY <1>1, NoRequestType, LookAt

\* What a write of the row leaves.
LEMMA RowWritten ==
    ASSUME SignInInv, NEW c \in Clients, NEW next \in Request,
           account' \in AccountRow,
           asking' = [d \in Clients |-> IF d = c THEN next
                                        ELSE [asking[d] EXCEPT !.stale = d \in HoldsRow]],
           UNCHANGED <<logins, attempts, clock>>, asked' \in 0 .. AskBound,
           secrets' \in 0 .. SecretBound, secrets <= secrets',
           history' \in SignInHistory, history'.wrong = history.wrong, history'.cut = history.cut,
           history.raced => history'.raced,
           RequestTrue(next)', asking[c].pc # "logouts", next.pc \notin {"read", "verify"},
           SecretsMade', CodesSpent',
           \/ next.pc = "logouts"
           \/ /\ account'.password = account.password
              /\ account'.disabled => account.disabled
    PROVE  SignInInv'
PROOF
<1>1. secrets' \in Nat
  BY SignInAssumption
<1>2. /\ asking' \in [Clients -> Request] /\ RequestsTrue'
      /\ asking'[c] = next /\ \A d \in Clients \ {c} : asking'[d].pc = asking[d].pc
  BY <1>1, AllAsk
<1>3. SignInTypes'
  BY <1>2 DEF SignInInv, SignInTypes
<1>4. Guessing' \subseteq Guessing
  BY <1>2 DEF Guessing
<1>5. KeysRemember' /\ GuessesCounted'
  BY <1>4, NoGuess
<1>6. OldSessionsGone'
  BY <1>2 DEF SignInInv, OldSessionsGone
<1> QED
  BY <1>2, <1>3, <1>5, <1>6 DEF SignInInv

\* A code that passes is of a step around now.
LEMMA CodeStep ==
    ASSUME SignInInv, NEW code \in Codes, NEW secret, Verify(secret, code) # NoStep
    PROVE  /\ code[2] \in 0 .. ClockBound + 1 /\ code[2] # 0
           /\ Verify(secret, code) = code[2]
PROOF
<1>1. code[2] \in (clock - 1) .. (clock + 1) /\ Verify(secret, code) = code[2]
  BY DEF Verify
<1>2. clock \in 1 .. ClockBound
  BY DEF SignInInv, SignInTypes
<1> QED
  BY <1>1, <1>2, SignInAssumption DEF NoStep

\* A request arrives, or reads the row, or decides from what it read.
LEMMA ReadsStep ==
    ASSUME SignInInv, NEW c \in Clients,
           \/ Ask(c) \/ CallerAsks(c) \/ SignInRead(c) \/ SignInRefused(c) \/ SignInRight(c)
           \/ ChangeRead(c) \/ ConfirmRead(c) \/ OffRead(c)
    PROVE  SignInInv'
PROOF
<1>1. /\ UNCHANGED <<account, logins, attempts, clock, secrets, history>>
      /\ asking[c].pc # "logouts"
  BY DEF Ask, CallerAsks, SignInRead, SignInRefused, SignInRight, ChangeRead, ConfirmRead, OffRead,
     Asks, UnderWay
<1>2. /\ account \in AccountRow /\ asking[c] \in Request /\ RequestTrue(asking[c])
      /\ secrets \in Nat /\ account.pending <= secrets /\ asked \in 0 .. AskBound /\ 0 <= secrets
  BY SignInAssumption DEF SignInInv, SignInTypes, RequestsTrue, SecretsMade
<1>3. ASSUME NEW pc \in {"try", "change", "confirm", "off"}, Asks(c, pc)
      PROVE  SignInInv'
  <2>1. PICK next : next = [NoRequest EXCEPT !.pc = pc]
    OBVIOUS
  <2>2. next \in Request /\ next.pc = pc /\ next.row.pending = 0
    BY <2>1, NoRequestType DEF Request
  <2>3. RequestTrue(next)
    BY <1>2, <2>2 DEF RequestTrue
  <2>4. asking' = [asking EXCEPT ![c] = next] /\ asked < AskBound /\ asked' = asked + 1
    BY <1>3, <2>1 DEF Asks
  <2>5. asked' \in 0 .. AskBound
    BY <1>2, <2>4, SignInAssumption
  <2> QED
    BY <1>1, <2>2, <2>3, <2>4, <2>5, LookAt
<1>4. ASSUME NEW pc \in {"verify", "changing", "confirming", "turning off"},
             NEW at \in 0 .. ClockBound + 1, Reads(c, pc, at), UNCHANGED asked,
             pc = "verify" => asking[c].pc = "read",
             pc = "confirming" => account.pending # NoSecret
      PROVE  SignInInv'
  <2>1. PICK next : next = [pc |-> pc, row |-> account, step |-> at, stale |-> FALSE]
    OBVIOUS
  <2>2. next \in Request /\ next.pc = pc /\ next.row = account
    BY <1>2, <2>1 DEF Request
  <2>3. RequestTrue(next)
    BY <1>2, <1>4, <2>2 DEF RequestTrue
  <2>4. asking' = [asking EXCEPT ![c] = next] /\ asked' \in 0 .. AskBound
    BY <1>2, <1>4, <2>1 DEF Reads
  <2> QED
    BY <1>1, <1>4, <2>2, <2>3, <2>4, LookAt
<1>5. NoStep \in 0 .. ClockBound + 1
  BY SignInAssumption DEF NoStep
<1>6. CASE Ask(c) \/ CallerAsks(c)
  BY <1>3, <1>6 DEF Ask, CallerAsks
<1>7. CASE SignInRead(c)
  BY <1>4, <1>5, <1>7 DEF SignInRead
<1>8. ASSUME Ends(c), UNCHANGED asked
      PROVE  SignInInv'
  BY <1>1, <1>8, RequestEnds
<1>9. CASE SignInRefused(c)
  BY <1>8, <1>9 DEF SignInRefused
<1>10. CASE ChangeRead(c)
  BY <1>4, <1>5, <1>8, <1>10 DEF ChangeRead
<1>11. CASE ConfirmRead(c)
  <2>1. PICK code \in Codes : IF account.pending # NoSecret /\ Verify(account.pending, code) # NoStep
                              THEN Reads(c, "confirming", code[2])
                              ELSE Ends(c)
    BY <1>11 DEF ConfirmRead
  <2>2. CASE account.pending # NoSecret /\ Verify(account.pending, code) # NoStep
    <3>1. code[2] \in 0 .. ClockBound + 1
      BY <2>2, CodeStep
    <3> QED
      BY <1>4, <1>11, <2>1, <2>2, <3>1 DEF ConfirmRead
  <2> QED
    BY <1>8, <1>11, <2>1, <2>2 DEF ConfirmRead
<1>12. CASE OffRead(c)
  BY <1>4, <1>5, <1>8, <1>12 DEF OffRead
<1>13. CASE SignInRight(c)
  <2>1. asking[c].pc = "verify" /\ ~asking[c].row.disabled /\ asked' \in 0 .. AskBound
    BY <1>2, <1>13 DEF SignInRight
  <2>2. CASE asking[c].row.secret = NoSecret /\ Goes(c, "login")
    <3>1. PICK next : next = [asking[c] EXCEPT !.pc = "login"]
      OBVIOUS
    <3>2. /\ next \in Request /\ next.pc = "login" /\ next.row = asking[c].row
          /\ next.stale = asking[c].stale
      BY <1>2, <3>1 DEF Request
    <3>3. RequestTrue(next)
      BY <1>2, <2>1, <3>2 DEF RequestTrue
    <3>4. asking' = [asking EXCEPT ![c] = next]
      BY <2>2, <3>1 DEF Goes
    <3> QED
      BY <1>1, <2>1, <3>2, <3>3, <3>4, LookAt
  <2>3. CASE /\ asking[c].row.secret # NoSecret
             /\ \E code \in Codes \ {NoCode} :
                   /\ Verify(asking[c].row.secret, code) > asking[c].row.last
                   /\ asking' = [asking EXCEPT ![c] = [@ EXCEPT !.pc = "step", !.step = code[2]]]
    <3>1. PICK code \in Codes :
             /\ Verify(asking[c].row.secret, code) > asking[c].row.last
             /\ asking' = [asking EXCEPT ![c] = [asking[c] EXCEPT !.pc = "step", !.step = code[2]]]
      BY <2>3
    <3>2. asking[c].row.last \in Nat
      <4>1. asking[c].row \in AccountRow
        BY <1>2 DEF Request
      <4>2. asking[c].row.last \in 0 .. ClockBound + 1
        BY <4>1 DEF AccountRow
      <4> QED
        BY <4>2, SignInAssumption
    <3>3. Verify(asking[c].row.secret, code) # NoStep
      BY <3>1, <3>2 DEF NoStep
    <3>4. code[2] \in 0 .. ClockBound + 1 /\ code[2] > asking[c].row.last
      BY <3>1, <3>3, CodeStep
    <3>5. PICK next : next = [asking[c] EXCEPT !.pc = "step", !.step = code[2]]
      OBVIOUS
    <3>6. /\ next \in Request /\ next.pc = "step" /\ next.row = asking[c].row
          /\ next.stale = asking[c].stale /\ next.step = code[2]
      BY <1>2, <3>4, <3>5 DEF Request
    <3>7. RequestTrue(next)
      BY <1>2, <2>1, <2>3, <3>4, <3>6 DEF RequestTrue
    <3>8. asking' = [asking EXCEPT ![c] = next]
      BY <3>1, <3>5
    <3> QED
      BY <1>1, <2>1, <3>6, <3>7, <3>8, LookAt
  <2> QED
    BY <1>13, <2>2, <2>3 DEF SignInRight
<1> QED
  BY <1>6, <1>7, <1>9, <1>10, <1>11, <1>12, <1>13

\* may_try: what it lets through is counted before anything went wrong with it.
LEMMA TryStep ==
    ASSUME SignInInv, NEW c \in Clients, SignInTry(c)
    PROVE  SignInInv'
PROOF
<1>1. /\ UNCHANGED <<account, logins, clock, secrets, asked, history>>
      /\ asking[c].pc = "try" /\ attempts' = Kept
  BY DEF SignInTry
<1>2. /\ clock \in Nat /\ AttemptWindow \in Nat /\ ClockBound \in Nat /\ Attempts \in Nat
      /\ history.wrong \in Seq(1 .. ClockBound) /\ asking[c] \in Request
      /\ attempts \in [SignInKeys -> Seq(1 .. ClockBound)]
      /\ secrets \in Nat /\ 0 <= secrets /\ RequestTrue(asking[c])
  BY SignInAssumption DEF SignInInv, SignInTypes, SignInHistory, RequestsTrue
<1>3. ASSUME NEW key \in SignInKeys
      PROVE  /\ attempts'[key] \in Seq(1 .. ClockBound)
             /\ \/ attempts'[key] = history.wrong
                \/ attempts'[key] = << >> /\ Within(history.wrong) = << >>
  <2>1. /\ attempts[key] \in Seq(1 .. ClockBound)
        /\ attempts'[key] = IF Lapsed(attempts[key]) THEN << >> ELSE attempts[key]
        /\ \/ attempts[key] = history.wrong
           \/ attempts[key] = << >> /\ Within(history.wrong) = << >>
    BY <1>1, <1>2 DEF Kept, SignInInv, KeysRemember
  <2>2. CASE ~Lapsed(attempts[key])
    BY <2>1, <2>2
  <2>3. CASE Lapsed(attempts[key])
    <3>1. attempts[key] # << >> /\ attempts[key] = history.wrong /\ attempts'[key] = << >>
      BY <2>1, <2>3 DEF Lapsed
    <3>2. Aged(history.wrong[Len(history.wrong)], clock, AttemptWindow) /\ history.wrong # << >>
      BY <2>3, <3>1 DEF Lapsed, Last
    <3>3. Within(history.wrong) = << >>
      BY <1>2, <3>2, PopOldAll DEF Within, SignInInv, KeysRemember
    <3> QED
      BY <3>1, <3>3, EmptySeq
  <2> QED
    BY <2>2, <2>3
<1>4. PICK next \in Request :
         /\ asking' = [asking EXCEPT ![c] = next] /\ RequestTrue(next)
         /\ next.pc = "none" \/ (next.pc = "read" /\ \A key \in SignInKeys : MayTry(key))
  <2>1. CASE \A key \in SignInKeys : MayTry(key)
    <3>1. PICK next : next = [asking[c] EXCEPT !.pc = "read"]
      OBVIOUS
    <3>2. next \in Request /\ next.pc = "read" /\ next.row = asking[c].row
      BY <1>2, <3>1 DEF Request
    <3>3. RequestTrue(next)
      BY <1>2, <3>2 DEF RequestTrue
    <3>4. asking' = [asking EXCEPT ![c] = next]
      BY <2>1, <3>1 DEF SignInTry, Goes
    <3> QED
      BY <2>1, <3>2, <3>3, <3>4
  <2>2. CASE ~ \A key \in SignInKeys : MayTry(key)
    <3>1. asking' = [asking EXCEPT ![c] = NoRequest]
      BY <2>2 DEF SignInTry, Ends
    <3>2. RequestTrue(NoRequest)
      BY <1>2, NoRequestType DEF RequestTrue
    <3> QED
      BY <3>1, <3>2, NoRequestType
  <2> QED
    BY <2>1, <2>2
<1>5. /\ asking' \in [Clients -> Request] /\ RequestsTrue'
      /\ asking'[c] = next /\ \A d \in Clients \ {c} : asking'[d] = asking[d]
  BY <1>1, <1>4, OneAsks
<1>6. attempts' \in [SignInKeys -> Seq(1 .. ClockBound)]
  <2>1. attempts' = [key \in SignInKeys |-> attempts'[key]]
    BY <1>1 DEF Kept
  <2> QED
    BY <1>3, <2>1
<1>7. SignInTypes'
  BY <1>1, <1>5, <1>6 DEF SignInInv, SignInTypes
<1>8. Within(history.wrong)' = Within(history.wrong) /\ KeysRemember'
  <2>1. Within(history.wrong)' = Within(history.wrong)
    BY <1>1 DEF Within
  <2> QED
    BY <1>1, <1>3, <2>1 DEF SignInInv, KeysRemember
<1>9. Len(Within(history.wrong)) \in Nat
  BY <1>2, PopOldType DEF Within
<1>10. /\ Cardinality(Guessing') \in Nat /\ Cardinality(Clients) \in Nat /\ Cardinality(Guessing) \in Nat
       /\ Cardinality(Guessing') <= Cardinality(Clients)
  <2>1. IsFiniteSet(Guessing') /\ IsFiniteSet(Guessing) /\ Guessing' \subseteq Clients
    BY SignInAssumption, FS_Subset DEF Guessing
  <2> QED
    BY <2>1, SignInAssumption, FS_Subset, FS_CardinalityType
<1>11. GuessesCounted'
  <2>1. CASE next.pc = "none"
    <3>1. Guessing' = Guessing
      BY <1>1, <1>5, <2>1 DEF Guessing
    <3>2. Cardinality(Guessing)' = Cardinality(Guessing)
      BY <3>1
    <3> QED
      BY <1>8, <3>2 DEF SignInInv, GuessesCounted
  <2>2. CASE next.pc = "read"
    <3>1. PICK key \in SignInKeys : MayTry(key)
      BY <1>4, <2>2, SignInAssumption
    <3>2. Len(attempts'[key]) < Attempts
      BY <1>1, <3>1 DEF MayTry
    <3>3. Len(Within(history.wrong)) <= Len(attempts'[key]) /\ Len(attempts'[key]) \in Nat
      <4>1. CASE attempts'[key] = history.wrong
        BY <1>2, <4>1, PopOldType DEF Within
      <4>2. CASE attempts'[key] = << >> /\ Within(history.wrong) = << >>
        BY <4>2, EmptySeq
      <4> QED
        BY <1>3, <4>1, <4>2
    <3> QED
      BY <1>2, <1>8, <1>9, <1>10, <3>2, <3>3 DEF GuessesCounted
  <2> QED
    BY <1>4, <2>1, <2>2
<1>12. SecretsMade' /\ CodesSpent'
  BY <1>1 DEF SignInInv, SecretsMade, CodesSpent
<1>13. OldSessionsGone'
  BY <1>1, <1>5 DEF SignInInv, OldSessionsGone
<1> QED
  BY <1>5, <1>7, <1>8, <1>11, <1>12, <1>13 DEF SignInInv

\* failed: what went wrong is remembered, by every key.
LEMMA WrongStep ==
    ASSUME SignInInv, NEW c \in Clients, SignInWrong(c)
    PROVE  SignInInv'
PROOF
<1>1. /\ UNCHANGED <<account, logins, clock, secrets, asked>> /\ asking[c].pc = "verify"
      /\ attempts' = Failed /\ asking' = [asking EXCEPT ![c] = NoRequest]
  BY DEF SignInWrong, Ends
<1>2. /\ clock \in Nat /\ AttemptWindow \in Nat /\ ClockBound \in Nat /\ Attempts \in Nat
      /\ history \in SignInHistory /\ history.wrong \in Seq(1 .. ClockBound)
      /\ attempts \in [SignInKeys -> Seq(1 .. ClockBound)] /\ clock \in 1 .. ClockBound
      /\ secrets \in Nat /\ 0 <= secrets
  BY SignInAssumption DEF SignInInv, SignInTypes, SignInHistory
<1>3. PICK rest : rest = Within(history.wrong)
  OBVIOUS
<1>4. PICK wrong : wrong = Append(rest, clock)
  OBVIOUS
<1>5. /\ rest \in Seq(1 .. ClockBound) /\ Len(rest) \in Nat /\ Len(rest) <= Len(history.wrong)
      /\ \A i \in 1 .. Len(rest) : rest[i] = history.wrong[Len(history.wrong) - Len(rest) + i]
  <2>1. PICK old \in Seq(1 .. ClockBound) : old = history.wrong
    BY <1>2
  <2>2. PopOld(old, clock, AttemptWindow) = rest
    BY <1>3, <2>1 DEF Within
  <2>3. /\ rest \in Seq(1 .. ClockBound) /\ Len(rest) \in Nat /\ Len(rest) <= Len(old)
        /\ \A i \in 1 .. Len(rest) : rest[i] = old[Len(old) - Len(rest) + i]
    <3>1. clock \in Nat /\ AttemptWindow \in Nat /\ ClockBound \in Nat
      BY <1>2
    <3>2. /\ PopOld(old, clock, AttemptWindow) \in Seq(1 .. ClockBound)
          /\ Len(PopOld(old, clock, AttemptWindow)) \in Nat
          /\ Len(PopOld(old, clock, AttemptWindow)) <= Len(old)
          /\ \A i \in 1 .. Len(PopOld(old, clock, AttemptWindow)) :
                PopOld(old, clock, AttemptWindow)[i]
                  = old[Len(old) - Len(PopOld(old, clock, AttemptWindow)) + i]
      BY <3>1, PopOldType
    <3> QED
      BY <2>2, <3>2
  <2> QED
    BY <2>1, <2>3
<1>6. /\ wrong \in Seq(1 .. ClockBound) /\ Len(wrong) = Len(rest) + 1 /\ wrong[Len(rest) + 1] = clock
      /\ \A i \in 1 .. Len(rest) : wrong[i] = rest[i]
  BY <1>2, <1>4, <1>5, AppendProperties
<1>7. /\ history' \in SignInHistory /\ history'.wrong = wrong /\ history'.raced = history.raced
      /\ history'.cut = history.cut /\ history'.twice = history.twice /\ history'.used = history.used
      /\ history'.confirmed = history.confirmed
  <2>1. history' = [history EXCEPT !.wrong = wrong]
    BY <1>3, <1>4 DEF SignInWrong
  <2> QED
    BY <1>2, <1>6, <2>1 DEF SignInHistory
<1>8. ASSUME NEW i \in 1 .. Len(rest)
      PROVE  /\ rest[i] <= clock /\ rest[i] \in Nat
             /\ \A j \in 1 .. Len(rest) : i <= j => rest[i] <= rest[j]
  <2> DEFINE gone == Len(history.wrong) - Len(rest)
  <2>1. Len(history.wrong) \in Nat
    BY <1>2
  <2>2. gone \in Nat /\ \A j \in 1 .. Len(rest) : gone + j \in 1 .. Len(history.wrong)
    BY <1>5, <2>1
  <2>3. \A j \in 1 .. Len(rest) : rest[j] = history.wrong[gone + j]
    BY <1>5
  <2>0. \A j \in 1 .. Len(rest) : rest[j] \in Nat
    BY <1>2, <1>5, SeqOfNat, SMTT(30)
  <2> HIDE DEF gone
  <2>4. \A j \in 1 .. Len(rest) : i <= j => gone + i <= gone + j
    BY <1>5, <2>2
  <2>5. /\ \A k \in 1 .. Len(history.wrong) : history.wrong[k] <= clock
        /\ \A k, l \in 1 .. Len(history.wrong) : k <= l => history.wrong[k] <= history.wrong[l]
    BY DEF SignInInv, KeysRemember
  <2>6. rest[i] <= clock /\ rest[i] \in Nat
    BY <2>0, <2>2, <2>3, <2>5
  <2>7. ASSUME NEW j \in 1 .. Len(rest), i <= j
        PROVE  rest[i] <= rest[j]
    <3>1. history.wrong[gone + i] <= history.wrong[gone + j]
      BY <2>2, <2>4, <2>5, <2>7
    <3> QED
      BY <2>3, <3>1
  <2> QED
    BY <2>6, <2>7
<1>9. \A i \in 1 .. Len(wrong) : wrong[i] <= clock
  <2>1. \A i \in 1 .. Len(wrong) : i \in 1 .. Len(rest) \/ i = Len(rest) + 1
    BY <1>5, <1>6
  <2>2. clock <= clock
    BY <1>2
  <2>3. \A i \in 1 .. Len(rest) : rest[i] <= clock
    BY <1>8
  <2> QED
    BY <1>6, <2>1, <2>2, <2>3
<1>10. \A i, j \in 1 .. Len(wrong) : i <= j => wrong[i] <= wrong[j]
  <2> SUFFICES ASSUME NEW i \in 1 .. Len(wrong), NEW j \in 1 .. Len(wrong), i <= j
               PROVE  wrong[i] <= wrong[j]
    OBVIOUS
  <2>1. CASE j = Len(rest) + 1
    BY <1>6, <1>9, <2>1
  <2>2. CASE j # Len(rest) + 1
    <3>1. i \in 1 .. Len(rest) /\ j \in 1 .. Len(rest)
      BY <1>5, <1>6, <2>2
    <3> QED
      BY <1>6, <1>8, <3>1
  <2> QED
    BY <2>1, <2>2
<1>11. ASSUME NEW key \in SignInKeys
       PROVE  attempts'[key] = wrong
  <2>1. attempts'[key] = Append(Within(attempts[key]), clock)
    BY <1>1 DEF Failed
  <2>2. Within(attempts[key]) = rest
    <3>1. CASE attempts[key] = history.wrong
      BY <1>3, <3>1
    <3>2. CASE attempts[key] = << >> /\ Within(history.wrong) = << >>
      BY <1>2, <1>3, <3>2, PopOldNone DEF Within
    <3> QED
      BY <3>1, <3>2 DEF SignInInv, KeysRemember
  <2> QED
    BY <1>4, <2>1, <2>2
<1>12. attempts' \in [SignInKeys -> Seq(1 .. ClockBound)]
  <2>1. attempts' = [key \in SignInKeys |-> attempts'[key]]
    BY <1>1 DEF Failed
  <2> QED
    BY <1>6, <1>11, <2>1
<1>13. KeysRemember'
  BY <1>1, <1>7, <1>9, <1>10, <1>11 DEF KeysRemember
<1>14. RequestTrue(NoRequest)
  BY <1>2, NoRequestType DEF RequestTrue
<1>15. /\ asking' \in [Clients -> Request] /\ RequestsTrue'
       /\ asking'[c] = NoRequest /\ \A d \in Clients \ {c} : asking'[d] = asking[d]
  BY <1>1, <1>14, NoRequestType, OneAsks
<1>16. GuessesCounted'
  <2>1. Guessing' = Guessing \ {c} /\ c \in Guessing /\ IsFiniteSet(Guessing)
    BY <1>1, <1>15, NoRequestType, SignInAssumption, FS_Subset DEF Guessing
  <2>2. /\ Cardinality(Guessing)' = Cardinality(Guessing) - 1 /\ Cardinality(Guessing) \in Nat
        /\ Cardinality(Clients) \in Nat
    BY <2>1, FS_RemoveElement, FS_CardinalityType, SignInAssumption
  <2>3. Within(history.wrong)' = PopOld(wrong, clock, AttemptWindow)
    BY <1>1, <1>7 DEF Within
  <2>4. /\ Len(PopOld(wrong, clock, AttemptWindow)) \in Nat
        /\ Len(PopOld(wrong, clock, AttemptWindow)) <= Len(rest) + 1
    BY <1>2, <1>6, PopOldType
  <2>5. Len(rest) + Cardinality(Guessing) < Attempts + Cardinality(Clients)
    BY <1>3 DEF SignInInv, GuessesCounted
  <2>6. PICK n \in Nat : n = Len(PopOld(wrong, clock, AttemptWindow))
    BY <2>4
  <2>7. n + (Cardinality(Guessing) - 1) < Attempts + Cardinality(Clients)
    BY <1>2, <1>5, <2>2, <2>4, <2>5, <2>6
  <2> QED
    BY <2>2, <2>3, <2>6, <2>7 DEF GuessesCounted
<1>17. SignInTypes'
  BY <1>1, <1>7, <1>12, <1>15 DEF SignInInv, SignInTypes
<1>18. SecretsMade' /\ CodesSpent'
  BY <1>1, <1>7 DEF SignInInv, SecretsMade, CodesSpent
<1>19. OldSessionsGone'
  BY <1>1, <1>7, <1>15 DEF SignInInv, OldSessionsGone
<1> QED
  BY <1>13, <1>15, <1>16, <1>17, <1>18, <1>19 DEF SignInInv

\* A request ends with a new session, with the sessions deleted, or cut short.
LEMMA SessionStep ==
    ASSUME SignInInv, NEW c \in Clients, SignInLogin(c) \/ Logouts(c) \/ Cut(c)
    PROVE  SignInInv'
PROOF
<1>1. /\ UNCHANGED <<account, attempts, clock, secrets, asked>>
      /\ asking' = [asking EXCEPT ![c] = NoRequest]
  BY DEF SignInLogin, Logouts, Cut, Ends
<1>2. /\ history \in SignInHistory /\ asking[c] \in Request /\ asking[c].stale \in BOOLEAN
      /\ asking[c].row.password \in Passwords /\ history.raced \in BOOLEAN
      /\ 0 <= secrets /\ clock + LoginLifetime \in Nat /\ RequestTrue(asking[c])
      /\ logins \subseteq [password : Passwords, expires : Nat]
  <2>1. asking[c] \in Request /\ asking[c].stale \in BOOLEAN /\ asking[c].row \in AccountRow
    BY DEF SignInInv, SignInTypes, Request
  <2>2. asking[c].row.password \in Passwords
    BY <2>1 DEF AccountRow
  <2>3. clock + LoginLifetime \in Nat /\ 0 <= secrets
    BY SignInAssumption DEF SignInInv, SignInTypes
  <2> QED
    BY <2>1, <2>2, <2>3 DEF SignInInv, SignInTypes, SignInHistory, RequestsTrue
<1>3. RequestTrue(NoRequest)
  BY <1>2, NoRequestType DEF RequestTrue
<1>4. /\ asking' \in [Clients -> Request] /\ RequestsTrue'
      /\ asking'[c] = NoRequest /\ \A d \in Clients \ {c} : asking'[d] = asking[d]
  BY <1>1, <1>3, NoRequestType, OneAsks
<1>5. Guessing' \subseteq Guessing
  BY <1>4, NoRequestType DEF Guessing
<1>6. ASSUME history' \in SignInHistory, history'.wrong = history.wrong,
             history'.twice = history.twice, history'.used = history.used,
             history'.confirmed = history.confirmed, history.raced => history'.raced,
             logins' \subseteq [password : Passwords, expires : Nat], OldSessionsGone'
      PROVE  SignInInv'
  <2>1. KeysRemember' /\ GuessesCounted'
    BY <1>1, <1>5, <1>6, NoGuess
  <2>2. SecretsMade' /\ CodesSpent'
    BY <1>1, <1>2, <1>6 DEF SignInInv, SecretsMade, CodesSpent
  <2>3. SignInTypes'
    BY <1>1, <1>4, <1>6 DEF SignInInv, SignInTypes
  <2> QED
    BY <1>4, <1>6, <2>1, <2>2, <2>3 DEF SignInInv
<1>7. CASE SignInLogin(c)
  <2>1. PICK l : l = [password |-> asking[c].row.password, expires |-> clock + LoginLifetime]
    OBVIOUS
  <2>2. /\ l \in [password : Passwords, expires : Nat] /\ l.password = asking[c].row.password
        /\ logins' = logins \cup {l} /\ asking[c].pc = "login"
    BY <1>2, <1>7, <2>1 DEF SignInLogin
  <2>3. PICK raced \in BOOLEAN : raced = (history.raced \/ asking[c].stale)
    OBVIOUS
  <2>4. history' = [history EXCEPT !.raced = raced]
    BY <1>7, <2>3 DEF SignInLogin, Raced
  <2>5. /\ history' \in SignInHistory /\ history'.wrong = history.wrong /\ history'.raced = raced
        /\ history'.twice = history.twice /\ history'.used = history.used
        /\ history'.confirmed = history.confirmed /\ history'.cut = history.cut
    BY <1>2, <2>4 DEF SignInHistory
  <2>6. ~raced => ~history.raced /\ l.password = account.password /\ ~account.disabled
    BY <1>2, <2>2, <2>3 DEF RequestTrue
  <2>7. OldSessionsGone'
    BY <1>1, <1>4, <2>2, <2>5, <2>6 DEF SignInInv, OldSessionsGone
  <2> QED
    BY <1>2, <1>6, <2>2, <2>3, <2>5, <2>7
<1>8. CASE Logouts(c)
  <2>1. logins' = {} /\ history' = history
    BY <1>8 DEF Logouts
  <2> QED
    BY <1>2, <1>6, <2>1 DEF OldSessionsGone
<1>9. CASE Cut(c)
  <2>1. PICK cut \in BOOLEAN : cut = (history.cut \/ asking[c].pc = "logouts")
    OBVIOUS
  <2>2. history' = [history EXCEPT !.cut = cut] /\ logins' = logins
    BY <1>9, <2>1 DEF Cut
  <2>3. /\ history' \in SignInHistory /\ history'.wrong = history.wrong
        /\ history'.raced = history.raced
        /\ history'.twice = history.twice /\ history'.used = history.used
        /\ history'.confirmed = history.confirmed /\ history'.cut = cut
    BY <1>2, <2>2 DEF SignInHistory
  <2>4. ~cut => ~history.cut /\ asking[c].pc # "logouts"
    BY <2>1
  <2>5. OldSessionsGone'
    BY <1>1, <1>4, <2>2, <2>3, <2>4 DEF SignInInv, OldSessionsGone
  <2> QED
    BY <1>2, <1>6, <2>2, <2>3, <2>5
<1> QED
  BY <1>7, <1>8, <1>9

\* Nobody asks: a sign-out, the sweep, the clock.
LEMMA AloneStep ==
    ASSUME SignInInv, SignOut \/ Sweep \/ SignInTick
    PROVE  SignInInv'
PROOF
<1>1. /\ UNCHANGED <<account, attempts, asking, secrets, asked, history>>
      /\ logins' \subseteq logins
  BY DEF SignOut, SignedOut, Sweep, SignInTick
<1>2. /\ clock \in 1 .. ClockBound /\ clock' \in 1 .. ClockBound /\ clock <= clock'
      /\ clock = clock' \/ UNCHANGED logins
  BY SignInAssumption DEF SignOut, Sweep, SignInTick, SignInInv, SignInTypes
<1>3. SignInTypes'
  BY <1>1, <1>2 DEF SignInInv, SignInTypes
<1>4. RequestsTrue' /\ SecretsMade' /\ CodesSpent' /\ OldSessionsGone'
  BY <1>1 DEF SignInInv, RequestsTrue, RequestTrue, SecretsMade, CodesSpent, OldSessionsGone
<1>5. /\ clock \in Nat /\ clock' \in Nat /\ AttemptWindow \in Nat /\ ClockBound \in Nat
      /\ history.wrong \in Seq(1 .. ClockBound)
  BY <1>2, SignInAssumption DEF SignInInv, SignInTypes, SignInHistory
<1>6. PICK n \in Nat, w \in Seq(1 .. ClockBound) : n = clock' /\ w = history.wrong
  BY <1>5
<1>7. /\ Within(history.wrong)' = PopOld(w, n, AttemptWindow)
      /\ Within(history.wrong) = PopOld(w, clock, AttemptWindow)
  BY <1>1, <1>6 DEF Within
<1>8. /\ Len(PopOld(w, n, AttemptWindow)) <= Len(PopOld(w, clock, AttemptWindow))
      /\ Len(PopOld(w, n, AttemptWindow)) \in Nat /\ Len(PopOld(w, clock, AttemptWindow)) \in Nat
      /\ PopOld(w, n, AttemptWindow) \in Seq(1 .. ClockBound)
  BY <1>2, <1>5, <1>6, PopOldFewer, PopOldType
<1>9. PopOld(w, clock, AttemptWindow) = << >> => PopOld(w, n, AttemptWindow) = << >>
  BY <1>8
<1>10. KeysRemember'
  <2>1. \A i \in 1 .. Len(history.wrong) : history.wrong[i] <= clock'
    <3>1. \A i \in 1 .. Len(history.wrong) : history.wrong[i] <= clock /\ history.wrong[i] \in 1 .. ClockBound
      BY <1>5 DEF SignInInv, KeysRemember
    <3> QED
      BY <1>2, <1>5, <3>1
  <2> QED
    BY <1>1, <1>7, <1>9, <2>1 DEF SignInInv, KeysRemember
<1>11. GuessesCounted'
  <2>1. Guessing' = Guessing
    BY <1>1 DEF Guessing
  <2>2. Cardinality(Guessing) \in Nat /\ Cardinality(Clients) \in Nat /\ Attempts \in Nat
    BY SignInAssumption, FS_Subset, FS_CardinalityType DEF Guessing
  <2>3. Cardinality(Guessing)' = Cardinality(Guessing)
    BY <2>1
  <2> QED
    BY <1>7, <1>8, <2>2, <2>3 DEF SignInInv, GuessesCounted
<1> QED
  BY <1>3, <1>4, <1>10, <1>11 DEF SignInInv

\* The step a code was good for is written down; the code is spent.
LEMMA StepWritten ==
    ASSUME SignInInv, NEW c \in Clients, SignInStep(c)
    PROVE  SignInInv'
PROOF
<1>1. /\ account \in AccountRow /\ asking[c] \in Request /\ RequestTrue(asking[c])
      /\ history \in SignInHistory /\ history.raced \in BOOLEAN /\ history.twice \in BOOLEAN
      /\ secrets \in Nat /\ secrets \in 0 .. SecretBound /\ asked \in 0 .. AskBound
  BY SignInAssumption DEF SignInInv, SignInTypes, SignInHistory, RequestsTrue
<1>2. /\ asking[c].step \in 0 .. ClockBound + 1 /\ asking[c].stale \in BOOLEAN
      /\ asking[c].row \in AccountRow
  BY <1>1 DEF Request
<1>3. asking[c].row.secret \in Nat /\ asking[c].step \in Nat /\ asking[c].row.last \in Nat
  BY <1>2, SignInAssumption DEF AccountRow
<1>4. /\ asking[c].pc = "step" /\ UNCHANGED <<logins, attempts, clock, secrets, asked>>
      /\ account' = [account EXCEPT !.last = asking[c].step]
  BY DEF SignInStep, Writes
<1>5. PICK next : next = [asking[c] EXCEPT !.pc = "login"]
  OBVIOUS
<1>6. /\ next \in Request /\ next.pc = "login" /\ next.row = asking[c].row
      /\ next.stale = asking[c].stale
  BY <1>1, <1>5 DEF Request
<1>7. asking' = [d \in Clients |-> IF d = c THEN next ELSE [asking[d] EXCEPT !.stale = d \in HoldsRow]]
  BY <1>5 DEF SignInStep, Writes
<1>8. /\ account' \in AccountRow /\ account'.last = asking[c].step
      /\ account'.password = account.password /\ account'.disabled = account.disabled
      /\ account'.secret = account.secret /\ account'.pending = account.pending
  BY <1>1, <1>2, <1>4 DEF AccountRow
<1>9. PICK code \in Nat \X Nat : /\ code = <<asking[c].row.secret, asking[c].step>>
                                 /\ code[1] = asking[c].row.secret /\ code[2] = asking[c].step
  <2>1. PICK s \in Nat, at \in Nat : s = asking[c].row.secret /\ at = asking[c].step
    BY <1>3
  <2>2. <<s, at>> \in Nat \X Nat /\ <<s, at>>[1] = s /\ <<s, at>>[2] = at
    OBVIOUS
  <2> QED
    BY <2>1, <2>2
<1>10. PICK raced \in BOOLEAN, twice \in BOOLEAN :
          raced = (history.raced \/ asking[c].stale) /\ twice = (history.twice \/ code \in history.used)
  OBVIOUS
<1>11. PICK used \in SUBSET (Nat \X Nat) : used = history.used \cup {code}
  BY <1>1 DEF SignInHistory
<1>12. history' = [history EXCEPT !.raced = raced, !.used = used, !.twice = twice]
  BY <1>9, <1>10, <1>11 DEF SignInStep, Raced
<1>13. /\ history' \in SignInHistory /\ history'.wrong = history.wrong /\ history'.cut = history.cut
       /\ history'.raced = raced /\ history'.used = used /\ history'.twice = twice
       /\ history'.confirmed = history.confirmed
  BY <1>1, <1>12 DEF SignInHistory
<1>14. ~raced => /\ ~history.raced /\ asking[c].row = account
                 /\ ~account.disabled /\ account.secret # NoSecret /\ asking[c].step > account.last
  BY <1>1, <1>4, <1>10 DEF RequestTrue
<1>15. asking[c].row.pending <= secrets'
  BY <1>1, <1>4 DEF RequestTrue
<1>16. ~next.stale => next.row.password = account'.password /\ ~account'.disabled
  BY <1>1, <1>4, <1>6, <1>8 DEF RequestTrue
<1>17. RequestTrue(next)'
  BY <1>6, <1>15, <1>16 DEF RequestTrue
<1>18. SecretsMade'
  BY <1>4, <1>8, <1>13 DEF SignInInv, SecretsMade
<1>19. CodesSpent'
  <2> SUFFICES ASSUME ~raced
               PROVE  /\ ~twice
                      /\ account.secret # NoSecret => account.secret \in history.confirmed
                      /\ account.pending # NoSecret => account.pending \notin history.confirmed
                      /\ \A u \in used : u[1] \in history.confirmed
                      /\ \A u \in used : u[1] = account.secret => u[2] <= asking[c].step
    BY <1>8, <1>13 DEF CodesSpent
  <2>1. /\ ~history.twice /\ account.secret \in history.confirmed
        /\ account.pending # NoSecret => account.pending \notin history.confirmed
        /\ \A u \in history.used : u[1] \in history.confirmed
        /\ \A u \in history.used : u[1] = account.secret => u[2] <= account.last
    BY <1>14 DEF SignInInv, CodesSpent
  <2>2. code[1] = account.secret /\ code[2] > account.last /\ account.last \in Nat /\ code[2] \in Nat
    BY <1>3, <1>9, <1>14
  <2>3. code \notin history.used
    BY <2>1, <2>2
  <2>4. ASSUME NEW u \in history.used, u[1] = account.secret
        PROVE  u[2] <= asking[c].step
    <3>1. u[2] \in Nat /\ u[2] <= account.last
      BY <1>1, <2>1, <2>4 DEF SignInHistory
    <3> QED
      BY <1>9, <2>2, <3>1
  <2>5. asking[c].step <= asking[c].step
    BY <1>3
  <2> QED
    BY <1>9, <1>10, <1>11, <2>1, <2>2, <2>3, <2>4, <2>5
<1>20. secrets <= secrets' /\ secrets' \in 0 .. SecretBound /\ asked' \in 0 .. AskBound
  BY <1>1, <1>4
<1> QED
  BY <1>4, <1>6, <1>7, <1>8, <1>10, <1>13, <1>17, <1>18, <1>19, <1>20, RowWritten

\* change_password and totp_disable write, and what a request that raced leaves.
LEMMA ChangeWritten ==
    ASSUME SignInInv, NEW c \in Clients, ChangeWrite(c) \/ OffWrite(c)
    PROVE  SignInInv'
PROOF
<1>1. /\ account \in AccountRow /\ asking[c] \in Request /\ RequestTrue(asking[c])
      /\ history \in SignInHistory /\ history.raced \in BOOLEAN
      /\ secrets \in Nat /\ secrets \in 0 .. SecretBound /\ asked \in 0 .. AskBound /\ 0 <= secrets
  BY SignInAssumption DEF SignInInv, SignInTypes, SignInHistory, RequestsTrue
<1>2. /\ asking[c].pc # "logouts" /\ UNCHANGED <<logins, attempts, clock, secrets, asked>>
      /\ history' = [history EXCEPT !.raced = history.raced \/ asking[c].stale]
  BY DEF ChangeWrite, OffWrite, Raced
<1>3. PICK raced \in BOOLEAN : raced = (history.raced \/ asking[c].stale)
  OBVIOUS
<1>4. /\ history' \in SignInHistory /\ history'.wrong = history.wrong /\ history'.cut = history.cut
      /\ history'.raced = raced /\ history'.used = history.used /\ history'.twice = history.twice
      /\ history'.confirmed = history.confirmed
  BY <1>1, <1>2, <1>3 DEF SignInHistory
<1>5. secrets <= secrets' /\ secrets' \in 0 .. SecretBound /\ asked' \in 0 .. AskBound
  BY <1>1, <1>2
<1>6. CASE ChangeWrite(c)
  <2>1. PICK new \in Passwords :
           Writes(c, [account EXCEPT !.password = new], [asking[c] EXCEPT !.pc = "logouts", !.stale = FALSE])
    BY <1>6 DEF ChangeWrite
  <2>2. PICK next : next = [asking[c] EXCEPT !.pc = "logouts", !.stale = FALSE]
    OBVIOUS
  <2>3. next \in Request /\ next.pc = "logouts" /\ next.row = asking[c].row
    BY <1>1, <2>2 DEF Request
  <2>4. /\ account' = [account EXCEPT !.password = new]
        /\ asking' = [d \in Clients |-> IF d = c THEN next ELSE [asking[d] EXCEPT !.stale = d \in HoldsRow]]
    BY <2>1, <2>2 DEF Writes
  <2>5. /\ account' \in AccountRow /\ account'.secret = account.secret
        /\ account'.pending = account.pending /\ account'.last = account.last
    BY <1>1, <2>4 DEF AccountRow
  <2>6. RequestTrue(next)'
    BY <1>1, <1>2, <2>3 DEF RequestTrue
  <2>7. SecretsMade' /\ CodesSpent'
    BY <1>2, <1>3, <1>4, <2>5 DEF SignInInv, SecretsMade, CodesSpent
  <2> QED
    BY <1>2, <1>3, <1>4, <1>5, <2>3, <2>4, <2>5, <2>6, <2>7, RowWritten
<1>7. CASE OffWrite(c)
  <2>1. /\ account' = [account EXCEPT !.secret = NoSecret, !.last = NoStep]
        /\ asking' = [d \in Clients |-> IF d = c THEN NoRequest
                                        ELSE [asking[d] EXCEPT !.stale = d \in HoldsRow]]
    BY <1>7 DEF OffWrite, Writes
  <2>2. NoSecret \in 0 .. SecretBound /\ NoStep \in 0 .. ClockBound + 1
    BY SignInAssumption DEF NoSecret, NoStep
  <2>3. /\ account' \in AccountRow /\ account'.secret = NoSecret
        /\ account'.pending = account.pending /\ account'.password = account.password
        /\ account'.disabled = account.disabled
    BY <1>1, <2>1, <2>2 DEF AccountRow
  <2>4. RequestTrue(NoRequest)'
    BY <1>1, <1>2, NoRequestType DEF RequestTrue
  <2>5. SecretsMade' /\ CodesSpent'
    BY <1>2, <1>3, <1>4, <2>3 DEF SignInInv, SecretsMade, CodesSpent
  <2> QED
    BY <1>2, <1>3, <1>4, <1>5, <2>1, <2>3, <2>4, <2>5, NoRequestType, RowWritten
<1> QED
  BY <1>6, <1>7

\* A new secret, and an administrator's disabling.
LEMMA OthersWrite ==
    ASSUME SignInInv, NEW c \in Clients, TotpBegin(c) \/ SetDisabled(c)
    PROVE  SignInInv'
PROOF
<1>1. /\ account \in AccountRow /\ history \in SignInHistory /\ account.pending \in Nat
      /\ secrets \in Nat /\ secrets \in 0 .. SecretBound /\ asked \in 0 .. AskBound /\ 0 <= secrets
      /\ asking[c].pc # "logouts"
  BY SignInAssumption DEF SignInInv, SignInTypes, AccountRow, TotpBegin, SetDisabled, UnderWay
<1>2. UNCHANGED <<logins, attempts, clock, history>>
  BY DEF TotpBegin, SetDisabled
<1>3. CASE TotpBegin(c)
  <2>1. /\ account' = [account EXCEPT !.pending = secrets + 1] /\ secrets < SecretBound
        /\ secrets' = secrets + 1 /\ asked' = asked
        /\ asking' = [d \in Clients |-> IF d = c THEN NoRequest
                                        ELSE [asking[d] EXCEPT !.stale = d \in HoldsRow]]
    BY <1>3 DEF TotpBegin, Writes
  <2>2. secrets + 1 \in 0 .. SecretBound /\ secrets <= secrets' /\ 0 <= secrets'
    BY <1>1, <2>1, SignInAssumption
  <2>3. /\ account' \in AccountRow /\ account'.pending = secrets + 1
        /\ account'.secret = account.secret /\ account'.last = account.last
        /\ account'.password = account.password /\ account'.disabled = account.disabled
    BY <1>1, <2>1, <2>2 DEF AccountRow
  <2>4. RequestTrue(NoRequest)'
    BY <2>2, NoRequestType DEF RequestTrue
  <2>5. \A s \in history.confirmed : s \in Nat /\ s <= secrets
    BY <1>1 DEF SignInInv, SecretsMade, SignInHistory
  <2>6. /\ secrets + 1 \notin history.confirmed /\ secrets + 1 <= secrets'
        /\ \A s \in history.confirmed : s <= secrets'
    BY <1>1, <2>1, <2>5
  <2>7. SecretsMade' /\ CodesSpent'
    BY <1>2, <2>3, <2>6 DEF SignInInv, SecretsMade, CodesSpent
  <2> QED
    BY <1>1, <1>2, <2>1, <2>2, <2>3, <2>4, <2>7, NoRequestType, RowWritten
<1>4. ASSUME NEW disabled \in BOOLEAN, NEW next \in Request, next.row.pending = 0,
             next.pc = (IF disabled THEN "logouts" ELSE "none"),
             Writes(c, [account EXCEPT !.disabled = disabled], next),
             UNCHANGED secrets, asked' \in 0 .. AskBound
      PROVE  SignInInv'
  <2>1. /\ account' = [account EXCEPT !.disabled = disabled]
        /\ asking' = [d \in Clients |-> IF d = c THEN next ELSE [asking[d] EXCEPT !.stale = d \in HoldsRow]]
    BY <1>4 DEF Writes
  <2>2. /\ account' \in AccountRow /\ account'.secret = account.secret
        /\ account'.pending = account.pending /\ account'.last = account.last
        /\ account'.password = account.password /\ account'.disabled = disabled
    BY <1>1, <2>1 DEF AccountRow
  <2>3. RequestTrue(next)' /\ secrets <= secrets' /\ secrets' \in 0 .. SecretBound
    BY <1>1, <1>4 DEF RequestTrue
  <2>4. SecretsMade' /\ CodesSpent'
    BY <1>2, <1>4, <2>2 DEF SignInInv, SecretsMade, CodesSpent
  <2> QED
    BY <1>1, <1>2, <1>4, <2>1, <2>2, <2>3, <2>4, RowWritten
<1>5. CASE SetDisabled(c)
  <2>1. asked' \in 0 .. AskBound /\ UNCHANGED secrets
    <3>1. asked < AskBound /\ asked' = asked + 1 /\ UNCHANGED secrets
      BY <1>5 DEF SetDisabled
    <3> QED
      BY <1>1, <3>1, SignInAssumption
  <2>2. PICK next : next = [NoRequest EXCEPT !.pc = "logouts"]
    OBVIOUS
  <2>3. next \in Request /\ next.pc = "logouts" /\ next.row.pending = 0
    BY <2>2, NoRequestType DEF Request
  <2>4. CASE Writes(c, [account EXCEPT !.disabled = FALSE], NoRequest)
    BY <1>4, <2>1, <2>4, NoRequestType
  <2>5. CASE Writes(c, [account EXCEPT !.disabled = TRUE], [NoRequest EXCEPT !.pc = "logouts"])
    BY <1>4, <2>1, <2>2, <2>3, <2>5
  <2> QED
    BY <1>5, <2>4, <2>5 DEF SetDisabled
<1> QED
  BY <1>3, <1>5

\* totp_confirm puts in force what is pending: the secret it checked, unless it raced.
LEMMA ConfirmWritten ==
    ASSUME SignInInv, NEW c \in Clients, ConfirmWrite(c)
    PROVE  SignInInv'
PROOF
<1>1. /\ account \in AccountRow /\ asking[c] \in Request /\ RequestTrue(asking[c])
      /\ history \in SignInHistory /\ history.raced \in BOOLEAN
      /\ secrets \in Nat /\ secrets \in 0 .. SecretBound /\ asked \in 0 .. AskBound /\ 0 <= secrets
  BY SignInAssumption DEF SignInInv, SignInTypes, SignInHistory, RequestsTrue
<1>2. /\ asking[c].step \in 0 .. ClockBound + 1 /\ asking[c].stale \in BOOLEAN
      /\ asking[c].row \in AccountRow
  BY <1>1 DEF Request
<1>3. asking[c].row.pending \in Nat /\ asking[c].step \in Nat /\ asking[c].row.pending <= secrets
  BY <1>1, <1>2, SignInAssumption DEF AccountRow, RequestTrue
<1>4. /\ asking[c].pc = "confirming" /\ UNCHANGED <<logins, attempts, clock, secrets, asked>>
      /\ account' = [account EXCEPT !.secret = account.pending, !.pending = NoSecret,
                                    !.last = asking[c].step]
      /\ asking' = [d \in Clients |-> IF d = c THEN NoRequest
                                      ELSE [asking[d] EXCEPT !.stale = d \in HoldsRow]]
  BY DEF ConfirmWrite, Writes
<1>5. /\ account' \in AccountRow /\ account'.secret = account.pending /\ account'.pending = NoSecret
      /\ account'.last = asking[c].step
      /\ account'.password = account.password /\ account'.disabled = account.disabled
  <2>1. NoSecret \in 0 .. SecretBound
    BY SignInAssumption DEF NoSecret
  <2> QED
    BY <1>1, <1>2, <1>4, <2>1 DEF AccountRow
<1>6. PICK checked \in Nat, code \in Nat \X Nat :
         /\ checked = asking[c].row.pending /\ code = <<checked, asking[c].step>>
         /\ code[1] = checked /\ code[2] = asking[c].step
  <2>1. PICK s \in Nat, at \in Nat : s = asking[c].row.pending /\ at = asking[c].step
    BY <1>3
  <2>2. <<s, at>> \in Nat \X Nat /\ <<s, at>>[1] = s /\ <<s, at>>[2] = at
    OBVIOUS
  <2> QED
    BY <2>1, <2>2
<1>7. PICK raced \in BOOLEAN : raced = (history.raced \/ asking[c].stale)
  OBVIOUS
<1>8. PICK used \in SUBSET (Nat \X Nat), confirmed \in SUBSET Nat :
         used = history.used \cup {code} /\ confirmed = history.confirmed \cup {checked}
  BY <1>1 DEF SignInHistory
<1>9. history' = [history EXCEPT !.raced = raced, !.confirmed = confirmed, !.used = used]
  BY <1>6, <1>7, <1>8 DEF ConfirmWrite, Raced
<1>10. /\ history' \in SignInHistory /\ history'.wrong = history.wrong /\ history'.cut = history.cut
       /\ history'.raced = raced /\ history'.used = used /\ history'.twice = history.twice
       /\ history'.confirmed = confirmed
  BY <1>1, <1>9 DEF SignInHistory
<1>11. ~raced => /\ ~history.raced /\ checked = account.pending /\ account.pending # NoSecret
  BY <1>1, <1>4, <1>6, <1>7 DEF RequestTrue
<1>12. RequestTrue(NoRequest)'
  BY <1>1, <1>4, NoRequestType DEF RequestTrue
<1>13. SecretsMade'
  BY <1>1, <1>3, <1>4, <1>5, <1>6, <1>8, <1>10 DEF SignInInv, SecretsMade, NoSecret
<1>14. CodesSpent'
  <2> SUFFICES ASSUME ~raced
               PROVE  /\ ~history.twice /\ account.pending \in confirmed
                      /\ \A u \in used : u[1] \in confirmed
                      /\ \A u \in used : u[1] = account.pending => u[2] <= asking[c].step
    BY <1>5, <1>10 DEF CodesSpent
  <2>1. /\ ~history.twice /\ account.pending \notin history.confirmed
        /\ \A u \in history.used : u[1] \in history.confirmed
    BY <1>11 DEF SignInInv, CodesSpent
  <2>2. asking[c].step <= asking[c].step
    BY <1>3
  <2> QED
    BY <1>6, <1>8, <1>11, <2>1, <2>2
<1>15. secrets <= secrets' /\ secrets' \in 0 .. SecretBound /\ asked' \in 0 .. AskBound
  BY <1>1, <1>4
<1> QED
  BY <1>4, <1>5, <1>7, <1>10, <1>12, <1>13, <1>14, <1>15, NoRequestType, RowWritten

LEMMA SignInPreserved ==
    ASSUME SignInInv, [SignInNext]_signInVars
    PROVE  SignInInv'
PROOF
<1>1. ASSUME NEW c \in Clients, SignInStepOf(c)
      PROVE  SignInInv'
  BY <1>1, TryStep, ReadsStep, WrongStep, StepWritten, SessionStep, ChangeWritten, ConfirmWritten
  DEF SignInStepOf, Login, ChangePassword, TotpConfirm, TotpDisable
<1>2. CASE UNCHANGED signInVars
  BY <1>2 DEF signInVars, SignInInv, SignInTypes, RequestsTrue, RequestTrue, SecretsMade, CodesSpent,
     OldSessionsGone, KeysRemember, GuessesCounted, Guessing, Within
<1> QED
  BY <1>1, <1>2, ReadsStep, OthersWrite, SessionStep, AloneStep DEF SignInNext

\* The guesses within a window are limited however sign-ins overlap, a code works
\* once, the secret in force was confirmed and no session outlives its password,
\* but for the races the properties name (accounts.rs: sign_in, may_try, failed,
\* totp_confirm, totp_disable, change_password).
THEOREM SignInAlwaysSafe == SignInSpec => []SignInSafe
PROOF
<1>1. SignInInv /\ [SignInNext]_signInVars => SignInInv'
  BY SignInPreserved
<1>2. SignInSpec => []SignInInv
  BY <1>1, SignInBegins, PTL DEF SignInSpec
<1>3. ASSUME SignInInv
      PROVE  SignInSafe
  <2>1. GuessesLimited
    <3>1. /\ clock \in Nat /\ AttemptWindow \in Nat /\ ClockBound \in Nat
          /\ history.wrong \in Seq(1 .. ClockBound)
      BY <1>3, SignInAssumption DEF SignInInv, SignInTypes, SignInHistory
    <3>2. Len(Within(history.wrong)) \in Nat
      BY <3>1, PopOldType DEF Within
    <3>3. Cardinality(Guessing) \in Nat /\ Cardinality(Clients) \in Nat
      BY SignInAssumption, FS_Subset, FS_CardinalityType DEF Guessing
    <3> QED
      BY <1>3, <3>2, <3>3, SignInAssumption DEF SignInInv, GuessesCounted, GuessesLimited
  <2>2. CodeOnceUnlessRaced /\ InForceConfirmed
    BY <1>3 DEF SignInInv, CodesSpent, CodeOnceUnlessRaced, InForceConfirmed
  <2>3. SignInTypeOK
    <3>1. \A c \in Clients : asking[c] \in Request
      BY <1>3 DEF SignInInv, SignInTypes
    <3>2. \A c \in Clients : asking[c].step \in 0 .. (ClockBound + 1) /\ asking[c].stale \in BOOLEAN
      BY <3>1 DEF Request
    <3> QED
      BY <1>3, <3>2 DEF SignInInv, SignInTypes, SignInTypeOK, AccountRow
  <2> QED
    BY <1>3, <2>1, <2>2, <2>3 DEF SignInInv, SignInSafe
<1> QED
  BY <1>2, <1>3, PTL

\* The sweep ends no session that was honoured (housekeeping.rs, sweep).
THEOREM SweepAlwaysHarmless == SignInSpec => SweepHarmless
PROOF
<1>1. ASSUME SignInTypes
      PROVE  Sweep => Honoured' = Honoured
  <2> SUFFICES ASSUME Sweep
               PROVE  Honoured' = Honoured
    OBVIOUS
  <2>1. /\ logins' = {l \in logins : l.expires >= clock} /\ UNCHANGED <<account, clock>>
    BY DEF Sweep
  <2>2. \A l \in logins : l.expires \in Nat
    BY <1>1 DEF SignInTypes
  <2>3. clock \in Nat
    BY <1>1, SignInAssumption DEF SignInTypes
  <2>4. \A l \in logins : l.expires > clock => l.expires >= clock
    BY <2>2, <2>3
  <2> QED
    BY <2>1, <2>4 DEF Honoured
<1>2. SignInInv /\ [SignInNext]_signInVars => SignInInv'
  BY SignInPreserved
<1>3. SignInInv => [Sweep => Honoured' = Honoured]_signInVars
  BY <1>1 DEF SignInInv
<1> QED
  BY <1>2, <1>3, SignInBegins, PTL DEF SignInSpec, SweepHarmless

-----------------------------------------------------------------------------
(* The parts side by side: a behaviour of the server is one of each part. *)

LEMMA ServerIsItsParts ==
    ServerSpec => /\ SignInSpec /\ UsersSpec /\ FleetSpec
                  /\ ReleasesSpec /\ TunnelSpec /\ AttemptsSpec
                  /\ CertSpec /\ FolderSpec /\ KnownSpec
PROOF
<1>1. ServerInit => /\ SignInInit /\ UsersInit /\ FleetInit
                    /\ ReleasesInit /\ TunnelInit /\ AttemptsInit
                    /\ CertInit /\ FolderInit /\ KnownInit
  BY DEF ServerInit
<1>2. [ServerNext]_serverVars => [ReleasesNext]_releaseVars
  BY DEF ServerNext, Others, serverVars
<1>3. [ServerNext]_serverVars => [TunnelNext]_tunnelVars
  BY DEF ServerNext, Others, serverVars
<1>4. [ServerNext]_serverVars => [AttemptsNext]_attemptVars
  BY DEF ServerNext, Others, serverVars
<1>5. [ServerNext]_serverVars => [SignInNext]_signInVars
  BY DEF ServerNext, Others, serverVars
<1>6. [ServerNext]_serverVars => [UsersNext]_usersVars
  BY DEF ServerNext, Others, serverVars
<1>7. [ServerNext]_serverVars => [FleetNext]_fleetVars
  BY DEF ServerNext, Others, serverVars
<1>8. [ServerNext]_serverVars => [CertNext]_certVars
  BY DEF ServerNext, Others, serverVars
<1>9. [ServerNext]_serverVars => [FolderNext]_folderVars
  BY DEF ServerNext, Others, serverVars
<1>10. [ServerNext]_serverVars => [KnownNext]_knownVars
  BY DEF ServerNext, Others, serverVars
<1> QED
  BY <1>1, <1>2, <1>3, <1>4, <1>5, <1>6, <1>7, <1>8, <1>9, <1>10, PTL
  DEF ServerSpec, SignInSpec, UsersSpec, FleetSpec, ReleasesSpec, TunnelSpec, AttemptsSpec,
      CertSpec, FolderSpec, KnownSpec

\* The relay passes no session more than its ceiling and no viewer another's
\* packets, and no address more attempts than the window allows, whatever else
\* the server does (rendezvous.rs: Ceiling, tunnel, attempt).
THEOREM RelayAlwaysSafe == ServerSpec => []RelaySafe
PROOF BY ServerIsItsParts, TunnelAlwaysSafe, WindowAlwaysHolds, PTL DEF RelaySafe

\* What identifies the server and the devices, whatever crashes, overlaps or
\* fails (main.rs, backup.rs, https.rs, webtransport.rs; transport/src/lib.rs;
\* viewer/src/known.rs).
THEOREM KeysAlwaysSafe == ServerSpec => []KeysSafe
PROOF BY ServerIsItsParts, FolderAlwaysSafe, CertificateAlwaysGood, PinsAlwaysHold, PTL DEF KeysSafe

\* The accounts, the fleet and the releases, as parts of the server (api.rs;
\* accounts.rs, devices.rs, releases.rs).
THEOREM AccountsAlwaysSafe == ServerSpec => [](SignInSafe /\ UsersSafe /\ FleetSafe /\ ReleasesSafe)
PROOF BY ServerIsItsParts, SignInAlwaysSafe, UsersAlwaysSafe, FleetAlwaysSafe, ReleasesAlwaysSafe, PTL

\* No step of the server does what ServerSteps names: end a session by a
\* sweep, give access by a new row, take an agent back to an older release,
\* pass a packet beyond the ceiling, refuse an address for its refusals, turn
\* a page away for a certificate it was told of, take a key that changed.
THEOREM ServerStepsSafe == ServerSpec => ServerSteps
PROOF
<1>1. ServerSpec => /\ SweepHarmless /\ NewRowsReachNothing /\ NeverOlder
                    /\ CeilingStays /\ ClosedGetsNothing /\ RefusedOnlyWhenFull /\ TableForgets
                    /\ TurnedAwayByRenewal /\ KeyKept
  BY ServerIsItsParts, SweepAlwaysHarmless, NewRowsGiveNothing, AgentsNeverOlder, TunnelStepsSafe,
     AttemptStepsSafe, PagesTurnedAwayByRenewal, KeysAlwaysKept
<1> QED
  BY <1>1 DEF ServerSteps
=============================================================================
