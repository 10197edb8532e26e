----------------------------- MODULE NamesProofs -----------------------------
(***************************************************************************)
(* Proofs about Names, for every directory, size of name and buffer: what  *)
(* reads of the directory return for every number of bytes asked for, the  *)
(* command and the arguments parse finds in every command, and the entry   *)
(* read_dentry_by_name finds for every string.                             *)
(***************************************************************************)
EXTENDS Names, Induction, SequenceTheorems, FiniteSetTheorems, TLAPS

(* What has been given since the last end are the entries before the       *)
(* position, in order, each to a reader that began before it.              *)
Gifts == [reader : Readers, name : Seq(STRING)]

GiftOk(k) ==
  /\ listed[k].reader \in Readers /\ listed[k].name = names[k]
  /\ began[listed[k].reader] \in 0 .. k - 1

ListingInv ==
  /\ directory_location \in 0 .. dir_count
  /\ listed \in Seq(Gifts) /\ Len(listed) = directory_location
  /\ \A k \in 1 .. directory_location : GiftOk(k)
  /\ began \in [Readers -> {NotOpen} \union 0 .. directory_location]
  /\ DOMAIN buf = BufIndex

LEMMA NamesTypes ==
  /\ MAX_FILE \in Nat /\ DOMAIN names = 1 .. MAX_FILE /\ dir_count \in 0 .. MAX_FILE
  /\ \A k \in 1 .. MAX_FILE : /\ names[k] \in Seq(STRING)
                              /\ Len(names[k]) \in 0 .. NAME_SIZE
                              /\ \A j \in 1 .. Len(names[k]) : names[k][j] # Nul
  /\ NAME_SIZE \in Nat \ {0} /\ BUF_SIZE \in Nat \ {0} /\ Reads \subseteq 0 .. BUF_SIZE
<1>1. /\ MAX_FILE \in Nat /\ DOMAIN names = 1 .. MAX_FILE
      /\ \A k \in 1 .. MAX_FILE : names[k] \in Seq(STRING)
  BY NamesAssumption, LenProperties, ElementOfSeq DEF MAX_FILE
<1>2. ASSUME NEW k \in 1 .. MAX_FILE, NEW j \in 1 .. Len(names[k])
      PROVE  names[k][j] # Nul
  <2>1. Nul \notin ToSet(names[k])
    BY <1>1, NamesAssumption
  <2>2. j \in DOMAIN names[k]
    BY <1>1, LenProperties
  <2> QED
    BY <2>1, <2>2 DEF ToSet
<1> QED
  BY <1>1, <1>2, NamesAssumption

LEMMA InitListing == Init => ListingInv
<1> SUFFICES ASSUME Init PROVE ListingInv
  OBVIOUS
<1>1. directory_location = 0 /\ listed = <<>> /\ DOMAIN buf = BufIndex
  BY DEF Init
<1>2. listed \in Seq(Gifts) /\ Len(listed) = 0
  BY <1>1, EmptySeq
<1>3. began \in [Readers -> {NotOpen} \union 0 .. directory_location]
  BY DEF Init
<1> QED
  BY <1>1, <1>2, <1>3, NamesTypes DEF ListingInv

LEMMA DirOpenListing ==
  ASSUME ListingInv, NEW r \in Readers, DirOpen(r)
  PROVE  ListingInv'
<1>1. /\ began[r] = NotOpen /\ began' = [began EXCEPT ![r] = directory_location]
      /\ UNCHANGED <<directory_location, buf, listed>>
  BY DEF DirOpen
<1>2. directory_location \in 0 .. dir_count /\ dir_count \in Nat
      /\ began \in [Readers -> {NotOpen} \union 0 .. directory_location]
  BY NamesTypes DEF ListingInv
<1>3. began' \in [Readers -> {NotOpen} \union 0 .. directory_location]
  BY <1>1, <1>2
<1>4. ASSUME NEW k \in 1 .. directory_location PROVE GiftOk(k)'
  <2>1. GiftOk(k)
    BY DEF ListingInv
  <2>2. listed[k].reader # r
    BY <1>1, <1>2, <2>1 DEF GiftOk, NotOpen
  <2>3. began'[listed[k].reader] = began[listed[k].reader]
    BY <1>1, <1>2, <2>1, <2>2 DEF GiftOk
  <2> QED
    BY <1>1, <2>1, <2>3 DEF GiftOk
<1> QED
  BY <1>1, <1>3, <1>4 DEF ListingInv

LEMMA DirReadListing ==
  ASSUME ListingInv, NEW r \in Readers, NEW nbytes \in Reads, DirRead(r, nbytes)
  PROVE  ListingInv'
<1>1. CASE AtEnd
  <2>1. /\ directory_location' = 0 /\ listed' = <<>> /\ buf' = buf
        /\ began' = [q \in Readers |-> IF began[q] = NotOpen THEN NotOpen ELSE 0]
    BY <1>1 DEF DirRead
  <2>2. listed' \in Seq(Gifts) /\ Len(listed') = 0
    BY <2>1, EmptySeq
  <2>3. began' \in [Readers -> {NotOpen} \union 0 .. 0]
    BY <2>1
  <2> QED
    BY <2>1, <2>2, <2>3, NamesTypes DEF ListingInv
<1>2. CASE ~ AtEnd
  <2> DEFINE name == names[directory_location + 1]
             gift == [reader |-> r, name |-> name]
  <2>1. /\ directory_location' = directory_location + 1 /\ listed' = Append(listed, gift)
        /\ DOMAIN buf' = DOMAIN buf /\ began' = began /\ began[r] # NotOpen
    BY <1>2 DEF DirRead, strncpy
  <2>2. /\ directory_location \in Nat /\ dir_count \in Nat
        /\ directory_location + 1 \in 1 .. dir_count /\ directory_location' \in 0 .. dir_count
    BY <1>2, <2>1, NamesTypes DEF AtEnd, ListingInv
  <2>3. name \in Seq(STRING)
    <3>1. directory_location + 1 \in 1 .. MAX_FILE
      BY <2>2, NamesTypes
    <3> QED
      BY <3>1, NamesTypes
  <2>4. gift.reader = r /\ gift.name = name /\ gift \in Gifts
    BY <2>3 DEF Gifts
  <2> HIDE DEF name, gift
  <2>5. listed \in Seq(Gifts) /\ Len(listed) = directory_location
    BY DEF ListingInv
  <2>6. /\ listed' \in Seq(Gifts) /\ Len(listed') = directory_location + 1
        /\ \A k \in 1 .. directory_location : listed'[k] = listed[k]
        /\ listed'[directory_location + 1] = gift
    BY <2>1, <2>4, <2>5, AppendProperties
  <2>7. /\ began \in [Readers -> {NotOpen} \union 0 .. directory_location]
        /\ began[r] \in 0 .. directory_location
    BY <2>1 DEF ListingInv
  <2>8. ASSUME NEW k \in 1 .. directory_location' PROVE GiftOk(k)'
    <3>1. CASE k <= directory_location
      <4>1. k \in 1 .. directory_location
        BY <2>1, <2>2, <3>1
      <4>2. GiftOk(k) /\ listed'[k] = listed[k]
        BY <2>6, <4>1 DEF ListingInv
      <4> QED
        BY <2>1, <4>2 DEF GiftOk
    <3>2. CASE k = directory_location + 1
      <4>1. listed'[k].reader = r /\ listed'[k].name = names[k]
        BY <2>4, <2>6, <3>2 DEF name
      <4>2. began'[r] \in 0 .. k - 1
        BY <2>1, <2>2, <2>7, <3>2
      <4> QED
        BY <4>1, <4>2 DEF GiftOk
    <3> QED
      BY <2>1, <2>2, <3>1, <3>2
  <2>9. began' \in [Readers -> {NotOpen} \union 0 .. directory_location']
    <3>1. 0 .. directory_location \subseteq 0 .. directory_location'
      BY <2>1, <2>2
    <3> QED
      BY <2>1, <2>7, <3>1
  <2> QED
    BY <2>1, <2>2, <2>6, <2>8, <2>9 DEF ListingInv
<1> QED
  BY <1>1, <1>2

LEMMA StepListing == ListingInv /\ [Next]_vars => ListingInv'
<1> SUFFICES ASSUME ListingInv, [Next]_vars PROVE ListingInv'
  OBVIOUS
<1>1. CASE UNCHANGED listingVars
  BY <1>1 DEF listingVars, ListingInv, GiftOk
<1>2. ASSUME NEW c, Execute(c) PROVE UNCHANGED listingVars
  BY <1>2 DEF Execute
<1>3. ASSUME NEW fname, Open(fname) PROVE UNCHANGED listingVars
  BY <1>3 DEF Open
<1>4. CASE UNCHANGED vars
  BY <1>1, <1>4 DEF vars
<1> QED
  BY <1>1, <1>2, <1>3, <1>4, DirOpenListing, DirReadListing DEF Next

LEMMA ListingAlways == Spec => []ListingInv
BY InitListing, StepListing, PTL DEF Spec

-----------------------------------------------------------------------------
(* file_system.c, dir_read: for every directory and any number of readers, *)
(* between two reads that return no name the readers together are given    *)
(* every entry once and in order, and none an entry from before the        *)
(* position it found when it opened the directory.                         *)
THEOREM ListingComplete == Spec => ListsDirectory
<1> DEFINE Complete ==
      /\ Len(listed) = dir_count
      /\ \A k \in 1 .. dir_count :
           listed[k].name = names[k] /\ began[listed[k].reader] \in 0 .. k - 1
<1>1. ListingInv /\ [Next]_vars => [listed # <<>> /\ listed' = <<>> => Complete]_vars
  <2> SUFFICES ASSUME ListingInv, Next, listed # <<>>, listed' = <<>>
               PROVE  Complete
    OBVIOUS
  <2> HIDE DEF Complete
  <2>1. ASSUME NEW c, Execute(c) PROVE FALSE
    BY <2>1 DEF Execute, listingVars
  <2>2. ASSUME NEW fname, Open(fname) PROVE FALSE
    BY <2>2 DEF Open, listingVars
  <2>3. ASSUME NEW r, DirOpen(r) PROVE FALSE
    BY <2>3 DEF DirOpen
  <2>4. PICK r \in Readers, nbytes \in Reads : DirRead(r, nbytes)
    BY <2>1, <2>2, <2>3 DEF Next
  <2>5. CASE AtEnd
    <3>1. directory_location = dir_count
      BY <2>5, NamesTypes DEF AtEnd, ListingInv
    <3> QED
      BY <3>1 DEF ListingInv, GiftOk, Complete
  <2>6. CASE ~ AtEnd
    <3> DEFINE gift == [reader |-> r, name |-> names[directory_location + 1]]
    <3>1. listed' = Append(listed, gift)
      BY <2>4, <2>6 DEF DirRead
    <3>2. gift \in Gifts
      <4>1. directory_location + 1 \in 1 .. MAX_FILE
        BY <2>6, NamesTypes DEF AtEnd, ListingInv
      <4> QED
        BY <4>1, NamesTypes DEF Gifts
    <3> HIDE DEF gift
    <3>3. listed' # <<>>
      BY <3>1, <3>2, AppendProperties DEF ListingInv
    <3> QED
      BY <3>3
  <2> QED
    BY <2>5, <2>6
<1> QED
  BY <1>1, ListingAlways, PTL DEF Spec, ListsDirectory

-----------------------------------------------------------------------------
(* strlen counts up to the first terminator, or to the end.                *)
LEMMA StrlenIs ==
  ASSUME NEW b
  PROVE  /\ strlen(b) \in 0 .. BUF_SIZE
         /\ \A k \in 0 .. strlen(b) - 1 : b[k] # Nul
         /\ strlen(b) = BUF_SIZE \/ b[strlen(b)] = Nul
<1> DEFINE ends == { k \in BufIndex : b[k] = Nul }
           first == CHOOSE k \in ends : \A j \in ends : k <= j
<1>1. BUF_SIZE \in Nat /\ BufIndex = 0 .. BUF_SIZE - 1
  BY NamesTypes DEF BufIndex
<1>2. strlen(b) = IF ends = {} THEN BUF_SIZE ELSE first
  BY DEF strlen
<1>3. ends \subseteq Nat /\ \A k \in BufIndex : k \in ends <=> b[k] = Nul
  BY <1>1
<1>4. \A k \in ends : k \in BufIndex /\ b[k] = Nul
  OBVIOUS
<1> HIDE DEF ends
<1>5. CASE ends = {}
  BY <1>1, <1>2, <1>3, <1>5
<1>6. CASE ends # {}
  <2>1. \E e \in ends : \A k \in ends : e <= k
    BY <1>3, <1>6, LeastNatural
  <2>2. first \in ends /\ \A k \in ends : first <= k
    BY <2>1
  <2> HIDE DEF first
  <2>3. first \in BufIndex /\ b[first] = Nul
    BY <1>4, <2>2
  <2>4. ASSUME NEW k \in 0 .. first - 1 PROVE b[k] # Nul
    <3>1. k \in BufIndex /\ ~ (first <= k)
      BY <1>1, <2>3
    <3> QED
      BY <1>3, <2>2, <3>1
  <2> QED
    BY <1>1, <1>2, <1>6, <2>3, <2>4
<1> QED
  BY <1>5, <1>6

(* The copy of a name that is shorter than what was asked for ends where   *)
(* the name does; behind one that is not there is what was there before.   *)
LEMMA CopyCounts ==
  ASSUME NEW b, DOMAIN b = BufIndex, NEW name, NEW n \in 0 .. BUF_SIZE,
         Len(name) \in Nat, \A k \in 1 .. Len(name) : name[k] # Nul,
         NEW m, m = strlen(strncpy(b, name, n))
  PROVE  IF Len(name) < n THEN m = Len(name)
         ELSE /\ m \in n .. BUF_SIZE
              /\ \A k \in n .. m - 1 : b[k] # Nul
              /\ m = BUF_SIZE \/ b[m] = Nul
<1> DEFINE copy == strncpy(b, name, n)
<1>1. \A k \in BufIndex : copy[k] = IF k < n THEN CharAt(name, k + 1) ELSE b[k]
  BY DEF strncpy
<1>2. BUF_SIZE \in Nat /\ BufIndex = 0 .. BUF_SIZE - 1
  BY NamesTypes DEF BufIndex
<1>3. m = strlen(copy)
  OBVIOUS
<1> HIDE DEF copy
<1>4. /\ m \in 0 .. BUF_SIZE /\ \A k \in 0 .. m - 1 : copy[k] # Nul
      /\ m = BUF_SIZE \/ copy[m] = Nul
  BY <1>3, StrlenIs
<1>5. ASSUME NEW k \in BufIndex, k < n, k < Len(name) PROVE copy[k] # Nul
  <2>1. k + 1 <= Len(name) /\ k + 1 \in 1 .. Len(name)
    BY <1>2, <1>5
  <2>2. copy[k] = name[k + 1]
    BY <1>1, <1>5, <2>1 DEF CharAt
  <2> QED
    BY <2>1, <2>2
<1>6. CASE Len(name) < n
  <2>1. Len(name) \in BufIndex /\ ~ (Len(name) + 1 <= Len(name))
    BY <1>2, <1>6
  <2>2. copy[Len(name)] = Nul
    BY <1>1, <1>6, <2>1 DEF CharAt
  <2>3. m <= Len(name)
    BY <1>2, <1>4, <2>1, <2>2
  <2>4. ~ (m < Len(name))
    <3> SUFFICES ASSUME m < Len(name) PROVE FALSE
      OBVIOUS
    <3>1. m \in BufIndex /\ m < n /\ m # BUF_SIZE
      BY <1>2, <1>4, <1>6
    <3> QED
      BY <1>4, <1>5, <3>1
  <2> QED
    BY <1>4, <1>6, <2>3, <2>4
<1>7. CASE ~ (Len(name) < n)
  <2>1. ~ (m < n)
    <3> SUFFICES ASSUME m < n PROVE FALSE
      OBVIOUS
    <3>1. m \in BufIndex /\ m < Len(name) /\ m # BUF_SIZE
      BY <1>2, <1>4, <1>7
    <3> QED
      BY <1>4, <1>5, <3>1
  <2>2. m \in n .. BUF_SIZE
    BY <1>2, <1>4, <2>1
  <2>3. \A k \in n .. m - 1 : copy[k] = b[k] /\ copy[k] # Nul
    BY <1>1, <1>2, <1>4
  <2>4. m # BUF_SIZE => copy[m] = b[m]
    BY <1>1, <1>2, <2>2
  <2> QED
    BY <1>4, <1>7, <2>2, <2>3, <2>4
<1> QED
  BY <1>6, <1>7

(* dir_read: for every directory, buffer and count, a read returns the     *)
(* length of a name that is shorter than what was asked for, and of one    *)
(* that is not it returns what was asked for and how many bytes follow in  *)
(* the buffer before a zero.                                               *)
THEOREM CountCorrect == Spec => CountsName
<1> DEFINE Counts ==
      \A r \in Readers, nbytes \in Reads :
        DirRead(r, nbytes) /\ listed' # <<>> =>
          LET n    == Smaller(nbytes, NAME_SIZE)
              name == Last(listed').name
          IN  IF Len(name) < n THEN result' = Len(name)
              ELSE /\ result' \in n .. BUF_SIZE
                   /\ \A k \in n .. result' - 1 : buf[k] # Nul
                   /\ result' = BUF_SIZE \/ buf[result'] = Nul
<1>1. ListingInv => Counts
  <2> SUFFICES ASSUME ListingInv, NEW r \in Readers, NEW nbytes \in Reads,
                      DirRead(r, nbytes), listed' # <<>>
               PROVE  LET n    == Smaller(nbytes, NAME_SIZE)
                          name == Last(listed').name
                      IN  IF Len(name) < n THEN result' = Len(name)
                          ELSE /\ result' \in n .. BUF_SIZE
                               /\ \A k \in n .. result' - 1 : buf[k] # Nul
                               /\ result' = BUF_SIZE \/ buf[result'] = Nul
    OBVIOUS
  <2> DEFINE n    == Smaller(nbytes, NAME_SIZE)
             name == names[directory_location + 1]
             gift == [reader |-> r, name |-> name]
  <2>1. ~ AtEnd
    BY DEF DirRead
  <2>2. directory_location + 1 \in 1 .. MAX_FILE
    BY <2>1, NamesTypes DEF AtEnd, ListingInv
  <2>3. /\ name \in Seq(STRING) /\ Len(name) \in Nat
        /\ \A k \in 1 .. Len(name) : name[k] # Nul
    BY <2>2, NamesTypes
  <2>4. result' = strlen(strncpy(buf, name, n)) /\ listed' = Append(listed, gift)
    BY <2>1 DEF DirRead
  <2>5. n \in 0 .. BUF_SIZE /\ DOMAIN buf = BufIndex
    BY NamesTypes DEF ListingInv, Smaller
  <2>6. gift \in Gifts /\ gift.name = name
    BY <2>3 DEF Gifts
  <2> HIDE DEF n, name, gift
  <2>7. IF Len(name) < n THEN result' = Len(name)
        ELSE /\ result' \in n .. BUF_SIZE
             /\ \A k \in n .. result' - 1 : buf[k] # Nul
             /\ result' = BUF_SIZE \/ buf[result'] = Nul
    BY <2>3, <2>4, <2>5, CopyCounts
  <2>8. Last(listed') = gift
    <3>1. Len(listed') = Len(listed) + 1 /\ listed'[Len(listed) + 1] = gift
      BY <2>4, <2>6, AppendProperties DEF ListingInv
    <3> QED
      BY <3>1 DEF Last
  <2> QED
    BY <2>6, <2>7, <2>8 DEF n
<1>2. ListingInv => [Counts]_vars
  BY <1>1
<1> QED
  BY <1>2, ListingAlways, PTL DEF Spec, CountsName

-----------------------------------------------------------------------------
(* The loop of parse.                                                      *)

(* A recursive function is what its equation says: functions that satisfy  *)
(* the equation so far can be continued by one more turn.                  *)
LEMMA TurnsAre ==
  ASSUME NEW c, Len(c) \in Nat, NEW argument
  PROVE  Turns(c, argument) =
           [n \in 0 .. Len(c) |->
              IF n = 0 THEN ParseStart(argument)
              ELSE ParseStep(Turns(c, argument)[n - 1], c[n])]
<1> DEFINE start == ParseStart(argument)
           Extends(g, m) ==
             g = [n \in 0 .. m |-> IF n = 0 THEN start ELSE ParseStep(g[n - 1], c[n])]
           upto == { m \in 0 .. Len(c) : \E g : Extends(g, m) }
<1> HIDE DEF start
<1>1. 0 \in upto
  <2> DEFINE g == [n \in 0 .. 0 |-> start]
  <2>1. Extends(g, 0)
    OBVIOUS
  <2> HIDE DEF g, Extends
  <2> QED
    BY <2>1
<1>2. ASSUME NEW m \in 0 .. Len(c) - 1, m \in upto PROVE m + 1 \in upto
  <2>1. PICK g : Extends(g, m)
    BY <1>2
  <2> DEFINE h == [n \in 0 .. m + 1 |-> IF n <= m THEN g[n] ELSE ParseStep(g[m], c[m + 1])]
  <2>2. ASSUME NEW n \in 0 .. m + 1
        PROVE  h[n] = IF n = 0 THEN start ELSE ParseStep(h[n - 1], c[n])
    <3>1. CASE n = 0
      BY <2>1, <3>1
    <3>2. CASE n # 0 /\ n <= m
      <4>1. h[n - 1] = g[n - 1]
        BY <3>2
      <4>2. g[n] = ParseStep(g[n - 1], c[n])
        BY <2>1, <3>2
      <4> QED
        BY <3>2, <4>1, <4>2
    <3>3. CASE n = m + 1
      <4>1. h[n] = ParseStep(g[m], c[m + 1]) /\ h[n - 1] = g[m]
        BY <3>3
      <4> QED
        BY <3>3, <4>1
    <3> QED
      BY <3>1, <3>2, <3>3
  <2>3. Extends(h, m + 1)
    <3> DEFINE Value(n) == IF n = 0 THEN start ELSE ParseStep(h[n - 1], c[n])
    <3>1. h = [n \in 0 .. m + 1 |-> h[n]]
      OBVIOUS
    <3> HIDE DEF h
    <3>2. [n \in 0 .. m + 1 |-> h[n]] = [n \in 0 .. m + 1 |-> Value(n)]
      BY <2>2
    <3> QED
      BY <3>1, <3>2
  <2> HIDE DEF Extends
  <2> QED
    BY <2>3
<1>3. Len(c) \in upto
  <2> HIDE DEF upto
  <2>1. 0 .. Len(c) \subseteq upto
    BY <1>1, <1>2, InductionUpTo
  <2> QED
    BY <2>1
<1>4. \E g : Extends(g, Len(c))
  BY <1>3
<1>5. Turns(c, argument) = CHOOSE g : Extends(g, Len(c))
  BY DEF Turns, start
<1>6. Extends(Turns(c, argument), Len(c))
  <2> HIDE DEF Extends
  <2> QED
    BY <1>4, <1>5
<1> QED
  BY <1>6 DEF start

(* No space among the characters after the k-th, up to the m-th.           *)
NoSpace(c, k, m) == \A l \in k + 1 .. m : c[l] # Space

(* The k-th character of the word after the space at s is among the first  *)
(* n of the command.                                                       *)
Holds(c, n, s, k) ==
  /\ s \in 1 .. n /\ c[s] = Space
  /\ s + 1 + k <= n /\ NoSpace(c, s, s + 1 + k)

(* byte is what the words read so far, laid over each other, leave at k.   *)
Overlaid(c, n, k, byte) ==
  \/ byte = Nul /\ \A s \in 1 .. n : ~ Holds(c, n, s, k)
  \/ \E s \in 1 .. n :
        /\ Holds(c, n, s, k) /\ byte = c[s + 1 + k]
        /\ \A t \in 1 .. n : Holds(c, n, t, k) => t <= s

(* What the loop knows after n characters when a name was cut, and when    *)
(* none was: the characters after the last space have no space, and the    *)
(* name is what is before the first.                                       *)
CutInv(c, n, p) ==
  /\ NAME_SIZE + 1 <= n /\ NoSpace(c, 0, NAME_SIZE + 1)
  /\ p.file_name = SubSeq(c, 1, NAME_SIZE) /\ p.argument = NoArgs

NameInv(c, n, p) ==
  \E w \in 0 .. NAME_SIZE :
    /\ w <= n /\ NoSpace(c, 0, w) /\ p.file_name = SubSeq(c, 1, w)
    /\ IF p.space_index = -1 THEN w = n ELSE w < n /\ c[w + 1] = Space

WordInv(c, n, p) ==
  /\ p.i = n /\ p.space_index \in -1 .. n - 1
  /\ NoSpace(c, p.space_index + 1, n)
  /\ p.space_index # -1 => c[p.space_index + 1] = Space
  /\ p.argument = [k \in ArgIndex |-> p.argument[k]]
  /\ \A k \in ArgIndex : Overlaid(c, n, k, p.argument[k])

ParseFields == {"i", "space_index", "stop", "file_name", "argument"}

LoopInv(c, n, p) ==
  /\ p.stop \in BOOLEAN /\ DOMAIN p = ParseFields
  /\ IF p.stop THEN CutInv(c, n, p) ELSE NameInv(c, n, p) /\ WordInv(c, n, p)

LEMMA LoopStart == ASSUME NEW c PROVE LoopInv(c, 0, ParseStart(NoArgs))
<1> DEFINE p == ParseStart(NoArgs)
<1>1. NAME_SIZE \in Nat \ {0} /\ ARG_SIZE \in Nat \ {0}
  BY NamesAssumption
<1>2. /\ p.i = 0 /\ p.space_index = -1 /\ p.stop = FALSE /\ p.file_name = <<>>
      /\ p.argument = NoArgs /\ DOMAIN p = ParseFields
  BY DEF ParseStart, ParseFields
<1>3. SubSeq(c, 1, 0) = <<>>
  BY SubSeqEmpty
<1> HIDE DEF p
<1>4. NameInv(c, 0, p)
  BY <1>1, <1>2, <1>3 DEF NameInv, NoSpace
<1>5. ASSUME NEW k \in ArgIndex PROVE Overlaid(c, 0, k, p.argument[k])
  BY <1>2, <1>5 DEF Overlaid, NoArgs
<1>6. WordInv(c, 0, p)
  BY <1>2, <1>5 DEF WordInv, NoSpace, NoArgs
<1> QED
  BY <1>2, <1>4, <1>6 DEF LoopInv, p

(* A character that is a space belongs to no word.                         *)
LEMMA SpaceOverlays ==
  ASSUME NEW c, NEW n \in Nat, c[n + 1] = Space, NEW k \in ArgIndex, NEW byte,
         Overlaid(c, n, k, byte)
  PROVE  Overlaid(c, n + 1, k, byte)
<1>1. k \in Nat
  BY NamesAssumption DEF ArgIndex
<1>2. ASSUME NEW s \in 1 .. n + 1 PROVE Holds(c, n + 1, s, k) <=> s \in 1 .. n /\ Holds(c, n, s, k)
  <2>1. CASE s + 1 + k <= n
    BY <1>1, <2>1 DEF Holds
  <2>2. CASE s + 1 + k = n + 1
    <3>1. n + 1 \in s + 1 .. s + 1 + k
      BY <1>1, <2>2
    <3>2. ~ NoSpace(c, s, s + 1 + k)
      BY <3>1 DEF NoSpace
    <3> QED
      BY <3>2 DEF Holds
  <2>3. CASE s + 1 + k > n + 1
    BY <1>1, <2>3 DEF Holds
  <2> QED
    BY <1>1, <2>1, <2>2, <2>3
<1> HIDE DEF Holds
<1> QED
  BY <1>2 DEF Overlaid

(* Before the first space there is no word to lay over another.            *)
LEMMA NameOverlays ==
  ASSUME NEW c, NEW n \in Nat, NoSpace(c, 0, n + 1), NEW k \in ArgIndex, NEW byte,
         Overlaid(c, n, k, byte)
  PROVE  Overlaid(c, n + 1, k, byte)
<1>1. \A s \in 1 .. n + 1 : c[s] # Space
  BY DEF NoSpace
<1>2. \A s \in 1 .. n + 1 : ~ Holds(c, n, s, k) /\ ~ Holds(c, n + 1, s, k)
  BY <1>1 DEF Holds
<1>3. byte = Nul
  BY <1>2 DEF Overlaid
<1> QED
  BY <1>2, <1>3 DEF Overlaid

(* A character after the last space, at s, goes where it stands in its     *)
(* word; nothing else moves.                                               *)
LEMMA CharacterOverlays ==
  ASSUME NEW c, NEW n \in Nat, c[n + 1] # Space, NEW s \in 1 .. n, c[s] = Space,
         NoSpace(c, s, n), NEW k \in ArgIndex, NEW byte, Overlaid(c, n, k, byte)
  PROVE  Overlaid(c, n + 1, k, IF k = n - s THEN c[n + 1] ELSE byte)
<1>1. k \in Nat
  BY NamesAssumption DEF ArgIndex
<1>2. NoSpace(c, s, n + 1)
  BY DEF NoSpace
<1>3. CASE k = n - s
  <2>1. Holds(c, n + 1, s, k)
    BY <1>1, <1>2, <1>3 DEF Holds
  <2>2. ASSUME NEW t \in 1 .. n + 1, Holds(c, n + 1, t, k) PROVE t <= s
    BY <1>1, <1>3, <2>2 DEF Holds
  <2> QED
    BY <1>1, <1>3, <2>1, <2>2 DEF Overlaid
<1>4. CASE k # n - s
  <2>1. ASSUME NEW t \in 1 .. n + 1
        PROVE  Holds(c, n + 1, t, k) <=> t \in 1 .. n /\ Holds(c, n, t, k)
    <3>1. CASE t + 1 + k <= n
      BY <1>1, <3>1 DEF Holds
    <3>2. CASE t + 1 + k = n + 1
      <4>1. CASE t < s
        <5>1. s \in t + 1 .. t + 1 + k
          BY <1>1, <3>2, <4>1
        <5>2. ~ NoSpace(c, t, t + 1 + k)
          BY <5>1 DEF NoSpace
        <5> QED
          BY <5>2 DEF Holds
      <4>2. CASE t > s
        <5>1. t \in s + 1 .. n + 1
          BY <4>2
        <5>2. c[t] # Space
          BY <1>2, <5>1 DEF NoSpace
        <5> QED
          BY <5>2 DEF Holds
      <4>3. t # s
        BY <1>1, <1>4, <3>2
      <4> QED
        BY <4>1, <4>2, <4>3
    <3>3. CASE t + 1 + k > n + 1
      BY <1>1, <3>3 DEF Holds
    <3> QED
      BY <1>1, <3>1, <3>2, <3>3
  <2> HIDE DEF Holds
  <2> QED
    BY <1>4, <2>1 DEF Overlaid
<1> QED
  BY <1>3, <1>4

(* One more character of a sequence that is taken over.                    *)
LEMMA Longer ==
  ASSUME NEW c \in Seq(STRING), NEW n \in 0 .. Len(c) - 1
  PROVE  Append(SubSeq(c, 1, n), c[n + 1]) = SubSeq(c, 1, n + 1)
<1> DEFINE s == SubSeq(c, 1, n)
           t == SubSeq(c, 1, n + 1)
<1>1. Len(c) \in Nat /\ \A l \in 1 .. n + 1 : c[l] \in STRING
  BY LenProperties, ElementOfSeq
<1>2. s \in Seq(STRING) /\ Len(s) = n /\ \A l \in 1 .. n : s[l] = c[l]
  BY <1>1, SubSeqProperties
<1>3. t \in Seq(STRING) /\ Len(t) = n + 1 /\ \A l \in 1 .. n + 1 : t[l] = c[l]
  BY <1>1, SubSeqProperties
<1> HIDE DEF s, t
<1>4. /\ Append(s, c[n + 1]) \in Seq(STRING) /\ Len(Append(s, c[n + 1])) = n + 1
      /\ \A l \in 1 .. n : Append(s, c[n + 1])[l] = c[l]
      /\ Append(s, c[n + 1])[n + 1] = c[n + 1]
  BY <1>1, <1>2, AppendProperties
<1>5. \A l \in 1 .. n + 1 : Append(s, c[n + 1])[l] = t[l]
  BY <1>3, <1>4
<1>6. Append(s, c[n + 1]) = t
  BY <1>3, <1>4, <1>5, SeqEqual
<1> QED
  BY <1>6 DEF s, t

LEMMA LoopStep ==
  ASSUME NEW c \in Seq(STRING), Len(c) <= ARG_SIZE, NEW n \in 0 .. Len(c) - 1,
         NEW p, LoopInv(c, n, p)
  PROVE  LoopInv(c, n + 1, ParseStep(p, c[n + 1]))
<1> DEFINE q == ParseStep(p, c[n + 1])
<1>1. /\ NAME_SIZE \in Nat \ {0} /\ ARG_SIZE \in Nat \ {0}
      /\ Len(c) \in Nat /\ n \in Nat /\ n < Len(c)
  BY NamesAssumption, LenProperties
<1>2. p.stop \in BOOLEAN /\ DOMAIN p = ParseFields
  BY DEF LoopInv
<1>3. CASE p.stop
  <2>1. q = p
    BY <1>3 DEF ParseStep
  <2> HIDE DEF q
  <2>2. CutInv(c, n + 1, q)
    BY <1>1, <1>3, <2>1 DEF LoopInv, CutInv
  <2> QED
    BY <1>2, <1>3, <2>1, <2>2 DEF LoopInv, q
<1>4. CASE ~ p.stop /\ c[n + 1] = Space
  <2>1. NameInv(c, n, p) /\ WordInv(c, n, p)
    BY <1>4 DEF LoopInv
  <2>2. q = [p EXCEPT !.i = @ + 1, !.space_index = p.i]
    BY <1>4 DEF ParseStep
  <2>3. /\ q.i = n + 1 /\ q.space_index = n /\ q.stop = FALSE
        /\ q.file_name = p.file_name /\ q.argument = p.argument /\ DOMAIN q = ParseFields
    BY <1>2, <1>4, <2>1, <2>2 DEF WordInv, ParseFields
  <2> HIDE DEF q
  <2>4. NameInv(c, n + 1, q)
    BY <1>1, <1>4, <2>1, <2>3 DEF NameInv, WordInv
  <2>5. ASSUME NEW k \in ArgIndex PROVE Overlaid(c, n + 1, k, q.argument[k])
    BY <1>1, <1>4, <2>1, <2>3, SpaceOverlays DEF WordInv
  <2>6. WordInv(c, n + 1, q)
    BY <1>1, <1>4, <2>1, <2>3, <2>5 DEF WordInv, NoSpace
  <2> QED
    BY <2>3, <2>4, <2>6 DEF LoopInv, q
<1>5. CASE ~ p.stop /\ c[n + 1] # Space /\ p.space_index = -1
  <2>1. NameInv(c, n, p) /\ WordInv(c, n, p)
    BY <1>5 DEF LoopInv
  <2>2. /\ NoSpace(c, 0, n + 1) /\ n <= NAME_SIZE /\ p.file_name = SubSeq(c, 1, n)
        /\ p.i = n
    <3>1. PICK w \in 0 .. NAME_SIZE :
            w = n /\ NoSpace(c, 0, w) /\ p.file_name = SubSeq(c, 1, w)
      BY <1>5, <2>1 DEF NameInv
    <3>2. NoSpace(c, 0, n + 1)
      BY <1>1, <1>5, <3>1 DEF NoSpace
    <3> QED
      BY <1>1, <2>1, <3>1, <3>2 DEF WordInv
  <2>3. \A k \in ArgIndex : Overlaid(c, n + 1, k, p.argument[k])
    BY <1>1, <2>1, <2>2, NameOverlays DEF WordInv
  <2>4. CASE p.i > NAME_SIZE - 1
    <3>1. q = [p EXCEPT !.stop = TRUE]
      BY <1>5, <2>4 DEF ParseStep
    <3>2. /\ q.stop = TRUE /\ q.file_name = p.file_name /\ q.argument = p.argument
          /\ DOMAIN q = ParseFields
      BY <1>2, <3>1 DEF ParseFields
    <3>3. n = NAME_SIZE
      BY <1>1, <2>2, <2>4
    <3>4. ASSUME NEW k \in ArgIndex PROVE p.argument[k] = Nul
      <4>1. \A s \in 1 .. n + 1 : ~ Holds(c, n + 1, s, k)
        BY <2>2 DEF Holds, NoSpace
      <4> QED
        BY <2>3, <4>1 DEF Overlaid
    <3>5. p.argument = NoArgs
      BY <2>1, <3>4 DEF WordInv, NoArgs
    <3> HIDE DEF q
    <3>6. CutInv(c, n + 1, q)
      BY <1>1, <2>2, <3>2, <3>3, <3>5 DEF CutInv
    <3> QED
      BY <3>2, <3>6 DEF LoopInv, q
  <2>5. CASE ~ (p.i > NAME_SIZE - 1)
    <3>1. q = [p EXCEPT !.i = @ + 1, !.file_name = Append(@, c[n + 1])]
      BY <1>5, <2>5 DEF ParseStep
    <3>2. /\ q.i = n + 1 /\ q.space_index = -1 /\ q.stop = FALSE
          /\ q.file_name = Append(p.file_name, c[n + 1]) /\ q.argument = p.argument
          /\ DOMAIN q = ParseFields
      BY <1>2, <1>5, <2>2, <3>1 DEF ParseFields
    <3>3. q.file_name = SubSeq(c, 1, n + 1)
      BY <2>2, <3>2, Longer
    <3> HIDE DEF q
    <3>4. NameInv(c, n + 1, q)
      <4>1. n + 1 \in 0 .. NAME_SIZE
        BY <1>1, <2>2, <2>5
      <4> QED
        BY <1>1, <2>2, <3>2, <3>3, <4>1 DEF NameInv
    <3>5. WordInv(c, n + 1, q)
      BY <1>1, <2>1, <2>2, <2>3, <3>2 DEF WordInv
    <3> QED
      BY <3>2, <3>4, <3>5 DEF LoopInv, q
  <2> QED
    BY <2>4, <2>5
<1>6. CASE ~ p.stop /\ c[n + 1] # Space /\ p.space_index # -1
  <2> DEFINE s == p.space_index + 1
             at == p.i - p.space_index - 1
  <2>1. NameInv(c, n, p) /\ WordInv(c, n, p)
    BY <1>6 DEF LoopInv
  <2>2. /\ s \in 1 .. n /\ c[s] = Space /\ NoSpace(c, s, n) /\ p.i = n
        /\ at = n - s /\ at \in ArgIndex
    <3>1. /\ p.i = n /\ p.space_index \in -1 .. n - 1 /\ NoSpace(c, s, n)
          /\ p.space_index # -1 => c[s] = Space
      BY <2>1 DEF WordInv
    <3>2. s \in 1 .. n /\ at = n - s
      BY <1>1, <1>6, <3>1
    <3> HIDE DEF at, s
    <3>3. at \in 0 .. ARG_SIZE - 1
      BY <1>1, <3>2
    <3> QED
      BY <1>6, <3>1, <3>2, <3>3 DEF ArgIndex
  <2>3. q = [p EXCEPT !.i = @ + 1, !.argument[p.i - p.space_index - 1] = c[n + 1]]
    BY <1>6 DEF ParseStep
  <2>4. /\ q.i = n + 1 /\ q.space_index = p.space_index /\ q.stop = FALSE
        /\ q.file_name = p.file_name /\ DOMAIN q = ParseFields
    BY <1>2, <1>6, <2>2, <2>3 DEF ParseFields
  <2>5. /\ q.argument = [k \in ArgIndex |-> q.argument[k]]
        /\ \A k \in ArgIndex : q.argument[k] = IF k = n - s THEN c[n + 1] ELSE p.argument[k]
    <3>1. q.argument = [p.argument EXCEPT ![at] = c[n + 1]]
      BY <1>2, <2>3 DEF ParseFields
    <3> HIDE DEF q, at
    <3> QED
      BY <2>1, <2>2, <3>1 DEF WordInv
  <2> HIDE DEF q, at
  <2>6. ASSUME NEW k \in ArgIndex PROVE Overlaid(c, n + 1, k, q.argument[k])
    <3>1. Overlaid(c, n, k, p.argument[k])
      BY <2>1 DEF WordInv
    <3>2. Overlaid(c, n + 1, k, IF k = n - s THEN c[n + 1] ELSE p.argument[k])
      BY <1>1, <1>6, <2>2, <3>1, CharacterOverlays
    <3> QED
      BY <2>5, <3>2
  <2>7. NoSpace(c, s, n + 1)
    BY <1>1, <1>6, <2>2 DEF NoSpace
  <2>8. WordInv(c, n + 1, q)
    BY <1>1, <1>6, <2>1, <2>2, <2>4, <2>5, <2>6, <2>7 DEF WordInv
  <2>9. NameInv(c, n + 1, q)
    <3>1. PICK w \in 0 .. NAME_SIZE :
            /\ w < n /\ NoSpace(c, 0, w) /\ p.file_name = SubSeq(c, 1, w)
            /\ c[w + 1] = Space
      BY <1>6, <2>1 DEF NameInv
    <3> QED
      BY <1>1, <1>6, <2>4, <3>1 DEF NameInv
  <2> QED
    BY <2>4, <2>8, <2>9 DEF LoopInv, q
<1> QED
  BY <1>2, <1>3, <1>4, <1>5, <1>6

(* parse of a command that fits the buffers, for every such command.       *)
LEMMA LoopAlways ==
  ASSUME NEW c \in Seq(STRING), Len(c) <= ARG_SIZE
  PROVE  LoopInv(c, Len(c), parse(c))
<1> DEFINE turn  == Turns(c, NoArgs)
           known == { n \in 0 .. Len(c) : LoopInv(c, n, turn[n]) }
<1>1. Len(c) \in Nat
  BY LenProperties
<1>2. turn = [n \in 0 .. Len(c) |->
                IF n = 0 THEN ParseStart(NoArgs) ELSE ParseStep(turn[n - 1], c[n])]
  BY <1>1, TurnsAre
<1> HIDE DEF turn
<1>3. 0 \in known
  BY <1>1, <1>2, LoopStart
<1>4. ASSUME NEW n \in 0 .. Len(c) - 1, n \in known PROVE n + 1 \in known
  <2>1. LoopInv(c, n, turn[n])
    BY <1>4
  <2>2. turn[n + 1] = ParseStep(turn[n], c[n + 1])
    BY <1>1, <1>2
  <2>3. LoopInv(c, n + 1, turn[n + 1])
    BY <2>1, <2>2, LoopStep
  <2> QED
    BY <1>1, <2>3
<1>5. 0 .. Len(c) \subseteq known
  <2> HIDE DEF known
  <2> QED
    BY <1>1, <1>3, <1>4, InductionUpTo
<1>6. LoopInv(c, Len(c), turn[Len(c)])
  BY <1>1, <1>5
<1> QED
  BY <1>6 DEF parse, turn

-----------------------------------------------------------------------------
(* Words.                                                                  *)

LEMMA WordLonger ==
  ASSUME NEW c \in Seq(STRING), NEW k \in 0 .. Len(c)
  PROVE  /\ WordLength(c, k) \in 0 .. Len(c) - k
         /\ \A j \in Nat : WordLength(c, k) > j <=>
                            k + 1 + j <= Len(c) /\ NoSpace(c, k, k + 1 + j)
<1> DEFINE lengths == { w \in 0 .. Len(c) - k : NoSpace(c, k, k + w) }
           word    == { j \in k + 1 .. Len(c) : NoSpace(c, k, j) }
<1>1. Len(c) \in Nat /\ k \in Nat /\ Len(c) - k \in Nat
  BY LenProperties
<1>2. /\ lengths \subseteq Nat /\ \A w \in lengths : w <= Len(c) - k
      /\ 0 \in lengths
  BY <1>1 DEF NoSpace
<1>3. PICK w \in lengths : \A v \in lengths : v <= w
  <2> HIDE DEF lengths
  <2> QED
    BY <1>1, <1>2, GreatestNatural
<1>4. w \in 0 .. Len(c) - k /\ NoSpace(c, k, k + w)
  BY <1>3
<1>5. ASSUME NEW v \in Nat, k + v <= Len(c), NoSpace(c, k, k + v) PROVE v <= w
  <2>1. v \in lengths
    BY <1>1, <1>5
  <2> QED
    BY <1>3, <2>1
<1>6. word = k + 1 .. k + w
  <2>1. ASSUME NEW j \in word PROVE j \in k + 1 .. k + w
    <3>1. j - k \in Nat /\ k + (j - k) = j /\ j <= Len(c) /\ j >= k + 1 /\ NoSpace(c, k, j)
      BY <1>1, <2>1
    <3>2. j - k <= w
      BY <1>5, <3>1
    <3> QED
      BY <1>1, <1>4, <3>1, <3>2
  <2>2. ASSUME NEW j \in k + 1 .. k + w PROVE j \in word
    BY <1>1, <1>4, <2>2 DEF NoSpace
  <2> QED
    BY <2>1, <2>2
<1>7. WordLength(c, k) = w
  <2>1. Cardinality(k + 1 .. k + w) = w
    BY <1>1, <1>4, FS_Interval
  <2>2. WordLength(c, k) = Cardinality(word)
    BY DEF WordLength, NoSpace
  <2> QED
    BY <1>6, <2>1, <2>2
<1>8. ASSUME NEW j \in Nat
      PROVE  w > j <=> k + 1 + j <= Len(c) /\ NoSpace(c, k, k + 1 + j)
  <2>1. CASE w > j
    BY <1>1, <1>4, <2>1 DEF NoSpace
  <2>2. CASE k + 1 + j <= Len(c) /\ NoSpace(c, k, k + 1 + j)
    <3>1. j + 1 \in Nat /\ k + (j + 1) = k + 1 + j
      BY <1>1
    <3>2. j + 1 <= w
      BY <1>5, <2>2, <3>1
    <3> QED
      BY <1>1, <1>4, <2>2, <3>2
  <2> QED
    BY <2>1, <2>2
<1> QED
  BY <1>4, <1>7, <1>8

(* What an entry can hold of a name.                                       *)
Cut(s) == SubSeq(s, 1, Smaller(Len(s), NAME_SIZE))

LEMMA CutIs ==
  ASSUME NEW s \in Seq(STRING)
  PROVE  /\ Cut(s) \in Seq(STRING) /\ Len(Cut(s)) = Smaller(Len(s), NAME_SIZE)
         /\ \A k \in 1 .. Len(Cut(s)) : Cut(s)[k] = s[k]
<1> DEFINE m == Smaller(Len(s), NAME_SIZE)
<1>1. Len(s) \in Nat /\ NAME_SIZE \in Nat
  BY LenProperties, NamesAssumption
<1>2. m \in Nat /\ m <= Len(s)
  BY <1>1 DEF Smaller
<1> HIDE DEF m
<1>3. \A k \in 1 .. m : s[k] \in STRING
  BY <1>1, <1>2, ElementOfSeq
<1>4. /\ SubSeq(s, 1, m) \in Seq(STRING) /\ Len(SubSeq(s, 1, m)) = m
      /\ \A k \in 1 .. m : SubSeq(s, 1, m)[k] = s[k]
  BY <1>2, <1>3, SubSeqProperties
<1> QED
  BY <1>4 DEF Cut, m

LEMMA CutTwice == ASSUME NEW s \in Seq(STRING) PROVE Cut(Cut(s)) = Cut(s)
<1>1. Len(s) \in Nat /\ NAME_SIZE \in Nat
  BY LenProperties, NamesAssumption
<1>2. /\ Cut(s) \in Seq(STRING) /\ Len(Cut(s)) = Smaller(Len(s), NAME_SIZE)
  BY CutIs
<1>3. /\ Cut(Cut(s)) \in Seq(STRING) /\ Len(Cut(Cut(s))) = Smaller(Len(Cut(s)), NAME_SIZE)
      /\ \A k \in 1 .. Len(Cut(Cut(s))) : Cut(Cut(s))[k] = Cut(s)[k]
  BY <1>2, CutIs
<1>4. Len(Cut(Cut(s))) = Len(Cut(s))
  BY <1>1, <1>2, <1>3 DEF Smaller
<1> QED
  BY <1>2, <1>3, <1>4, SeqEqual

LEMMA CutEmpty == ASSUME NEW s \in Seq(STRING), Cut(s) = <<>> PROVE s = <<>>
<1>1. Len(s) \in Nat /\ NAME_SIZE \in Nat \ {0}
  BY LenProperties, NamesAssumption
<1>2. Len(Cut(s)) = Smaller(Len(s), NAME_SIZE) /\ Len(Cut(s)) = 0
  BY CutIs
<1>3. Len(s) = 0
  BY <1>1, <1>2 DEF Smaller
<1> QED
  BY <1>3, EmptySeq

(* The name is the first word, which is cut if it has more than NAME_SIZE  *)
(* characters.                                                             *)
LEMMA NameTaken ==
  ASSUME NEW c \in Seq(STRING), Len(c) <= ARG_SIZE
  PROVE  /\ parse(c).stop <=> WordLength(c, 0) > NAME_SIZE
         /\ parse(c).file_name = SubSeq(c, 1, Smaller(WordLength(c, 0), NAME_SIZE))
<1> DEFINE p == parse(c)
           w == WordLength(c, 0)
<1>1. Len(c) \in Nat /\ NAME_SIZE \in Nat \ {0} /\ 0 \in 0 .. Len(c)
  BY LenProperties, NamesAssumption
<1>2. /\ w \in 0 .. Len(c)
      /\ \A j \in Nat : w > j <=> 1 + j <= Len(c) /\ NoSpace(c, 0, 1 + j)
  BY <1>1, WordLonger
<1>3. LoopInv(c, Len(c), p)
  BY LoopAlways
<1> HIDE DEF p, w
<1>4. CASE p.stop
  <2>1. NAME_SIZE + 1 <= Len(c) /\ NoSpace(c, 0, 1 + NAME_SIZE)
        /\ p.file_name = SubSeq(c, 1, NAME_SIZE)
    BY <1>1, <1>3, <1>4 DEF LoopInv, CutInv
  <2>2. w > NAME_SIZE
    BY <1>1, <1>2, <2>1
  <2>3. Smaller(w, NAME_SIZE) = NAME_SIZE
    BY <1>1, <1>2, <2>2 DEF Smaller
  <2> QED
    BY <1>4, <2>1, <2>2, <2>3 DEF p, w
<1>5. CASE ~ p.stop
  <2>1. PICK v \in 0 .. NAME_SIZE :
          /\ v <= Len(c) /\ NoSpace(c, 0, v) /\ p.file_name = SubSeq(c, 1, v)
          /\ v = Len(c) \/ (v < Len(c) /\ c[v + 1] = Space)
    BY <1>3, <1>5 DEF LoopInv, NameInv
  <2>2. ~ (w > v)
    <3>1. ~ (1 + v <= Len(c) /\ NoSpace(c, 0, 1 + v))
      BY <1>1, <2>1 DEF NoSpace
    <3> QED
      BY <1>2, <3>1
  <2>3. v = 0 \/ w > v - 1
    BY <1>1, <1>2, <2>1
  <2>4. v = w
    BY <1>2, <2>2, <2>3
  <2>5. Smaller(w, NAME_SIZE) = v /\ ~ (w > NAME_SIZE)
    BY <1>1, <2>4 DEF Smaller
  <2> QED
    BY <1>5, <2>1, <2>5 DEF p, w
<1> QED
  BY <1>4, <1>5

LEMMA FileName ==
  ASSUME NEW c \in Seq(STRING), Len(c) <= ARG_SIZE
  PROVE  FirstWord(c) \in Seq(STRING) /\ parse(c).file_name = Cut(FirstWord(c))
<1> DEFINE w == WordLength(c, 0)
<1>1. Len(c) \in Nat /\ NAME_SIZE \in Nat \ {0} /\ 0 \in 0 .. Len(c)
  BY LenProperties, NamesAssumption
<1>2. w \in 0 .. Len(c)
  BY <1>1, WordLonger
<1>3. parse(c).file_name = SubSeq(c, 1, Smaller(w, NAME_SIZE))
  BY NameTaken
<1> HIDE DEF w
<1>4. \A k \in 1 .. w : c[k] \in STRING
  BY <1>1, <1>2, ElementOfSeq
<1>5. /\ FirstWord(c) \in Seq(STRING) /\ Len(FirstWord(c)) = w
      /\ \A k \in 1 .. w : FirstWord(c)[k] = c[k]
  BY <1>2, <1>4, SubSeqProperties DEF FirstWord, w
<1>6. SubSeq(c, 1, Smaller(w, NAME_SIZE)) = Cut(FirstWord(c))
  <2> DEFINE m == Smaller(w, NAME_SIZE)
  <2>1. m \in Nat /\ m <= w
    BY <1>1, <1>2 DEF Smaller
  <2>2. /\ Cut(FirstWord(c)) \in Seq(STRING) /\ Len(Cut(FirstWord(c))) = m
        /\ \A k \in 1 .. m : Cut(FirstWord(c))[k] = FirstWord(c)[k]
    BY <1>5, CutIs
  <2> HIDE DEF m
  <2>3. /\ SubSeq(c, 1, m) \in Seq(STRING) /\ Len(SubSeq(c, 1, m)) = m
        /\ \A k \in 1 .. m : SubSeq(c, 1, m)[k] = c[k]
    <3>1. m \in Int /\ 1 \in Int /\ \A k \in 1 .. m : c[k] \in STRING
      BY <1>2, <1>4, <2>1
    <3>2. IF 1 <= m THEN m - 1 + 1 = m ELSE m = 0
      BY <2>1
    <3> QED
      BY <3>1, <3>2, SubSeqProperties
  <2>4. \A k \in 1 .. m : SubSeq(c, 1, m)[k] = Cut(FirstWord(c))[k]
    BY <1>5, <2>1, <2>2, <2>3
  <2>5. SubSeq(c, 1, m) = Cut(FirstWord(c))
    BY <2>2, <2>3, <2>4, SeqEqual
  <2> QED
    BY <2>5 DEF m
<1> QED
  BY <1>3, <1>5, <1>6

-----------------------------------------------------------------------------
(* The look-up.                                                            *)

(* A string the kernel is given has its terminator at its end.             *)
Strings == { s \in Seq(STRING) : Nul \notin ToSet(s) }

LEMMA StringCharacters ==
  ASSUME NEW s \in Strings
  PROVE  s \in Seq(STRING) /\ Len(s) \in Nat /\ \A k \in 1 .. Len(s) : s[k] # Nul
BY LenProperties DEF Strings, ToSet

(* strncmp finds two strings the same when the entry has what is left of   *)
(* the other after the cut, no more and no less.                           *)
LEMMA SameNameIs ==
  ASSUME NEW fname \in Strings, NEW e \in 1 .. MAX_FILE
  PROVE  SameName(fname, names[e]) <=> names[e] = Cut(fname)
<1> DEFINE name == names[e]
           cut  == Cut(fname)
<1>1. /\ name \in Seq(STRING) /\ Len(name) \in 0 .. NAME_SIZE
      /\ \A k \in 1 .. Len(name) : name[k] # Nul
      /\ NAME_SIZE \in Nat \ {0}
  BY NamesTypes
<1>2. fname \in Seq(STRING) /\ Len(fname) \in Nat /\ \A k \in 1 .. Len(fname) : fname[k] # Nul
  BY StringCharacters
<1>3. /\ cut \in Seq(STRING) /\ Len(cut) = Smaller(Len(fname), NAME_SIZE)
      /\ \A k \in 1 .. Len(cut) : cut[k] = fname[k]
  BY <1>2, CutIs
<1>4. Len(cut) \in Nat /\ Len(cut) <= NAME_SIZE /\ Len(cut) <= Len(fname)
      /\ (Len(cut) = Len(fname) \/ Len(cut) = NAME_SIZE)
  BY <1>1, <1>2, <1>3 DEF Smaller
<1> HIDE DEF name, cut
<1>5. ASSUME SameName(fname, name) PROVE name = cut
  <2>1. \A k \in 1 .. NAME_SIZE : CharAt(fname, k) = CharAt(name, k)
    BY <1>5 DEF SameName
  <2>2. ASSUME Len(name) < Len(cut) PROVE FALSE
    <3> DEFINE k == Len(name) + 1
    <3>1. k \in 1 .. NAME_SIZE /\ k <= Len(fname) /\ ~ (k <= Len(name)) /\ k \in 1 .. Len(fname)
      BY <1>1, <1>2, <1>4, <2>2
    <3>2. CharAt(fname, k) = fname[k] /\ CharAt(name, k) = Nul
      BY <3>1 DEF CharAt
    <3> QED
      BY <1>2, <2>1, <3>1, <3>2
  <2>3. ASSUME Len(name) > Len(cut) PROVE FALSE
    <3> DEFINE k == Len(cut) + 1
    <3>1. k \in 1 .. NAME_SIZE /\ ~ (k <= Len(fname)) /\ k <= Len(name) /\ k \in 1 .. Len(name)
      BY <1>1, <1>2, <1>4, <2>3
    <3>2. CharAt(fname, k) = Nul /\ CharAt(name, k) = name[k]
      BY <3>1 DEF CharAt
    <3> QED
      BY <1>1, <2>1, <3>1, <3>2
  <2>4. Len(name) = Len(cut)
    BY <1>1, <1>4, <2>2, <2>3
  <2>5. ASSUME NEW k \in 1 .. Len(name) PROVE name[k] = cut[k]
    <3>1. k \in 1 .. NAME_SIZE /\ k <= Len(fname) /\ k <= Len(name) /\ k \in 1 .. Len(cut)
      BY <1>1, <1>4, <2>4
    <3>2. CharAt(fname, k) = fname[k] /\ CharAt(name, k) = name[k]
      BY <3>1 DEF CharAt
    <3> QED
      BY <1>3, <2>1, <3>1, <3>2
  <2> QED
    BY <1>1, <1>3, <2>4, <2>5, SeqEqual
<1>6. ASSUME name = cut PROVE SameName(fname, name)
  <2>1. ASSUME NEW k \in 1 .. NAME_SIZE PROVE CharAt(fname, k) = CharAt(name, k)
    <3>1. CASE k <= Len(cut)
      <4>1. k \in 1 .. Len(cut) /\ k <= Len(fname) /\ k <= Len(name)
        BY <1>4, <1>6, <3>1
      <4> QED
        BY <1>3, <1>6, <4>1 DEF CharAt
    <3>2. CASE ~ (k <= Len(cut))
      <4>1. ~ (k <= Len(fname)) /\ ~ (k <= Len(name))
        BY <1>1, <1>2, <1>4, <1>6, <3>2
      <4> QED
        BY <4>1 DEF CharAt
    <3> QED
      BY <3>1, <3>2
  <2> QED
    BY <2>1 DEF SameName
<1> QED
  BY <1>5, <1>6 DEF name, cut

(* read_dentry_by_name finds the first slot with the name, if there is     *)
(* one: it is determined, and nothing else is found.                       *)
LEMMA LookupFinds ==
  ASSUME NEW fname \in Strings, fname # <<>>
  PROVE  LET e == Lookup(fname)
         IN  \/ e = 0 /\ \A k \in 1 .. MAX_FILE : names[k] # Cut(fname)
             \/ /\ e \in 1 .. MAX_FILE /\ names[e] = Cut(fname)
                /\ \A k \in 1 .. e - 1 : names[k] # Cut(fname)
<1> DEFINE matches == { k \in 1 .. MAX_FILE : SameName(fname, names[k]) }
<1>1. MAX_FILE \in Nat
  BY NamesTypes
<1>2. \A k \in 1 .. MAX_FILE : k \in matches <=> names[k] = Cut(fname)
  BY SameNameIs
<1>3. CASE matches = {}
  <2>1. Lookup(fname) = 0
    BY <1>3 DEF Lookup, SelectInSeq, MAX_FILE
  <2> HIDE DEF matches
  <2> QED
    BY <1>2, <1>3, <2>1
<1>4. CASE matches # {}
  <2>1. Lookup(fname) = Min(matches)
    BY <1>4 DEF Lookup, SelectInSeq, MAX_FILE
  <2>2. matches \subseteq Nat /\ matches \subseteq 1 .. MAX_FILE
    BY <1>1
  <2> HIDE DEF matches
  <2>3. \E e \in matches : \A k \in matches : e <= k
    BY <1>4, <2>2, LeastNatural
  <2> DEFINE e == Lookup(fname)
  <2>4. e \in matches /\ \A k \in matches : e <= k
    BY <2>1, <2>3 DEF Min
  <2> HIDE DEF e
  <2>5. e \in 1 .. MAX_FILE /\ names[e] = Cut(fname)
    BY <1>2, <2>2, <2>4
  <2>6. ASSUME NEW k \in 1 .. e - 1 PROVE names[k] # Cut(fname)
    <3>1. k \in 1 .. MAX_FILE /\ ~ (e <= k)
      BY <1>1, <2>5
    <3> QED
      BY <1>2, <2>4, <3>1
  <2> QED
    BY <2>5, <2>6 DEF e
<1> QED
  BY <1>3, <1>4

-----------------------------------------------------------------------------
(* What LooksUpName says of a look-up.                                     *)
Finds(e, fname) ==
  IF e = 0 THEN fname = <<>> \/ Cut(fname) \notin ToSet(names)
  ELSE names[e] = Cut(fname) /\ \A k \in 1 .. e - 1 : names[k] # Cut(fname)

LEMMA LookupCorrect == ASSUME NEW fname \in Strings PROVE Finds(Lookup(fname), fname)
<1>1. DOMAIN names = 1 .. MAX_FILE /\ MAX_FILE \in Nat
  BY NamesTypes
<1>2. CASE fname = <<>>
  BY <1>2 DEF Finds, Lookup
<1>3. CASE fname # <<>> /\ Lookup(fname) = 0
  <2>1. \A k \in 1 .. MAX_FILE : names[k] # Cut(fname)
    BY <1>1, <1>3, LookupFinds
  <2> QED
    BY <1>1, <1>3, <2>1 DEF Finds, ToSet
<1>4. CASE fname # <<>> /\ Lookup(fname) # 0
  BY <1>4, LookupFinds DEF Finds
<1> QED
  BY <1>2, <1>3, <1>4

LEMMA CommandWord ==
  ASSUME NEW c \in Commands
  PROVE  /\ c \in Seq(STRING) /\ Len(c) <= ARG_SIZE
         /\ FirstWord(c) \in Seq(STRING) /\ parse(c).file_name = Cut(FirstWord(c))
         /\ parse(c).file_name \in Strings
<1>1. c \in Strings /\ c \in Seq(STRING) /\ Len(c) <= ARG_SIZE
  BY NamesAssumption DEF Strings
<1>2. FirstWord(c) \in Seq(STRING) /\ parse(c).file_name = Cut(FirstWord(c))
  BY <1>1, FileName
<1> DEFINE word == FirstWord(c)
           name == Cut(word)
<1>3. Len(c) \in Nat /\ \A k \in 1 .. Len(c) : c[k] # Nul
  BY <1>1, StringCharacters
<1>4. WordLength(c, 0) \in 0 .. Len(c)
  BY <1>1, <1>3, WordLonger
<1>5. Len(word) = WordLength(c, 0) /\ \A k \in 1 .. Len(word) : word[k] = c[k]
  <2>1. \A k \in 1 .. WordLength(c, 0) : c[k] \in STRING
    BY <1>1, <1>3, <1>4, ElementOfSeq
  <2> QED
    BY <1>4, <2>1, SubSeqProperties DEF FirstWord
<1>6. /\ name \in Seq(STRING) /\ Len(name) = Smaller(Len(word), NAME_SIZE)
      /\ \A k \in 1 .. Len(name) : name[k] = word[k]
  BY <1>2, CutIs
<1> HIDE DEF word, name
<1>7. Len(name) <= Len(word) /\ Len(name) \in Nat
  BY <1>4, <1>5, <1>6, NamesAssumption DEF Smaller
<1>8. ASSUME NEW k \in 1 .. Len(name) PROVE name[k] # Nul
  <2>1. k \in 1 .. Len(word) /\ k \in 1 .. Len(c)
    BY <1>3, <1>4, <1>5, <1>7
  <2> QED
    BY <1>3, <1>5, <1>6, <2>1
<1>9. name \in Strings
  <2>1. DOMAIN name = 1 .. Len(name)
    BY <1>6, LenProperties
  <2> QED
    BY <1>6, <1>8, <2>1 DEF Strings, ToSet
<1> QED
  BY <1>1, <1>2, <1>9 DEF name, word

(* syscall.c, execute and open, file_system.c, read_dentry_by_name: for    *)
(* every directory, command and name, the program that is executed and the *)
(* file that is opened is the first entry with the name that was asked     *)
(* for, and where none has it nothing is found.                            *)
THEOREM LooksUpCorrect == Spec => []LooksUpName
<1> DEFINE Asked == IF call.name = "execute" THEN FirstWord(call.string) ELSE call.string
<1>1. LooksUpName <=> Finds(found, Asked)
  BY DEF LooksUpName, Finds, Cut
<1>2. Init => LooksUpName
  <2> SUFFICES ASSUME Init PROVE Finds(found, Asked)
    BY <1>1
  <2>1. found = 0 /\ Asked = <<>>
    BY DEF Init
  <2> QED
    BY <2>1 DEF Finds
<1>3. LooksUpName /\ [Next]_vars => LooksUpName'
  <2> SUFFICES ASSUME LooksUpName, [Next]_vars PROVE LooksUpName'
    OBVIOUS
  <2>1. CASE UNCHANGED lookupVars
    BY <2>1 DEF lookupVars, LooksUpName
  <2>2. ASSUME NEW c \in Commands, Execute(c) PROVE LooksUpName'
    <3>1. /\ found' = Lookup(parse(c).file_name)
          /\ call' = [name |-> "execute", string |-> c]
      BY <2>2 DEF Execute
    <3>2. call'.name = "execute" /\ call'.string = c
      BY <3>1
    <3>3. /\ FirstWord(c) \in Seq(STRING) /\ parse(c).file_name = Cut(FirstWord(c))
          /\ parse(c).file_name \in Strings
      BY CommandWord
    <3>4. Finds(found', parse(c).file_name)
      BY <3>1, <3>3, LookupCorrect
    <3>5. Cut(parse(c).file_name) = Cut(FirstWord(c))
      BY <3>3, CutTwice
    <3>6. parse(c).file_name = <<>> => FirstWord(c) = <<>>
      BY <3>3, CutEmpty
    <3>7. Finds(found', FirstWord(c))
      BY <3>4, <3>5, <3>6 DEF Finds
    <3> QED
      BY <3>2, <3>7 DEF LooksUpName, Finds, Cut
  <2>3. ASSUME NEW fname \in FileNames, Open(fname) PROVE LooksUpName'
    <3>1. found' = Lookup(fname) /\ call' = [name |-> "open", string |-> fname]
      BY <2>3 DEF Open
    <3>2. call'.name = "open" /\ call'.string = fname
      BY <3>1
    <3>3. fname \in Strings
      BY NamesAssumption DEF Strings
    <3>4. Finds(found', fname)
      BY <3>1, <3>3, LookupCorrect
    <3> QED
      BY <3>2, <3>4 DEF LooksUpName, Finds, Cut
  <2>4. ASSUME NEW r, DirOpen(r) PROVE LooksUpName'
    BY <2>1, <2>4 DEF DirOpen
  <2>5. ASSUME NEW r, NEW nbytes, DirRead(r, nbytes) PROVE LooksUpName'
    BY <2>1, <2>5 DEF DirRead
  <2> QED
    BY <2>1, <2>2, <2>3, <2>4, <2>5 DEF Next, vars
<1> QED
  BY <1>2, <1>3, PTL DEF Spec

LEMMA ArgumentsAre ==
  ASSUME NEW c \in Seq(STRING), Len(c) <= ARG_SIZE, NEW k \in ArgIndex,
         NEW words, words = { s \in Spaces(c) : WordLength(c, s) > k }
  PROVE  parse(c).argument[k] = IF words = {} \/ WordLength(c, 0) > NAME_SIZE THEN Nul
                                ELSE c[Max(words) + 1 + k]
<1> DEFINE p == parse(c)
<1>1. Len(c) \in Nat /\ DOMAIN c = 1 .. Len(c) /\ k \in Nat
  BY LenProperties, NamesAssumption DEF ArgIndex
<1>2. LoopInv(c, Len(c), p)
  BY LoopAlways
<1>3. p.stop <=> WordLength(c, 0) > NAME_SIZE
  BY NameTaken
<1>4. /\ words \subseteq 1 .. Len(c)
      /\ \A s \in 1 .. Len(c) : s \in words <=> Holds(c, Len(c), s, k)
  <2>1. \A s \in 1 .. Len(c) :
          WordLength(c, s) > k <=> s + 1 + k <= Len(c) /\ NoSpace(c, s, s + 1 + k)
    BY <1>1, WordLonger
  <2>2. \A s : s \in words <=> s \in 1 .. Len(c) /\ c[s] = Space /\ WordLength(c, s) > k
    BY <1>1 DEF Spaces
  <2> QED
    BY <2>1, <2>2 DEF Holds
<1> HIDE DEF p
<1>5. CASE p.stop
  <2>1. p.argument = NoArgs
    BY <1>2, <1>5 DEF LoopInv, CutInv
  <2>2. p.argument[k] = Nul
    BY <2>1 DEF NoArgs
  <2> QED
    BY <1>3, <1>5, <2>2 DEF p
<1>6. CASE ~ p.stop
  <2>1. Overlaid(c, Len(c), k, p.argument[k])
    BY <1>2, <1>6 DEF LoopInv, WordInv
  <2>2. CASE words = {}
    <3>1. p.argument[k] = Nul
      BY <1>4, <2>1, <2>2 DEF Overlaid
    <3> QED
      BY <2>2, <3>1 DEF p
  <2>3. CASE words # {}
    <3>1. ~ \A s \in 1 .. Len(c) : ~ Holds(c, Len(c), s, k)
      BY <1>4, <2>3
    <3>2. PICK s \in 1 .. Len(c) :
            /\ Holds(c, Len(c), s, k) /\ p.argument[k] = c[s + 1 + k]
            /\ \A t \in 1 .. Len(c) : Holds(c, Len(c), t, k) => t <= s
      BY <2>1, <3>1 DEF Overlaid
    <3>3. s \in words /\ \A t \in words : t <= s
      BY <1>4, <3>2
    <3>4. \A m \in words : (\A t \in words : m >= t) => m = s
      BY <1>1, <1>4, <3>3
    <3>5. Max(words) = s
      BY <1>1, <1>4, <3>3, <3>4 DEF Max
    <3> QED
      BY <1>3, <1>6, <2>3, <3>2, <3>5 DEF p
  <2> QED
    BY <2>2, <2>3
<1> QED
  BY <1>5, <1>6

LEMMA OneArgument ==
  ASSUME NEW c \in Seq(STRING), Len(c) <= ARG_SIZE, WordLength(c, 0) <= NAME_SIZE,
         \A s, t \in ArgumentWords(c) : s = t, NEW k \in ArgIndex
  PROVE  /\ \A s \in ArgumentWords(c) :
              parse(c).argument[k] = IF k < WordLength(c, s) THEN c[s + 1 + k] ELSE Nul
         /\ ArgumentWords(c) = {} => parse(c).argument[k] = Nul
<1> DEFINE words == { s \in Spaces(c) : WordLength(c, s) > k }
<1>1. Len(c) \in Nat /\ DOMAIN c = 1 .. Len(c) /\ k \in Nat /\ NAME_SIZE \in Nat
  BY LenProperties, NamesAssumption DEF ArgIndex
<1>2. WordLength(c, 0) \in Nat /\ \A s \in Spaces(c) : s \in Nat /\ WordLength(c, s) \in Nat
  BY <1>1, WordLonger DEF Spaces
<1>3. parse(c).argument[k] = IF words = {} \/ WordLength(c, 0) > NAME_SIZE THEN Nul
                             ELSE c[Max(words) + 1 + k]
  BY ArgumentsAre
<1>4. /\ words \subseteq ArgumentWords(c)
      /\ \A s \in ArgumentWords(c) : s \in words <=> k < WordLength(c, s)
  BY <1>1, <1>2 DEF ArgumentWords
<1>5. ArgumentWords(c) \subseteq Nat
  BY <1>2 DEF ArgumentWords
<1> HIDE DEF words
<1>6. ASSUME NEW s \in ArgumentWords(c), k < WordLength(c, s)
      PROVE  words # {} /\ Max(words) = s
  <2>1. words = {s}
    BY <1>4, <1>6
  <2>2. s >= s
    BY <1>5
  <2>3. Max(words) = CHOOSE m \in {s} : \A t \in {s} : m >= t
    BY <2>1 DEF Max
  <2> QED
    BY <2>1, <2>2, <2>3
<1>7. ASSUME NEW s \in ArgumentWords(c), ~ (k < WordLength(c, s))
      PROVE  words = {}
  BY <1>4, <1>7
<1>8. ~ (WordLength(c, 0) > NAME_SIZE)
  BY <1>1, <1>2
<1> QED
  BY <1>3, <1>4, <1>6, <1>7, <1>8

(* syscall.c, parse: for every command that fits, with a name that is not  *)
(* cut and one argument or none, the argument buffer holds that argument   *)
(* and nothing of the commands before.                                     *)
THEOREM ArgumentsCorrect == Spec => []HoldsArguments
<1>1. Init => HoldsArguments
  <2> SUFFICES ASSUME Init PROVE call.name # "execute"
    BY DEF HoldsArguments
  <2>1. call = [name |-> "none", string |-> <<>>]
    BY DEF Init
  <2> QED
    BY <2>1
<1>2. HoldsArguments /\ [Next]_vars => HoldsArguments'
  <2> SUFFICES ASSUME HoldsArguments, [Next]_vars PROVE HoldsArguments'
    OBVIOUS
  <2>1. CASE UNCHANGED lookupVars
    BY <2>1 DEF lookupVars, HoldsArguments
  <2>2. ASSUME NEW c \in Commands, Execute(c) PROVE HoldsArguments'
    <3>1. /\ arg_buf' = parse(c).argument
          /\ call' = [name |-> "execute", string |-> c]
      BY <2>2 DEF Execute
    <3>2. call'.string = c
      BY <3>1
    <3>3. c \in Seq(STRING) /\ Len(c) <= ARG_SIZE
      BY NamesAssumption
    <3>4. ASSUME WordLength(c, 0) <= NAME_SIZE, \A s, t \in ArgumentWords(c) : s = t,
                 NEW k \in ArgIndex
          PROVE  /\ \A s \in ArgumentWords(c) :
                      arg_buf'[k] = IF k < WordLength(c, s) THEN c[s + 1 + k] ELSE Nul
                 /\ ArgumentWords(c) = {} => arg_buf'[k] = Nul
      BY <3>1, <3>3, <3>4, OneArgument
    <3> QED
      BY <3>2, <3>4 DEF HoldsArguments
  <2>3. ASSUME NEW fname \in FileNames, Open(fname) PROVE HoldsArguments'
    <3>1. call' = [name |-> "open", string |-> fname]
      BY <2>3 DEF Open
    <3>2. call'.name # "execute"
      BY <3>1
    <3> QED
      BY <3>2 DEF HoldsArguments
  <2>4. ASSUME NEW r, DirOpen(r) PROVE HoldsArguments'
    BY <2>1, <2>4 DEF DirOpen
  <2>5. ASSUME NEW r, NEW nbytes, DirRead(r, nbytes) PROVE HoldsArguments'
    BY <2>1, <2>5 DEF DirRead
  <2> QED
    BY <2>1, <2>2, <2>3, <2>4, <2>5 DEF Next, vars
<1> QED
  BY <1>1, <1>2, PTL DEF Spec

-----------------------------------------------------------------------------
(* The file system of FileSystem and Syscalls, which takes file names as a *)
(* whole: direntries are the slots of its directory.                       *)
CONSTANTS BLOCK_SIZE, inodes, BLOCKS, data_count, data_word

Directory(direntries) == INSTANCE FileSystem

(* What FileSystem's NamesFound finds for a name that is cut to NAME_SIZE  *)
(* bytes is what read_dentry_by_name finds for the string, byte by byte,   *)
(* among all slots.                                                        *)
THEOREM LookupAbstracts ==
  ASSUME NEW direntries, DOMAIN direntries = 1 .. MAX_FILE,
         \A k \in 1 .. MAX_FILE : direntries[k].filename = names[k],
         NEW fname \in Strings, fname # <<>>
  PROVE  Directory(direntries)!NamesFound(Cut(fname))
           = IF Lookup(fname) = 0 THEN {} ELSE {Lookup(fname)}
<1>1. MAX_FILE \in Nat
  BY NamesTypes
<1> QED
  BY <1>1, LookupFinds DEF Directory!NamesFound

=============================================================================
