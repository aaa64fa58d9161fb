-------------------------- MODULE SynchDiskProofs ---------------------------
(***************************************************************************)
(* The synchronous disk is correct for every set of threads, every         *)
(* geometry of the disk and any number of calls.                           *)
(***************************************************************************)
EXTENDS SynchDisk, TLAPS

(* Products, quotients and remainders of naturals are naturals.            *)
LEMMA Product == ASSUME NEW m \in Nat, NEW n \in Nat PROVE m * n \in Nat
  OBVIOUS
LEMMA Division ==
    ASSUME NEW m \in Nat, NEW n \in Nat \ {0}
    PROVE  m \div n \in Nat /\ m % n \in 0..(n - 1)
  OBVIOUS
LEMMA Remainder == ASSUME NEW m \in Int, NEW n \in Nat \ {0} PROVE m % n \in 0..(n - 1)
  OBVIOUS

(* The times that TimeToSeek and ComputeLatency compute are naturals.      *)
LEMMA LatencyType ==
    ASSUME TypeOK, NEW s \in Sectors, NEW writing \in BOOLEAN
    PROVE  /\ TimeToSeek(s) \in Nat /\ Rotation(s) \in Nat
           /\ ComputeLatency(s, writing) \in Nat
<1> USE DiskAssumption
<1>1. s \in Nat /\ lastSector \in Nat /\ totalTicks \in Nat /\ bufferInit \in Nat
  BY Product DEF TypeOK, Sectors, NumSectors
<1>2. TimeToSeek(s) \in Nat
  <2>1. s \div SectorsPerTrack \in Nat /\ lastSector \div SectorsPerTrack \in Nat
    BY <1>1, Division
  <2>2. Distance(s \div SectorsPerTrack, lastSector \div SectorsPerTrack) \in Nat
    BY <2>1 DEF Distance
  <2> QED BY <2>2, Product DEF TimeToSeek
<1>3. Rotation(s) \in Nat
  <2>1. totalTicks + TimeToSeek(s) \in Nat
    BY <1>1, <1>2
  <2>2. (totalTicks + TimeToSeek(s)) % RotationTime \in 0..(RotationTime - 1)
    BY <2>1, Division, Zenon
  <2> QED BY <2>2 DEF Rotation
<1>4. ASSUME NEW x \in Nat PROVE ModuloDiff(s, x) \in Nat
  <2>1. s % SectorsPerTrack \in Int /\ x % SectorsPerTrack \in Int
    BY <1>1, Division
  <2>2. ((s % SectorsPerTrack) - (x % SectorsPerTrack)) + SectorsPerTrack \in Int
    BY <2>1
  <2>3. ModuloDiff(s, x) \in 0..(SectorsPerTrack - 1)
    BY <2>2, Remainder, Zenon DEF ModuloDiff
  <2> QED BY <2>3
<1>5. ComputeLatency(s, writing) \in Nat
  <2> DEFINE after == totalTicks + TimeToSeek(s) + Rotation(s)
  <2> HIDE DEF after
  <2>1. after \in Nat
    BY <1>1, <1>2, <1>3 DEF after
  <2>2. after \div RotationTime \in Nat
    BY <2>1, Division
  <2>3. ModuloDiff(s, after \div RotationTime) \in Nat
    BY <2>2, <1>4
  <2>4. ModuloDiff(s, after \div RotationTime) * RotationTime \in Nat
    BY <2>3, Product
  <2> QED BY <1>2, <1>3, <2>4 DEF ComputeLatency, after
<1> QED BY <1>2, <1>3, <1>5

(* Division by a positive number: quotient and remainder exist and are     *)
(* unique, and multiplication is monotone.                                 *)
LEMMA DivMod ==
    ASSUME NEW m \in Int, NEW n \in Nat \ {0}
    PROVE  /\ m = (m \div n) * n + (m % n)
           /\ m \div n \in Int /\ m % n \in 0..(n - 1)
  OBVIOUS
LEMMA Monotone ==
    ASSUME NEW k \in Int, NEW l \in Int, k < l, NEW n \in Nat \ {0}
    PROVE  k * n + n <= l * n
  OBVIOUS
LEMMA DivModUnique ==
    ASSUME NEW m \in Int, NEW n \in Nat \ {0}, NEW k \in Int, NEW r \in 0..(n - 1),
           m = k * n + r
    PROVE  m \div n = k /\ m % n = r
<1> DEFINE d == m \div n
           e == m % n
<1>1. m = d * n + e /\ d \in Int /\ e \in 0..(n - 1)
  BY DivMod
<1> HIDE DEF d, e
<1>2. ~(k < d) /\ ~(d < k)
  BY <1>1, Monotone
<1>3. k = d
  BY <1>1, <1>2
<1>4. e = r
  BY <1>1, <1>3
<1> QED BY <1>3, <1>4 DEF d, e

(* ModuloDiff is the number of sectors until the head, at sector a of its  *)
(* rotation, next comes to s: that many later it is there, and it is not   *)
(* there before.                                                           *)
LEMMA ModuloDiffIsNext ==
    ASSUME NEW s \in Nat, NEW a \in Nat
    PROVE  /\ ModuloDiff(s, a) \in 0..(SectorsPerTrack - 1)
           /\ (a + ModuloDiff(s, a)) % SectorsPerTrack = s % SectorsPerTrack
           /\ \A j \in Int : j >= a /\ j % SectorsPerTrack = s % SectorsPerTrack =>
                 j >= a + ModuloDiff(s, a)
<1> USE DiskAssumption
<1> DEFINE n == SectorsPerTrack
           x == s % n
           y == a % n
           k == a \div n
           m == ModuloDiff(s, a)
<1>1. n \in Nat \ {0}
  OBVIOUS
<1>2. x \in 0..(n - 1) /\ y \in 0..(n - 1) /\ k \in Int /\ a = k * n + y /\ k * n \in Int
  BY <1>1, DivMod
<1>3. m = ((x - y) + n) % n
  BY DEF ModuloDiff
<1> HIDE DEF x, y, k, m, n
<1>4. CASE x >= y
  <2>1. x - y \in 0..(n - 1) /\ (x - y) + n = 1 * n + (x - y)
    BY <1>1, <1>2, <1>4
  <2>2. m = x - y
    BY <1>1, <1>3, <2>1, DivModUnique, 1 \in Int, (x - y) + n \in Int, Zenon
  <2>3. a + m = k * n + x /\ a + m \in Int
    BY <1>1, <1>2, <2>2
  <2>4. (a + m) % n = x
    BY <1>1, <1>2, <2>3, DivModUnique, Zenon
  <2>5. ASSUME NEW j \in Int, j >= a, j % n = x PROVE j >= a + m
    <3>1. j = (j \div n) * n + x /\ j \div n \in Int
      BY <1>1, <2>5, DivMod
    <3>2. ~(j \div n < k)
      BY <1>1, <1>2, <2>5, <3>1, Monotone
    <3>3. j \div n = k \/ k * n + n <= (j \div n) * n
      BY <1>1, <1>2, <3>1, <3>2, Monotone
    <3> QED BY <1>1, <1>2, <2>3, <3>1, <3>3
  <2> QED BY <2>1, <2>2, <2>4, <2>5 DEF x, m, n
<1>5. CASE x < y
  <2>1. (x - y) + n \in 0..(n - 1) /\ (x - y) + n = 0 * n + ((x - y) + n)
    BY <1>1, <1>2, <1>5
  <2>2. m = (x - y) + n
    BY <1>1, <1>3, <2>1, DivModUnique, 0 \in Int, (x - y) + n \in Int, Zenon
  <2>3. a + m = (k + 1) * n + x /\ (k + 1) * n = k * n + n /\ a + m \in Int /\ k + 1 \in Int
    BY <1>1, <1>2, <2>2
  <2>4. (a + m) % n = x
    BY <1>1, <1>2, <2>3, DivModUnique, Zenon
  <2>5. ASSUME NEW j \in Int, j >= a, j % n = x PROVE j >= a + m
    <3>1. j = (j \div n) * n + x /\ j \div n \in Int
      BY <1>1, <2>5, DivMod
    <3>2. ~(j \div n < k) /\ j \div n # k
      BY <1>1, <1>2, <1>5, <2>5, <3>1, Monotone
    <3>3. k * n + n <= (j \div n) * n
      BY <1>1, <1>2, <3>1, <3>2, Monotone
    <3> QED BY <1>1, <1>2, <2>3, <3>1, <3>3
  <2> QED BY <2>1, <2>2, <2>4, <2>5 DEF x, m, n
<1> QED BY <1>2, <1>4, <1>5

(* From the boundary of two sectors at or after the time from, the head    *)
(* has passed s after ModuloDiff sectors and s itself.                     *)
LEMMA PassedAfter ==
    ASSUME NEW s \in Nat, NEW from \in Nat, NEW a \in Nat,
           from <= a * RotationTime, a * RotationTime < from + RotationTime
    PROVE  PassedAt(s, from) = ((a + ModuloDiff(s, a)) + 1) * RotationTime
<1> USE DiskAssumption
<1> DEFINE R == RotationTime
           n == SectorsPerTrack
           m == ModuloDiff(s, a)
           f0 == ((a + m) + 1) * R
           Passes(f) == /\ f % R = 0 /\ f - R >= from
                        /\ ((f \div R) - 1) % n = s % n
           All == from..(from + (n + 2) * R)
           First(f) == Passes(f) /\ \A g \in from..(f - 1) : ~Passes(g)
<1>1. /\ R \in Nat \ {0} /\ n \in Nat \ {0} /\ m \in 0..(n - 1) /\ (a + m) % n = s % n
      /\ \A j \in Int : j >= a /\ j % n = s % n => j >= a + m
  BY ModuloDiffIsNext
<1>2. PassedAt(s, from) = CHOOSE f \in All : First(f)
  BY DEF PassedAt
<1>r. from <= a * R /\ a * R < from + R
  OBVIOUS
<1> HIDE DEF R, n, m
<1>3. f0 = (a + m) * R + R /\ (a + m) * R = a * R + m * R /\ a * R \in Nat /\ m * R \in Nat
  BY <1>1
<1>4. Passes(f0)
  <2>1. f0 = ((a + m) + 1) * R + 0 /\ 0 \in 0..(R - 1) /\ f0 \in Int /\ (a + m) + 1 \in Int
    BY <1>1, <1>3
  <2>2. f0 \div R = (a + m) + 1 /\ f0 % R = 0
    BY <1>1, <2>1, DivModUnique, Zenon
  <2> HIDE DEF f0
  <2>3. f0 - R >= from
    BY <1>1, <1>3, <1>r
  <2> QED BY <1>1, <2>2, <2>3
<1> HIDE DEF f0
<1>5. ASSUME NEW g \in Int, Passes(g) PROVE g >= f0
  <2> DEFINE k == g \div R
  <2>1. g = k * R + 0 /\ k \in Int /\ g - R >= from
    BY <1>1, <1>5, DivMod
  <2>2. (k - 1) % n = s % n
    BY <1>5
  <2> HIDE DEF k
  <2>3. ~(k < a) /\ k # a
    BY <1>1, <1>r, <2>1, Monotone
  <2>4. k - 1 >= a + m
    BY <1>1, <2>1, <2>2, <2>3
  <2>5. k = (a + m) + 1 \/ ((a + m) + 1) * R + R <= k * R
    BY <1>1, <2>1, <2>4, Monotone
  <2> QED BY <1>1, <1>3, <2>1, <2>5 DEF f0
<1>6. f0 \in All
  <2>1. m * R + R <= n * R /\ n * R \in Nat
    BY <1>1, Monotone
  <2>2. (n + 2) * R = n * R + R + R
    BY <1>1
  <2> QED BY <1>1, <1>3, <1>r, <2>1, <2>2
<1> HIDE DEF Passes
<1>7. f0 \in Int
  BY <1>1, <1>3
<1>8. First(f0)
  BY <1>4, <1>5, <1>7
<1>9. ASSUME NEW f \in All, First(f) PROVE f = f0
  <2>1. f \in Int /\ f >= f0
    BY <1>5, <1>9, <1>1
  <2>2. ~(f0 \in from..(f - 1))
    BY <1>4, <1>9
  <2> QED BY <1>6, <1>7, <2>1, <2>2
<1> HIDE DEF First, All
<1>10. (CHOOSE f \in All : First(f)) = f0
  BY <1>6, <1>8, <1>9
<1> QED BY <1>2, <1>10 DEF f0, R, m

(* Seek and Rotation lead to the first boundary after the seek.            *)
LEMMA RotationToBoundary ==
    ASSUME TypeOK, NEW s \in Sectors
    PROVE  \E a \in Nat :
              /\ totalTicks + TimeToSeek(s) + Rotation(s) = a * RotationTime
              /\ totalTicks + TimeToSeek(s) <= a * RotationTime
              /\ a * RotationTime < totalTicks + TimeToSeek(s) + RotationTime
<1> USE DiskAssumption
<1> DEFINE R == RotationTime
           from == totalTicks + TimeToSeek(s)
           over == from % R
           k == from \div R
<1>1. R \in Nat \ {0} /\ from \in Nat /\ Rotation(s) = IF over > 0 THEN R - over ELSE 0
  BY LatencyType DEF TypeOK, Rotation
<1> HIDE DEF from, R
<1>2. from = k * R + over /\ k \in Nat /\ over \in 0..(R - 1)
  BY <1>1, from \in Int, DivMod, Division, Zenon
<1> HIDE DEF over, k
<1>3. (k + 1) * R = k * R + R /\ k * R \in Nat
  BY <1>1, <1>2
<1>4. CASE over > 0
  <2>1. from + Rotation(s) = (k + 1) * R
    BY <1>1, <1>2, <1>3, <1>4
  <2>2. from <= (k + 1) * R /\ (k + 1) * R < from + R /\ k + 1 \in Nat
    BY <1>1, <1>2, <1>3, <1>4
  <2> QED BY <2>1, <2>2, Zenon DEF from, R
<1>5. CASE ~(over > 0)
  <2>1. from + Rotation(s) = k * R
    BY <1>1, <1>2, <1>3, <1>5
  <2> QED BY <1>1, <1>2, <1>3, <1>5, <2>1 DEF from, R
<1> QED BY <1>4, <1>5

(* What ComputeLatency computes is the rotation, as long as the track      *)
(* buffer begins at a boundary.                                            *)
LEMMA LatencyRight == TypeOK /\ BufferAtBoundary => LatencyIsRotation
<1> SUFFICES ASSUME TypeOK, BufferAtBoundary, NEW s \in Sectors, NEW writing \in BOOLEAN
             PROVE  ComputeLatency(s, writing) =
                       IF /\ ~writing /\ TimeToSeek(s) = 0
                          /\ PassedAt(s, bufferInit) <= totalTicks + Rotation(s)
                       THEN RotationTime
                       ELSE PassedAt(s, totalTicks + TimeToSeek(s)) - totalTicks
  BY DEF LatencyIsRotation
<1> USE DiskAssumption
<1> DEFINE R == RotationTime
           seek == TimeToSeek(s)
           rot == Rotation(s)
           after == totalTicks + seek + rot
           b == bufferInit \div R
<1>1. /\ s \in Nat /\ R \in Nat \ {0} /\ bufferInit \in Nat /\ totalTicks \in Nat
      /\ seek \in Nat /\ rot \in Nat
  BY LatencyType, Product DEF TypeOK, Sectors, NumSectors
<1>2. PICK a \in Nat : /\ after = a * R /\ totalTicks + seek <= a * R
                       /\ a * R < totalTicks + seek + R
  BY RotationToBoundary
<1>3. bufferInit = b * R + 0 /\ b \in Nat
  BY <1>1, bufferInit \in Int, DivMod, Division, Zenon DEF BufferAtBoundary
<1>4. after \div R = a
  <2>1. after = a * R + 0 /\ 0 \in 0..(R - 1) /\ after \in Int /\ a \in Int
    BY <1>1, <1>2
  <2> QED BY <1>1, <2>1, DivModUnique, Zenon
<1>5. ComputeLatency(s, writing) =
         IF ~writing /\ seek = 0 /\ (after - bufferInit) \div R > ModuloDiff(s, b) THEN R
         ELSE seek + rot + ModuloDiff(s, a) * R + R
  BY <1>4 DEF ComputeLatency, InBuffer
<1> HIDE DEF R, seek, rot, b, after
<1>6. PassedAt(s, totalTicks + seek) = ((a + ModuloDiff(s, a)) + 1) * R
  BY <1>1, <1>2, PassedAfter DEF R
<1>7. PassedAt(s, bufferInit) = ((b + ModuloDiff(s, b)) + 1) * R
  <2>1. bufferInit <= b * R /\ b * R < bufferInit + R
    BY <1>1, <1>3
  <2> QED BY <1>1, <1>3, <2>1, PassedAfter DEF R
<1>8. ModuloDiff(s, a) \in Nat /\ ModuloDiff(s, b) \in Nat
  <2>1. ASSUME NEW c \in Nat PROVE ModuloDiff(s, c) \in Nat
    <3>1. ModuloDiff(s, c) \in 0..(SectorsPerTrack - 1)
      BY <1>1, ModuloDiffIsNext, Zenon
    <3> QED BY <3>1
  <2> QED BY <1>3, <2>1
<1> DEFINE ma == ModuloDiff(s, a)
           mb == ModuloDiff(s, b)
<1>9. seek + rot + ma * R + R = PassedAt(s, totalTicks + seek) - totalTicks
  <2>1. ((a + ma) + 1) * R = a * R + ma * R + R /\ a * R \in Nat /\ ma * R \in Nat
    BY <1>1, <1>8
  <2> QED BY <1>1, <1>2, <1>6, <2>1 DEF after
<1>10. (after - bufferInit) \div R > mb <=> PassedAt(s, bufferInit) <= after
  <2>1. /\ after - bufferInit = (a - b) * R + 0 /\ a - b \in Int
        /\ after - bufferInit \in Int /\ 0 \in 0..(R - 1)
    BY <1>1, <1>2, <1>3
  <2>2. (after - bufferInit) \div R = a - b
    BY <1>1, <2>1, DivModUnique, Zenon
  <2>3. a - b > mb <=> ~(a < (b + mb) + 1)
    BY <1>2, <1>3, <1>8
  <2>4. a < (b + mb) + 1 => a * R + R <= ((b + mb) + 1) * R
    BY <1>1, <1>2, <1>3, <1>8, Monotone
  <2>5. ~(a < (b + mb) + 1) => ((b + mb) + 1) * R <= a * R
    <3>1. CASE a = (b + mb) + 1
      BY <1>1, <1>8, <3>1
    <3>2. CASE (b + mb) + 1 < a
      <4>1. ((b + mb) + 1) * R + R <= a * R
        BY <1>1, <1>2, <1>3, <1>8, <3>2, Monotone
      <4>2. ((b + mb) + 1) * R \in Int /\ a * R \in Int
        BY <1>1, <1>2, <1>3, <1>8
      <4> QED BY <1>1, <4>1, <4>2
    <3> QED BY <1>2, <1>3, <1>8, <3>1, <3>2
  <2>6. ((b + mb) + 1) * R \in Int /\ a * R \in Int
    BY <1>1, <1>2, <1>3, <1>8
  <2> QED BY <1>1, <1>2, <1>7, <2>2, <2>3, <2>4, <2>5, <2>6
<1>11. seek = 0 => after = totalTicks + rot
  BY <1>1 DEF after
<1> QED BY <1>5, <1>9, <1>10, <1>11 DEF R, seek, rot

(* A new disk is idle and nobody uses it.                                  *)
LEMMA InitInv == Init => Inv
<1> SUFFICES ASSUME Init PROVE Inv
  OBVIOUS
<1> USE DiskAssumption DEF Init
<1>1. NumSectors \in Nat \ {0} /\ 0 \in Sectors
  BY DEF NumSectors, Sectors
<1>2. /\ sector \in [Sectors -> Data] /\ data \in [Threads -> Data]
      /\ call \in [Threads -> Calls]
  BY <1>1 DEF Calls
<1>3. /\ {bufferInit, due, totalTicks} \subseteq Nat /\ semaphore \in 0..1 /\ calls \in 0..MaxCalls
      /\ lastSector \in Sectors
  BY <1>1
<1>4. TypeOK
  BY <1>2, <1>3 DEF TypeOK
<1> QED BY <1>4 DEF Inv, OneRequest, ReadIsCurrent, Turns

(* A call begins outside the lock and leaves the disk alone.               *)
LEMMA CallStep == ASSUME Inv, NEW t \in Threads, NEW c \in Calls, Call(t, c) PROVE Inv'
<1> USE DiskAssumption DEF Inv, Call
<1>1. PICK pause \in Pauses : totalTicks' = totalTicks + pause
  OBVIOUS
<1>2. totalTicks' \in Nat /\ calls' \in 0..MaxCalls
  BY <1>1 DEF TypeOK
<1>3. /\ pc' \in [Threads -> {"idle", "acquire", "request", "wait", "release"}]
      /\ call' \in [Threads -> Calls]
  BY DEF TypeOK
<1>4. TypeOK'
  BY <1>2, <1>3 DEF TypeOK
<1>5. \A u \in Threads : u # t => pc'[u] = pc[u] /\ call'[u] = call[u]
  BY DEF TypeOK
<1>6. pc[t] = "idle" /\ pc'[t] = "acquire"
  BY DEF TypeOK
<1>7. ReadIsCurrent'
  BY <1>5, <1>6 DEF ReadIsCurrent
<1>8. Turns'
  BY <1>5, <1>6 DEF Turns
<1> QED BY <1>4, <1>7, <1>8 DEF OneRequest

(* The lock goes to a thread only when it is free, and then there is no    *)
(* request and no V is left over.                                          *)
LEMMA AcquireStep == ASSUME Inv, NEW t \in Threads, Acquire(t) PROVE Inv'
<1> USE DiskAssumption DEF Inv, Acquire, disk
<1>1. TypeOK'
  BY DEF TypeOK, Calls
<1>2. /\ \A u \in Threads : u # t => pc'[u] = pc[u]
      /\ pc[t] = "acquire" /\ pc'[t] = "request"
  BY DEF TypeOK
<1>3. ReadIsCurrent'
  BY <1>2 DEF ReadIsCurrent
<1>4. Turns'
  BY <1>2 DEF Turns
<1> QED BY <1>1, <1>3, <1>4 DEF OneRequest

(* The request finds the disk idle; no other thread is between its request *)
(* and its return, so no other thread's data can become out of date.       *)
LEMMA RequestStep == ASSUME Inv, NEW t \in Threads, DoRequest(t) PROVE Inv'
<1> USE DiskAssumption DEF Inv, DoRequest, Request
<1> DEFINE c == call[t]
<1>1. c \in Calls /\ c.sector \in Sectors /\ c.writing \in BOOLEAN /\ c.value \in Data
  BY DEF TypeOK, Calls
<1>2. /\ TimeToSeek(c.sector) \in Nat /\ Rotation(c.sector) \in Nat
      /\ ComputeLatency(c.sector, c.writing) \in Nat
  BY <1>1, LatencyType
<1>3. bufferInit' \in Nat /\ due' \in Nat /\ lastSector' \in Sectors /\ totalTicks' \in Nat
  BY <1>1, <1>2 DEF TypeOK, UpdateLast
<1>4. /\ \A u \in Threads : u # t => pc'[u] = pc[u] /\ pc[u] \notin {"request", "wait", "release"}
      /\ pc[t] = "request" /\ pc'[t] = "wait"
  BY DEF TypeOK, Turns
<1>5. ~active /\ semaphore = 0
  BY <1>4 DEF Turns
<1>6. sector' \in [Sectors -> Data] /\ data' \in [Threads -> Data] /\ broken' = FALSE
  BY <1>1, <1>5 DEF TypeOK, OneRequest
<1>7. pc' \in [Threads -> {"idle", "acquire", "request", "wait", "release"}]
  BY DEF TypeOK
<1>8. TypeOK'
  BY <1>3, <1>6, <1>7 DEF TypeOK
<1>9. ReadIsCurrent'
  BY <1>1, <1>4 DEF ReadIsCurrent, TypeOK
<1>10. Turns'
  BY <1>4, <1>5 DEF Turns
<1> QED BY <1>6, <1>8, <1>9, <1>10 DEF OneRequest

(* P takes the one V there is: the interrupt of this thread's request.     *)
LEMMA WaitStep == ASSUME Inv, NEW t \in Threads, Wait(t) PROVE Inv'
<1> USE DiskAssumption DEF Inv, Wait, disk
<1>1. TypeOK'
  BY DEF TypeOK, Calls
<1>2. /\ \A u \in Threads : u # t => pc'[u] = pc[u] /\ pc[u] \notin {"request", "wait", "release"}
      /\ pc[t] = "wait" /\ pc'[t] = "release"
  BY DEF TypeOK, Turns
<1>3. ~active /\ semaphore' = 0
  BY <1>2 DEF Turns, TypeOK
<1>4. ReadIsCurrent'
  BY <1>2 DEF ReadIsCurrent
<1>5. Turns'
  BY <1>2, <1>3 DEF Turns
<1> QED BY <1>1, <1>4, <1>5 DEF OneRequest

(* The lock is given up when there is nothing of the request left.         *)
LEMMA ReleaseStep == ASSUME Inv, NEW t \in Threads, Release(t) PROVE Inv'
<1> USE DiskAssumption DEF Inv, Release, disk
<1>1. TypeOK'
  BY DEF TypeOK, Calls
<1>2. /\ \A u \in Threads : u # t => pc'[u] = pc[u] /\ pc[u] \notin {"request", "wait", "release"}
      /\ pc[t] = "release" /\ pc'[t] = "idle"
  BY DEF TypeOK, Turns
<1>3. ReadIsCurrent'
  BY <1>2 DEF ReadIsCurrent
<1>4. Turns'
  BY <1>2 DEF Turns
<1> QED BY <1>1, <1>3, <1>4 DEF OneRequest

(* An interrupt turns the request into a V.                                *)
LEMMA InterruptStep == ASSUME Inv, HandleInterrupt PROVE Inv'
<1> USE DiskAssumption DEF Inv, HandleInterrupt, RequestDone
<1>1. PICK t \in Threads : pc[t] = "wait"
  BY DEF Turns
<1>2. semaphore = 0
  BY <1>1 DEF Turns
<1>3. TypeOK'
  <2>1. semaphore' \in 0..1
    BY <1>2 DEF TypeOK
  <2>2. {bufferInit', due', totalTicks'} \subseteq Nat
    BY DEF TypeOK
  <2> QED BY <2>1, <2>2 DEF TypeOK, Calls
<1>4. ReadIsCurrent'
  BY DEF ReadIsCurrent
<1>5. Turns'
  BY <1>1, <1>2 DEF Turns
<1> QED BY <1>3, <1>4, <1>5 DEF OneRequest

(* Every step keeps the invariant.                                         *)
LEMMA NextInv == Inv /\ [Next]_vars => Inv'
<1> SUFFICES ASSUME Inv, [Next]_vars PROVE Inv'
  OBVIOUS
<1>1. CASE UNCHANGED vars
  BY <1>1 DEF Inv, TypeOK, OneRequest, ReadIsCurrent, Turns, Calls, vars, disk
<1>2. ASSUME NEW t \in Threads, Step(t) PROVE Inv'
  BY <1>2, AcquireStep, RequestStep, WaitStep, ReleaseStep DEF Step
<1>3. ASSUME NEW t \in Threads, NEW c \in Calls, Call(t, c) PROVE Inv'
  BY <1>3, CallStep
<1> QED BY <1>1, <1>2, <1>3, InterruptStep DEF Next

(* The invariant holds for any number of threads, sectors and tracks and   *)
(* any times.                                                              *)
THEOREM Invariance == Spec => []Inv
<1> QED BY InitInv, NextInv, PTL DEF Spec

(* The types, with the clock and the latencies naturals for every          *)
(* geometry, and the semaphore never above one.                            *)
THEOREM TypeCorrect == Spec => []TypeOK
<1>1. Inv => TypeOK
  BY DEF Inv
<1> QED BY <1>1, Invariance, PTL

(* Disk::ReadRequest and WriteRequest are never called while the disk is   *)
(* active.                                                                 *)
THEOREM NeverTwoRequests == Spec => []OneRequest
<1>1. Inv => OneRequest
  BY DEF Inv
<1> QED BY <1>1, Invariance, PTL

(* A caller that has passed P holds the lock, with the disk idle and the   *)
(* semaphore used up: it was its own interrupt.                            *)
THEOREM WokenByOwnInterrupt == Spec => []OwnInterrupt
<1>1. Inv => OwnInterrupt
  <2> SUFFICES ASSUME Inv, NEW t \in Threads, pc[t] = "release"
               PROVE  ~active /\ semaphore = 0 /\ holder = t
    BY DEF OwnInterrupt
  <2>1. holder = t
    BY DEF Inv, Turns
  <2>2. \A u \in Threads : pc[u] # "wait"
    BY <2>1 DEF Inv, Turns
  <2> QED BY <2>1, <2>2 DEF Inv, Turns
<1> QED BY <1>1, Invariance, PTL

(* Requests and their interrupts take turns.                               *)
THEOREM TakingTurns == Spec => []RequestsTakeTurns
<1>1. TypeOK /\ OneRequest /\ OwnInterrupt => RequestsTakeTurns
  BY DEF RequestsTakeTurns
<1> QED BY <1>1, TypeCorrect, NeverTwoRequests, WokenByOwnInterrupt, PTL

(* A read returns what its sector holds at the time of its return.         *)
THEOREM ReadsAreCurrent == Spec => []ReadIsCurrent
<1>1. Inv => ReadIsCurrent
  BY DEF Inv
<1> QED BY <1>1, Invariance, PTL

(* The track buffer begins at a boundary: at 0, or, after a seek, where    *)
(* Rotation leads.                                                         *)
LEMMA BoundaryInit == Init => BufferAtBoundary
<1> SUFFICES ASSUME Init PROVE 0 % RotationTime = 0
  BY DEF Init, BufferAtBoundary
<1>1. 0 = 0 * RotationTime + 0 /\ 0 \in 0..(RotationTime - 1) /\ 0 \in Int
  BY DiskAssumption
<1> QED BY <1>1, DiskAssumption, DivModUnique, Zenon

LEMMA BoundaryStep == TypeOK /\ BufferAtBoundary /\ [Next]_vars => BufferAtBoundary'
<1> SUFFICES ASSUME TypeOK, BufferAtBoundary, [Next]_vars PROVE bufferInit' % RotationTime = 0
  BY DEF BufferAtBoundary
<1>1. CASE bufferInit' = bufferInit
  BY <1>1 DEF BufferAtBoundary
<1>2. ASSUME NEW t \in Threads, DoRequest(t) PROVE bufferInit' % RotationTime = 0
  <2> DEFINE s == call[t].sector
  <2>1. s \in Sectors
    BY DEF TypeOK, Calls
  <2>2. \/ bufferInit' = bufferInit
        \/ bufferInit' = totalTicks + TimeToSeek(s) + Rotation(s)
    BY <1>2 DEF DoRequest, Request, UpdateLast
  <2> HIDE DEF s
  <2>3. CASE bufferInit' = totalTicks + TimeToSeek(s) + Rotation(s)
    <3>1. PICK a \in Nat : bufferInit' = a * RotationTime
      BY <2>1, <2>3, RotationToBoundary
    <3>2. /\ bufferInit' = a * RotationTime + 0 /\ 0 \in 0..(RotationTime - 1)
          /\ bufferInit' \in Int /\ a \in Int
      BY <3>1, DiskAssumption
    <3> QED BY <3>2, DiskAssumption, DivModUnique, Zenon
  <2> QED BY <1>1, <2>2, <2>3
<1> QED BY <1>1, <1>2 DEF Next, vars, disk, Step, Call, Acquire, Wait, Release, HandleInterrupt

(* The interrupt of every request comes when the rotating disk has passed  *)
(* its sector, for every geometry, every speed and every moment at which   *)
(* the request is made.                                                    *)
THEOREM LatencyIsTheRotation == Spec => []LatencyIsRotation
<1> QED BY TypeCorrect, BoundaryInit, BoundaryStep, LatencyRight, PTL DEF Spec
=============================================================================
