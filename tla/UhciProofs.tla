----------------------------- MODULE UhciProofs -----------------------------
(***************************************************************************)
(* Theorems about Uhci for every bus, clock, device and number of looks.   *)
(*                                                                         *)
(* The inductive invariant has five parts.  HcInv: the interrupts of the   *)
(* controller are off always, and it does not run before uhci_init has     *)
(* written its schedule; that no 32-bit write undoes either through the    *)
(* register behind the one it names is what the lemmas about Outl show.    *)
(* DriverOK types uhci_init's state.  FindInv follows the search for the   *)
(* controller: no function of the class lies behind, and the register it   *)
(* reads is the one it asked for.  ChainSound is inductive as it stands.   *)
(* PciInv is the walk of "lspci" over any number of slots and functions:   *)
(* the calls of get_pci_device_config that are open lie on each other in   *)
(* one slot (Nested); unless one of them calls itself for functions again  *)
(* and again (Endless), the list holds, once each, the functions shown     *)
(* before the next one.                                                    *)
(***************************************************************************)
EXTENDS Uhci, SequenceTheorems, FunctionTheorems, FiniteSetTheorems, TLAPS

(* The walk of "lspci". *)
\* A call: its function, and the next one its loop calls for (pci.c:184).
Calls == [at : Addresses, i : 0 .. LastFunction + 1]

\* The sizes of the configuration space and of the stack.
LEMMA SizesTyped ==
    /\ Slots \in Nat \ {0} /\ LastFunction \in Nat /\ StackRoom \in Nat /\ StackRoom >= 2
BY PciAssumption DEF PciAssumption

\* A function reads as present, or as one of several, only if it is there: the
\* ones an absent one reads as are neither (pci.c:151, 182).
LEMMA BusTyped ==
    ASSUME bus \in Buses
    PROVE  /\ DOMAIN bus \subseteq Addresses
           /\ \A a \in DOMAIN bus : bus[a].uhci \in BOOLEAN
           /\ \A a : Function(bus, a).vendor <=> a \in DOMAIN bus
           /\ \A a : PlainMulti(a) => a \in DOMAIN bus
<1>1. /\ DOMAIN bus \subseteq Addresses
      /\ \A a \in DOMAIN bus :
            bus[a] \in [vendor : {TRUE}, uhci : BOOLEAN, header : {"single", "multi", "bridge"}]
    BY PciAssumption DEF PciAssumption
<1>2. \A a \in DOMAIN bus : bus[a].vendor = TRUE /\ bus[a].uhci \in BOOLEAN
    BY <1>1
<1> QED BY <1>1, <1>2 DEF Function, Absent, PlainMulti

\* What the steps do to the calls.
\* The calls below the innermost one are the others.
LEMMA CallerIs ==
    ASSUME calls \in Seq(Calls), calls # <<>>
    PROVE  /\ Len(calls) \in Nat /\ Len(calls) > 0 /\ Top \in Calls
           /\ Caller \in Seq(Calls) /\ Len(Caller) = Len(calls) - 1
           /\ \A k \in 1 .. Len(calls) - 1 : Caller[k] = calls[k]
<1> DEFINE n == Len(calls)
           c == Caller
<1>1. n \in Nat /\ n > 0
    BY EmptySeq, LenProperties
<1>2. Top \in Calls
    BY <1>1, ElementOfSeq DEF Top
<1>3. \A h \in 1 .. n - 1 : calls[h] \in Calls
    BY <1>1, ElementOfSeq
<1> HIDE DEF Calls
<1>4. /\ c \in Seq(Calls)
      /\ Len(c) = IF 1 <= n - 1 THEN n - 1 - 1 + 1 ELSE 0
      /\ \A k \in 1 .. n - 1 - 1 + 1 : c[k] = calls[1 + k - 1]
    BY <1>1, <1>3, SubSeqProperties DEF Caller
<1> HIDE DEF c, n
<1>5. Len(c) = n - 1
    BY <1>1, <1>4
<1>6. \A k \in 1 .. n - 1 : c[k] = calls[k]
    BY <1>1, <1>4
<1> QED BY <1>1, <1>2, <1>4, <1>5, <1>6 DEF c, n

\* The loop of the innermost call goes on to its next function.
LEMMA TopReplaced ==
    ASSUME calls \in Seq(Calls), calls # <<>>, NEW r \in Calls, NEW t, t = Append(Caller, r)
    PROVE  /\ t \in Seq(Calls) /\ Len(t) = Len(calls) /\ t # <<>>
           /\ \A k \in 1 .. Len(calls) - 1 : t[k] = calls[k]
           /\ t[Len(calls)] = r
<1> DEFINE n == Len(calls)
           c == Caller
<1>1. /\ n \in Nat /\ n > 0 /\ c \in Seq(Calls) /\ Len(c) = n - 1
      /\ \A k \in 1 .. n - 1 : c[k] = calls[k]
    BY CallerIs
<1> HIDE DEF Calls
<1>2. /\ Append(c, r) \in Seq(Calls) /\ Len(Append(c, r)) = Len(c) + 1
      /\ \A k \in 1 .. Len(c) : Append(c, r)[k] = c[k]
      /\ Append(c, r)[Len(c) + 1] = r
    BY <1>1, AppendProperties
<1>3. t = Append(c, r)
    OBVIOUS
<1> HIDE DEF c, n
<1>4. Len(t) = n /\ t \in Seq(Calls) /\ t[n] = r /\ \A k \in 1 .. n - 1 : t[k] = calls[k]
    BY <1>1, <1>2, <1>3
<1>5. t # <<>>
  <2>1. Len(t) > 0
      BY <1>1, <1>4
  <2>2. Len(<<>>) = 0
      OBVIOUS
  <2> QED BY ONLY <2>1, <2>2
<1> QED BY <1>4, <1>5 DEF n

-----------------------------------------------------------------------------
\* The calls in a slot, outermost first: the outermost is for function 0, each
\* other for the function its caller's loop was at (pci.c:184-186); a call
\* loops only if its function says that there are several.  A call for a
\* function other than the first either has not come to that function, or is
\* waiting for the call for itself.
Nested(s, slot) ==
    /\ \A k \in 1 .. Len(s) : /\ s[k].at[1] = slot
                              /\ k = 1 <=> s[k].at[2] = 0
                              /\ s[k].i > 0 => PlainMulti(s[k].at)
    /\ \A k \in 1 .. Len(s) - 1 : s[k].i = s[k + 1].at[2] + 1
    /\ \A k \in 1 .. Len(s) : s[k].at[2] > 0 /\ s[k].i > 0 =>
          s[k].i <= s[k].at[2] \/ (k < Len(s) /\ s[k].i = s[k].at[2] + 1)

\* A call for a function other than the first loops: it will call itself for
\* itself, and never comes to an end.
Endless(s) == \E k \in 1 .. Len(s) : s[k].at[2] > 0 /\ s[k].i > 0

\* What the fields of an open call can be.
LEMMA CallFields ==
    ASSUME NEW s \in Seq(Calls), NEW k \in 1 .. Len(s)
    PROVE  /\ s[k] \in Calls /\ s[k].at[1] \in Nat /\ s[k].at[2] \in 0 .. LastFunction
           /\ s[k].i \in 0 .. LastFunction + 1 /\ s[k].at = <<s[k].at[1], s[k].at[2]>>
           /\ s[k].at \in Addresses
<1> DEFINE c == s[k]
<1>1. c \in Calls
    BY ElementOfSeq
<1> HIDE DEF c
<1>2. c.at \in Addresses /\ c.i \in 0 .. LastFunction + 1
    BY <1>1 DEF Calls
<1>3. c.at[1] \in Nat /\ c.at[2] \in 0 .. LastFunction /\ c.at = <<c.at[1], c.at[2]>>
    BY <1>2, SizesTyped DEF Addresses
<1> QED BY <1>1, <1>2, <1>3 DEF c

\* A call that has printed its function starts its loop (pci.c:182-184).
LEMMA NestedReplaced ==
    ASSUME NEW s \in Seq(Calls), NEW t \in Seq(Calls), NEW n \in Nat \ {0}, n = Len(s),
           Len(t) = n, \A k \in 1 .. n - 1 : t[k] = s[k],
           t[n].at = s[n].at, t[n].i = 1, PlainMulti(s[n].at),
           NEW slot, Nested(s, slot)
    PROVE  Nested(t, slot)
<1>1. ASSUME NEW k \in 1 .. n
      PROVE  /\ t[k].at = s[k].at /\ (k < n => t[k] = s[k])
             /\ s[k].at[2] \in Nat /\ s[k].i \in Nat
    BY CallFields
<1>2. ASSUME NEW k \in 1 .. n
      PROVE  /\ t[k].at[1] = slot
             /\ k = 1 <=> t[k].at[2] = 0
             /\ t[k].i > 0 => PlainMulti(t[k].at)
    BY <1>1 DEF Nested
<1>3. ASSUME NEW k \in 1 .. n - 1 PROVE t[k].i = t[k + 1].at[2] + 1
    BY <1>1 DEF Nested
<1>4. ASSUME NEW k \in 1 .. n, t[k].at[2] > 0, t[k].i > 0
      PROVE  t[k].i <= t[k].at[2] \/ (k < n /\ t[k].i = t[k].at[2] + 1)
  <2>1. CASE k = n
      BY <2>1, <1>1, <1>4
  <2>2. CASE k < n
      BY <2>2, <1>1, <1>4 DEF Nested
  <2> QED BY <2>1, <2>2
<1> QED BY <1>2, <1>3, <1>4 DEF Nested

\* A call returns; an endless one never does.
LEMMA NestedPopped ==
    ASSUME NEW s \in Seq(Calls), NEW t \in Seq(Calls), NEW n \in Nat \ {0}, n = Len(s),
           Len(t) = n - 1, \A k \in 1 .. n - 1 : t[k] = s[k],
           NEW slot, Nested(s, slot),
           ~PlainMulti(s[n].at) \/ s[n].i > LastFunction
    PROVE  /\ Nested(t, slot)
           /\ Endless(s) => Endless(t)
<1>0. LastFunction \in Nat
    BY SizesTyped
<1>1. ASSUME NEW k \in 1 .. n
      PROVE  /\ (k < n => t[k] = s[k]) /\ s[k].at = <<s[k].at[1], s[k].at[2]>>
             /\ s[k].at[2] \in 0 .. LastFunction /\ s[k].i \in Nat
    BY CallFields, <1>0
<1>2. ~(s[n].at[2] > 0 /\ s[n].i > 0)
  <2> SUFFICES ASSUME s[n].at[2] > 0, s[n].i > 0 PROVE FALSE
      OBVIOUS
  <2>1. PlainMulti(s[n].at) /\ s[n].i <= s[n].at[2]
      BY <1>1 DEF Nested
  <2> QED BY <2>1, <1>0, <1>1
<1>3. ASSUME NEW k \in 1 .. n - 1, t[k].at[2] > 0, t[k].i > 0
      PROVE  t[k].i <= t[k].at[2] \/ (k < n - 1 /\ t[k].i = t[k].at[2] + 1)
  <2>0. k \in 1 .. n /\ t[k] = s[k] /\ k < n
      BY <1>1
  <2>1. s[k].i <= s[k].at[2] \/ s[k].i = s[k].at[2] + 1
      BY <1>3, <2>0 DEF Nested
  <2>2. CASE k = n - 1 /\ s[k].i = s[k].at[2] + 1
    <3>1. s[k].i = s[n].at[2] + 1 /\ s[k].at[1] = s[n].at[1]
        BY <2>2 DEF Nested
    <3>2. s[n].at = s[k].at /\ s[n].at[2] > 0
      <4>1. s[n].at = <<s[n].at[1], s[n].at[2]>> /\ s[k].at = <<s[k].at[1], s[k].at[2]>>
            /\ s[n].at[2] \in Nat /\ s[k].at[2] \in Nat
          BY <1>1, <2>0
      <4>2. s[n].at[2] = s[k].at[2] /\ s[k].at[2] > 0
          BY <3>1, <4>1, <2>0, <2>2, <1>3
      <4> QED BY <4>1, <4>2, <3>1
    <3>3. PlainMulti(s[n].at)
        BY <3>2, <1>3, <2>0 DEF Nested
    <3>4. s[n].i > LastFunction /\ s[n].i > 0
        BY <3>3, <1>0, <1>1
    <3> QED BY <3>2, <3>4, <1>2
  <2> QED BY <2>0, <2>1, <2>2
<1>4. Nested(t, slot)
  <2>1. \A k \in 1 .. n - 1 : /\ t[k].at[1] = slot
                              /\ k = 1 <=> t[k].at[2] = 0
                              /\ t[k].i > 0 => PlainMulti(t[k].at)
      BY DEF Nested
  <2>2. \A k \in 1 .. n - 1 - 1 : t[k].i = t[k + 1].at[2] + 1
      BY DEF Nested
  <2> QED BY <2>1, <2>2, <1>3 DEF Nested
<1>5. ASSUME Endless(s) PROVE Endless(t)
  <2>1. PICK k \in 1 .. n : s[k].at[2] > 0 /\ s[k].i > 0
      BY <1>5 DEF Endless
  <2>2. k < n
      BY <2>1, <1>2
  <2>3. k \in 1 .. n - 1 /\ t[k] = s[k]
      BY <2>2
  <2>4. k \in 1 .. Len(t) /\ t[k].at[2] > 0 /\ t[k].i > 0
      BY <2>1, <2>3
  <2> QED BY <2>4 DEF Endless
<1> QED BY <1>4, <1>5

\* A call calls itself for its next function (pci.c:185).
LEMMA NestedPushed ==
    ASSUME NEW s \in Seq(Calls), NEW t \in Seq(Calls), NEW n \in Nat \ {0}, n = Len(s),
           Len(t) = n + 1, \A k \in 1 .. n - 1 : t[k] = s[k],
           NEW slot, Nested(s, slot),
           s[n].i \in 1 .. LastFunction,
           t[n].at = s[n].at, t[n].i = s[n].i + 1,
           t[n + 1].at = <<s[n].at[1], s[n].i>>, t[n + 1].i = 0
    PROVE  /\ Nested(t, slot)
           /\ Endless(s) => Endless(t)
<1>0. LastFunction \in Nat
    BY SizesTyped
<1>1. ASSUME NEW k \in 1 .. n
      PROVE  /\ t[k].at = s[k].at /\ (k < n => t[k] = s[k])
             /\ s[k].at[2] \in 0 .. LastFunction /\ s[k].i \in Nat
  <2>1. s[k].at[2] \in 0 .. LastFunction /\ s[k].i \in 0 .. LastFunction + 1
      BY CallFields
  <2>2. s[k].i \in Nat
      BY <2>1, <1>0
  <2>3. CASE k = n
      BY <2>1, <2>2, <2>3
  <2>4. CASE k < n
    <3>1. k \in 1 .. n - 1
        BY <2>4
    <3>2. t[k] = s[k]
        BY <3>1
    <3> QED BY <2>1, <2>2, <3>2
  <2> QED BY <2>3, <2>4
<1>2. t[n + 1].at[1] = slot /\ t[n + 1].at[2] = s[n].i /\ s[n].i > 0
    BY DEF Nested
<1>3. ASSUME NEW k \in 1 .. n + 1
      PROVE  /\ t[k].at[1] = slot
             /\ k = 1 <=> t[k].at[2] = 0
             /\ t[k].i > 0 => PlainMulti(t[k].at)
  <2>1. CASE k = n + 1
      BY <2>1, <1>2
  <2>2. CASE k = n
    <3>1. /\ s[n].at[1] = slot
          /\ n = 1 <=> s[n].at[2] = 0
          /\ PlainMulti(s[n].at)
      <4>1. n \in 1 .. Len(s) /\ s[n].i > 0
          OBVIOUS
      <4>2. \A h \in 1 .. Len(s) : /\ s[h].at[1] = slot
                                   /\ h = 1 <=> s[h].at[2] = 0
                                   /\ s[h].i > 0 => PlainMulti(s[h].at)
          BY DEF Nested
      <4> QED BY <4>1, <4>2
    <3> QED BY <2>2, <3>1
  <2>3. CASE k < n
      BY <2>3, <1>1 DEF Nested
  <2> QED BY <2>1, <2>2, <2>3
<1>4. ASSUME NEW k \in 1 .. n PROVE t[k].i = t[k + 1].at[2] + 1
  <2>1. CASE k = n
      BY <2>1, <1>2
  <2>2. CASE k < n
    <3>1. k \in 1 .. n - 1 /\ k + 1 \in 1 .. n /\ k \in 1 .. n
        BY <2>2
    <3>2. s[k].i = s[k + 1].at[2] + 1
        BY <3>1 DEF Nested
    <3>3. t[k].i = s[k].i
        BY <3>1
    <3>4. t[k + 1].at = s[k + 1].at
        BY <3>1, <1>1
    <3> QED BY <3>2, <3>3, <3>4
  <2> QED BY <2>1, <2>2
<1>5. ASSUME NEW k \in 1 .. n + 1, t[k].at[2] > 0, t[k].i > 0
      PROVE  t[k].i <= t[k].at[2] \/ (k < n + 1 /\ t[k].i = t[k].at[2] + 1)
  <2>1. CASE k = n + 1
      BY <2>1, <1>5
  <2>2. CASE k = n
    <3>1. s[n].i <= s[n].at[2]
        BY <2>2, <1>1, <1>2, <1>5 DEF Nested
    <3> QED BY <3>1, <2>2, <1>1
  <2>3. CASE k < n
    <3>1. k \in 1 .. n - 1 /\ t[k] = s[k]
        BY <2>3
    <3>2. k \in 1 .. Len(s) /\ s[k].at[2] > 0 /\ s[k].i > 0
        BY <3>1, <1>5
    <3>3. s[k].i <= s[k].at[2] \/ (k < Len(s) /\ s[k].i = s[k].at[2] + 1)
        BY ONLY <3>2, Nested(s, slot) DEF Nested
    <3> QED BY <3>1, <3>3
  <2> QED BY <2>1, <2>2, <2>3
<1>6. ASSUME Endless(s) PROVE Endless(t)
  <2>1. PICK k \in 1 .. n : s[k].at[2] > 0 /\ s[k].i > 0
      BY <1>6 DEF Endless
  <2>2. k \in 1 .. n + 1 /\ t[k].at[2] > 0
      BY <2>1, <1>1
  <2>3. t[k].i > 0
    <3>1. CASE k = n
        BY <3>1, <1>1
    <3>2. CASE k < n
        BY <2>1, <3>2, <1>1
    <3> QED BY <3>1, <3>2
  <2> QED BY <2>2, <2>3 DEF Endless
<1> QED BY <1>3, <1>4, <1>5, <1>6 DEF Nested

-----------------------------------------------------------------------------
\* The next function of the slot to be printed, while no call is endless.
NextFunction(s) == IF s = <<>> THEN 0 ELSE IF Len(s) = 1 THEN s[1].i ELSE s[2].at[2]
\* The functions shown before function f of a slot.
Printed(slot, f) == {a \in Shown : a[1] < slot \/ (a[1] = slot /\ a[2] < f)}
\* A list of the members of A, each of them once.
Lists(l, A) == /\ l \in Seq(Addresses)
               /\ {l[i] : i \in DOMAIN l} = A
               /\ \A i, j \in DOMAIN l : l[i] = l[j] => i = j

\* The inductive invariant of the walk.
PciInv ==
    /\ bus \in Buses /\ scan \in 0 .. Slots
    /\ complete \in BOOLEAN /\ overflow \in BOOLEAN
    /\ calls \in Seq(Calls) /\ Len(calls) <= StackRoom
    /\ calls # <<>> => scan < Slots
    /\ complete => scan = Slots
    /\ Nested(calls, scan)
    /\ overflow => calls # <<>> /\ \E a \in Shown : a[2] > 0 /\ PlainMulti(a)
    /\ (scan < Slots \/ complete) /\ ~Endless(calls)
          => Lists(listed, Printed(scan, NextFunction(calls)))

\* One more function is printed.
LEMMA ListAppended ==
    ASSUME NEW l, NEW A, Lists(l, A), NEW a \in Addresses, a \notin A
    PROVE  Lists(Append(l, a), A \union {a})
<1> DEFINE n == Len(l)
           m == Append(l, a)
<1>1. l \in Seq(Addresses) /\ n \in Nat /\ DOMAIN l = 1 .. n
    BY LenProperties DEF Lists
<1> HIDE DEF Addresses
<1>2. /\ m \in Seq(Addresses) /\ Len(m) = n + 1 /\ DOMAIN m = 1 .. n + 1
      /\ \A i \in 1 .. n : m[i] = l[i]
      /\ m[n + 1] = a
    BY <1>1, AppendProperties, LenProperties
<1> HIDE DEF n, m
<1>3. {m[i] : i \in DOMAIN m} = A \union {a}
  <2>1. ASSUME NEW x \in A PROVE \E i \in 1 .. n + 1 : m[i] = x
    <3>1. PICK i \in 1 .. n : l[i] = x
        BY <2>1, <1>1 DEF Lists
    <3> QED BY <3>1, <1>1, <1>2
  <2>2. ASSUME NEW i \in 1 .. n + 1 PROVE m[i] \in A \union {a}
    <3>1. CASE i = n + 1
        BY <3>1, <1>2
    <3>2. CASE i # n + 1
        BY <3>2, <1>1, <1>2 DEF Lists
    <3> QED BY <3>1, <3>2
  <2>3. n + 1 \in 1 .. n + 1
      BY <1>1
  <2> QED BY <1>2, <2>1, <2>2, <2>3
<1>4. ASSUME NEW i \in 1 .. n + 1, NEW j \in 1 .. n + 1, m[i] = m[j] PROVE i = j
  <2>1. \A k \in 1 .. n : l[k] \in A
      BY <1>1 DEF Lists
  <2>2. CASE i \in 1 .. n /\ j \in 1 .. n
      BY <2>2, <1>1, <1>2, <1>4 DEF Lists
  <2>3. CASE i = n + 1 /\ j \in 1 .. n
      BY <2>1, <2>3, <1>2, <1>4
  <2>4. CASE i \in 1 .. n /\ j = n + 1
      BY <2>1, <2>4, <1>2, <1>4
  <2> QED BY <1>1, <2>2, <2>3, <2>4
<1> QED BY <1>2, <1>3, <1>4 DEF Lists, m

\* A list without repetition is as long as it has members.
LEMMA ListCounted ==
    ASSUME NEW l, NEW A, Lists(l, A)
    PROVE  Len(l) = Cardinality(A)
<1> DEFINE n == Len(l)
<1>1. l \in Seq(Addresses) /\ n \in Nat /\ DOMAIN l = 1 .. n
    BY LenProperties DEF Lists
<1>2. l \in Bijection(1 .. n, A)
  <2>1. l \in [1 .. n -> A]
    <3>1. l = [i \in 1 .. n |-> l[i]]
        BY <1>1, LenProperties
    <3>2. \A i \in 1 .. n : l[i] \in A
        BY <1>1 DEF Lists
    <3> QED BY <3>1, <3>2
  <2>2. \A x \in A : \E i \in 1 .. n : l[i] = x
      BY <1>1 DEF Lists
  <2>3. \A i, j \in 1 .. n : l[i] = l[j] => i = j
      BY <1>1 DEF Lists
  <2> HIDE DEF n
  <2> QED BY <2>1, <2>2, <2>3, Fun_IsBij
<1>3. ExistsBijection(1 .. n, A)
    BY <1>2 DEF ExistsBijection
<1> HIDE DEF n
<1>4. Cardinality(A) = n
    BY <1>1, <1>3, FS_CountingElements
<1> QED BY <1>4 DEF n

\* The functions to be shown have addresses.
LEMMA ShownTyped ==
    ASSUME bus \in Buses
    PROVE  \A a \in Shown : /\ a \in DOMAIN bus /\ a \in Addresses /\ a = <<a[1], a[2]>>
                            /\ a[1] \in 0 .. Slots - 1 /\ a[1] < Slots /\ a[2] \in 0 .. LastFunction
                            /\ a[2] = 0 \/ PlainMulti(<<a[1], 0>>)
<1>1. \A a \in Shown : a \in DOMAIN bus /\ a \in Addresses /\ (a[2] = 0 \/ PlainMulti(<<a[1], 0>>))
    BY BusTyped DEF Shown
<1>2. \A a \in Addresses : /\ a = <<a[1], a[2]>> /\ a[1] \in 0 .. Slots - 1 /\ a[1] < Slots
                           /\ a[2] \in 0 .. LastFunction
    BY SizesTyped DEF Addresses
<1> QED BY <1>1, <1>2

\* When "lspci" has returned, it has printed each function that is to be
\* shown once; when the stack is full, a function other than the first says
\* that its device has several.
LEMMA PciSound == PciInv => ListingSound
<1> SUFFICES ASSUME PciInv PROVE ListingSound
    OBVIOUS
<1>1. ASSUME complete PROVE Len(listed) = Cardinality(Shown)
                            /\ {listed[i] : i \in DOMAIN listed} = Shown
  <2>1. scan = Slots /\ calls = <<>>
      BY <1>1, SizesTyped DEF PciInv
  <2>2. ~Endless(<<>>) /\ NextFunction(<<>>) = 0
      BY DEF Endless, NextFunction
  <2>3. Printed(Slots, 0) = Shown
    <3>1. \A a \in Shown : a[1] < Slots
        BY ShownTyped DEF PciInv
    <3> QED BY <3>1 DEF Printed
  <2>4. Lists(listed, Shown)
      BY <1>1, <2>1, <2>2, <2>3 DEF PciInv
  <2>5. Len(listed) = Cardinality(Shown)
      BY <2>4, ListCounted
  <2> QED BY <2>4, <2>5 DEF Lists
<1> QED BY <1>1 DEF PciInv, ListingSound

-----------------------------------------------------------------------------
\* Before the first "lspci".
LEMMA PciInitial == PciInit => PciInv
<1> SUFFICES ASSUME PciInit PROVE PciInv
    OBVIOUS
<1>1. /\ bus \in Buses /\ scan = Slots /\ calls = <<>> /\ complete = FALSE /\ overflow = FALSE
    BY DEF PciInit
<1>2. <<>> \in Seq(Calls) /\ Len(<<>>) = 0
    BY EmptySeq
<1>3. Nested(<<>>, Slots)
    BY <1>2 DEF Nested
<1>4. calls \in Seq(Calls) /\ Len(calls) <= StackRoom /\ Nested(calls, scan)
    BY <1>1, <1>2, <1>3, SizesTyped
<1>5. ~(scan < Slots) /\ scan \in 0 .. Slots
    BY <1>1, SizesTyped
<1> QED BY <1>1, <1>4, <1>5 DEF PciInv

\* pci_enumeration starts with an empty list (pci.c:206-211).
LEMMA StartKeeps == ASSUME PciInv, ~Listing, ListStart PROVE PciInv'
<1>1. /\ scan' = 0 /\ listed' = <<>> /\ complete' = FALSE /\ calls' = calls /\ calls = <<>>
      /\ bus' = bus /\ overflow' = FALSE /\ overflow = FALSE
    BY DEF PciInv, Listing, ListStart
<1>2. <<>> \in Seq(Calls) /\ <<>> \in Seq(Addresses) /\ Len(<<>>) = 0 /\ DOMAIN <<>> = {}
    BY EmptySeq
<1>3. Nested(calls, 0)' /\ NextFunction(calls)' = 0
    BY <1>1, <1>2 DEF Nested, NextFunction
<1>4. Printed(0, 0)' = {}
    BY <1>1, ShownTyped DEF PciInv, Printed, Shown, PlainMulti
<1>5. Lists(listed, Printed(scan, NextFunction(calls)))'
  <2>1. Lists(<<>>, {})
      BY <1>2 DEF Lists
  <2>2. Printed(scan, NextFunction(calls))' = {}
      BY <1>1, <1>3, <1>4 DEF Printed
  <2> QED BY <1>1, <2>1, <2>2 DEF Lists
<1>6. (calls \in Seq(Calls) /\ Len(calls) <= StackRoom)' /\ Nested(calls, scan)'
    BY <1>1, <1>3 DEF PciInv, Nested
<1>7. (bus \in Buses)' /\ scan' \in 0 .. Slots
    BY <1>1, SizesTyped DEF PciInv
<1> QED BY <1>1, <1>5, <1>6, <1>7 DEF PciInv

-----------------------------------------------------------------------------
\* What a step must show of the walk's new state for the invariant to hold
\* again: the bus does not change, and what is shown depends on it alone.
LEMMA PciInvNext ==
    ASSUME PciInv, bus' = bus,
           scan' \in 0 .. Slots, complete' \in BOOLEAN, overflow' \in BOOLEAN,
           calls' \in Seq(Calls), Len(calls') <= StackRoom,
           calls' # <<>> => scan' < Slots,
           complete' => scan' = Slots,
           Nested(calls', scan'),
           overflow' => calls' # <<>> /\ \E a \in Shown : a[2] > 0 /\ PlainMulti(a),
           (scan' < Slots \/ complete') /\ ~Endless(calls')
              => Lists(listed', Printed(scan', NextFunction(calls')))
    PROVE  PciInv'
<1>1. Shown' = Shown
    BY DEF Shown, PlainMulti, Function
<1>2. Nested(calls, scan)'
    BY DEF Nested, PlainMulti, Function
<1>3. (\E a \in Shown : a[2] > 0 /\ PlainMulti(a)) <=> (\E a \in Shown : a[2] > 0 /\ PlainMulti(a))'
    BY DEF Shown, PlainMulti, Function
<1>4. /\ Printed(scan, NextFunction(calls))' = Printed(scan', NextFunction(calls'))
      /\ Endless(calls)' <=> Endless(calls')
    BY <1>1 DEF Printed, NextFunction, Endless
<1>5. Lists(listed, Printed(scan, NextFunction(calls)))'
          <=> Lists(listed', Printed(scan', NextFunction(calls')))
    BY <1>4 DEF Lists
<1>6. (bus \in Buses)'
    BY DEF PciInv
<1> QED BY <1>2, <1>3, <1>4, <1>5, <1>6 DEF PciInv

\* One function further, and from the last function of a slot to the next
\* slot (pci.c:199-203).
LEMMA PrintedNext ==
    ASSUME bus \in Buses, NEW slot \in Nat, NEW f \in Nat
    PROVE  /\ <<slot, f>> \notin Printed(slot, f)
           /\ <<slot, f>> \in Shown => Printed(slot, f + 1) = Printed(slot, f) \union {<<slot, f>>}
           /\ <<slot, f>> \notin Shown => Printed(slot, f + 1) = Printed(slot, f)
           /\ (\A a \in Shown : a[1] = slot => a[2] < f) => Printed(slot + 1, 0) = Printed(slot, f)
<1>1. \A a \in Shown : a = <<a[1], a[2]>> /\ a[1] \in Nat /\ a[2] \in Nat
  <2>1. \A a \in Shown : /\ a = <<a[1], a[2]>> /\ a[1] \in 0 .. Slots - 1
                         /\ a[2] \in 0 .. LastFunction
      BY ShownTyped
  <2>2. 0 .. Slots - 1 \subseteq Nat /\ 0 .. LastFunction \subseteq Nat
      BY SizesTyped
  <2> QED BY <2>1, <2>2
<1>2. <<slot, f>> \notin Printed(slot, f)
    BY DEF Printed
<1>3. ASSUME NEW a \in Shown
      PROVE  /\ (a[1] < slot \/ (a[1] = slot /\ a[2] < f + 1)) <=>
                   (a[1] < slot \/ (a[1] = slot /\ a[2] < f) \/ a = <<slot, f>>)
             /\ (a[1] < slot + 1 \/ (a[1] = slot + 1 /\ a[2] < 0)) <=> (a[1] < slot \/ a[1] = slot)
    BY <1>1
<1>4. <<slot, f>> \in Shown => Printed(slot, f + 1) = Printed(slot, f) \union {<<slot, f>>}
    BY <1>3 DEF Printed
<1>5. <<slot, f>> \notin Shown => Printed(slot, f + 1) = Printed(slot, f)
    BY <1>3 DEF Printed
<1>6. ASSUME \A a \in Shown : a[1] = slot => a[2] < f
      PROVE Printed(slot + 1, 0) = Printed(slot, f)
    BY <1>3, <1>6 DEF Printed
<1> QED BY <1>2, <1>4, <1>5, <1>6

\* What has not begun to call itself without end.
\* Without an endless call, a slot has one call open, or two: that for the
\* first function, and that for the one its loop is at.
LEMMA Shallow ==
    ASSUME bus \in Buses, scan \in Nat, calls \in Seq(Calls), calls # <<>>, Nested(calls, scan),
           ~Endless(calls)
    PROVE  /\ Len(calls) = 1 \/ Len(calls) = 2
           /\ Top = calls[Len(calls)]
           /\ Len(calls) = 1 => Top.at = <<scan, 0>> /\ NextFunction(calls) = Top.i
           /\ Len(calls) = 2 => /\ Top.i = 0 /\ Top.at = <<scan, Top.at[2]>> /\ Top.at[2] > 0
                                /\ NextFunction(calls) = Top.at[2]
                                /\ calls[1].i = Top.at[2] + 1
                                /\ PlainMulti(<<scan, 0>>)
<1> DEFINE n == Len(calls)
<1>0. n \in Nat /\ n > 0
    BY CallerIs
<1>1. \A k \in 1 .. n : /\ calls[k].at[1] \in Nat /\ calls[k].at[2] \in Nat /\ calls[k].i \in Nat
                        /\ calls[k].at = <<calls[k].at[1], calls[k].at[2]>>
    BY CallFields, SizesTyped
<1>2. \A k \in 1 .. n : /\ calls[k].at[1] = scan
                        /\ k = 1 <=> calls[k].at[2] = 0
                        /\ calls[k].i > 0 => PlainMulti(calls[k].at)
    BY DEF Nested
<1>3. \A k \in 1 .. n - 1 : calls[k].i = calls[k + 1].at[2] + 1
    BY DEF Nested
<1>4. \A k \in 1 .. n : ~(calls[k].at[2] > 0 /\ calls[k].i > 0)
    BY DEF Endless
<1>5. Top = calls[n]
    BY DEF Top
<1>6. NextFunction(calls) = IF n = 1 THEN calls[1].i ELSE calls[2].at[2]
    BY DEF NextFunction
<1> HIDE DEF n
<1>7. n = 1 \/ n = 2
  <2> SUFFICES ASSUME n > 2 PROVE FALSE
      BY <1>0
  <2>1. 2 \in 1 .. n /\ 2 \in 1 .. n - 1 /\ 3 \in 1 .. n
      BY <1>0
  <2>2. calls[2].at[2] > 0 /\ calls[2].i > 0
      BY <2>1, <1>1, <1>2, <1>3
  <2> QED BY <2>1, <2>2, <1>4
<1>8. CASE n = 1
    BY <1>8, <1>1, <1>2, <1>5, <1>6 DEF n
<1>9. CASE n = 2
  <2>1. /\ calls[1].at = <<scan, 0>> /\ calls[1].i = calls[2].at[2] + 1 /\ calls[1].i > 0
        /\ calls[2].at = <<scan, calls[2].at[2]>> /\ calls[2].at[2] > 0 /\ calls[2].i = 0
      BY <1>9, <1>1, <1>2, <1>3, <1>4
  <2>2. PlainMulti(<<scan, 0>>)
    <3>1. 1 \in 1 .. n
        BY <1>9
    <3>2. calls[1].i > 0 => PlainMulti(calls[1].at)
        BY <1>2, <3>1
    <3> QED BY <2>1, <3>2
  <2> QED BY <1>5, <1>6, <1>9, <2>1, <2>2 DEF n
<1> QED BY <1>7, <1>8, <1>9

\* enumerate_pci_slot calls for function 0 (pci.c:194-197).
LEMMA SlotKeeps == ASSUME PciInv, ListSlot PROVE PciInv'
<1> DEFINE r == Call(<<scan, 0>>)
           c == <<r>>
<1>1. /\ scan < Slots /\ calls = <<>> /\ calls' = c
      /\ bus' = bus /\ scan' = scan /\ listed' = listed /\ complete' = complete /\ overflow' = overflow
    BY DEF ListSlot
<1>2. r \in Calls /\ r.at = <<scan, 0>> /\ r.i = 0
    BY <1>1, SizesTyped DEF PciInv, Calls, Addresses, Call
<1> HIDE DEF r
<1>3. c \in Seq(Calls) /\ Len(c) = 1 /\ c[1] = r /\ c # <<>>
    BY <1>2
<1> HIDE DEF c
<1>4. Nested(c, scan) /\ ~Endless(c) /\ NextFunction(c) = 0
    BY <1>2, <1>3 DEF Nested, Endless, NextFunction
<1>5. ~Endless(<<>>) /\ NextFunction(<<>>) = 0
    BY DEF Endless, NextFunction
<1>6. Lists(listed, Printed(scan, 0))
    BY <1>1, <1>5 DEF PciInv
<1>7. Len(calls') <= StackRoom /\ calls' \in Seq(Calls) /\ calls' # <<>> /\ Nested(calls', scan')
    BY <1>1, <1>3, <1>4, SizesTyped
<1>8. Lists(listed', Printed(scan', NextFunction(calls')))
    BY <1>1, <1>4, <1>6
<1>9. /\ scan' \in 0 .. Slots /\ complete' \in BOOLEAN /\ overflow' \in BOOLEAN /\ scan' < Slots
      /\ complete' => scan' = Slots
      /\ overflow' => calls' # <<>> /\ \E a \in Shown : a[2] > 0 /\ PlainMulti(a)
    BY <1>1 DEF PciInv
<1> QED BY <1>1, <1>7, <1>8, <1>9, PciInvNext

-----------------------------------------------------------------------------
\* The call on top returns, with the functions it went over in the list.
LEMMA ReturnedKeeps ==
    ASSUME PciInv, calls # <<>>, Returned(Caller), bus' = bus, overflow' = overflow,
           overflow = FALSE,
           ~PlainMulti(Top.at) \/ Top.i > LastFunction,
           NEW f \in Nat,
           Len(calls) = 1 => \A a \in Shown : a[1] = scan => a[2] < f,
           Len(calls) = 2 => f = Top.at[2] + 1,
           ~Endless(calls) => Lists(listed', Printed(scan, f))
    PROVE  PciInv'
<1> DEFINE n == Len(calls)
           c == Caller
<1>0. /\ n \in Nat \ {0} /\ c \in Seq(Calls) /\ Len(c) = n - 1
      /\ \A k \in 1 .. n - 1 : c[k] = calls[k]
      /\ calls \in Seq(Calls) /\ scan \in Nat /\ scan < Slots
      /\ Nested(calls, scan) /\ Slots \in Nat /\ n <= StackRoom /\ Top = calls[n]
      /\ complete = FALSE /\ bus \in Buses
    BY CallerIs, SizesTyped DEF PciInv, Top
<1>1. Nested(c, scan) /\ (Endless(calls) => Endless(c))
  <2> HIDE DEF c
  <2> QED BY <1>0, NestedPopped
<1>2. /\ calls' = c
      /\ scan' = IF c = <<>> THEN scan + 1 ELSE scan
      /\ complete' = (c = <<>> /\ scan + 1 = Slots)
    BY DEF Returned
<1>3. ~Endless(calls) => /\ n = 1 \/ n = 2
                         /\ n = 2 => calls[1].i = Top.at[2] + 1
    BY <1>0, Shallow
<1>4. n - 1 <= StackRoom
    BY <1>0, SizesTyped
<1>f. (Len(calls) = 1 => \A a \in Shown : a[1] = scan => a[2] < f)
      /\ (n = 2 => f = Top.at[2] + 1)
    OBVIOUS
<1> HIDE DEF c, n
<1>5. CASE n = 1
  <2>1. c = <<>>
      BY <1>0, <1>5, EmptySeq
  <2>2. scan' = scan + 1 /\ complete' = (scan + 1 = Slots) /\ calls' = <<>>
      BY <1>2, <2>1
  <2>3. Nested(<<>>, scan + 1) /\ ~Endless(<<>>) /\ NextFunction(<<>>) = 0
      BY DEF Nested, Endless, NextFunction
  <2>4. Lists(listed', Printed(scan + 1, 0))
    <3>1. ~Endless(calls)
        BY <1>1, <2>1, <2>3
    <3>2. Printed(scan + 1, 0) = Printed(scan, f)
        BY <1>0, <1>5, PrintedNext DEF n
    <3> QED BY <3>1, <3>2
  <2>5. scan + 1 \in 0 .. Slots
      BY <1>0
  <2>6. <<>> \in Seq(Calls) /\ Len(<<>>) <= StackRoom
      BY <2>1, <1>0, SizesTyped
  <2> QED BY <1>0, <2>2, <2>3, <2>4, <2>5, <2>6, PciInvNext
<1>6. CASE n # 1
  <2>1. c # <<>>
      BY <1>0, <1>6, EmptySeq
  <2>2. scan' = scan /\ complete' = FALSE /\ calls' = c
      BY <1>2, <2>1
  <2>4. ASSUME ~Endless(c) PROVE Lists(listed', Printed(scan, NextFunction(c)))
    <3>1. ~Endless(calls) /\ n = 2
        BY <1>1, <1>3, <1>6, <2>4
    <3>2. Len(c) = 1 /\ c[1] = calls[1]
        BY <1>0, <3>1
    <3>3. NextFunction(c) = f
        BY <1>3, <1>f, <2>1, <3>1, <3>2 DEF NextFunction
    <3> QED BY <3>1, <3>3
  <2>5. scan \in 0 .. Slots
      BY <1>0
  <2> QED BY <1>0, <1>1, <1>4, <2>1, <2>2, <2>4, <2>5, PciInvNext
<1> QED BY <1>5, <1>6

\* A call reads and prints its function (pci.c:149-181), and returns or
\* starts its loop.
LEMMA FunctionKeeps == ASSUME PciInv, ListFunction PROVE PciInv'
<1> DEFINE n == Len(calls)
           a == Top.at
           there == Function(bus, a).vendor
           r == [Top EXCEPT !.i = 1]
<1>0. /\ calls # <<>> /\ overflow = FALSE /\ Top.i = 0 /\ bus' = bus /\ overflow' = overflow
      /\ listed' = IF there THEN Append(listed, a) ELSE listed
    BY DEF ListFunction, PciInv
<1>1. /\ n \in Nat \ {0} /\ Top \in Calls /\ Top = calls[n] /\ calls \in Seq(Calls)
      /\ bus \in Buses /\ scan \in Nat /\ scan < Slots /\ Nested(calls, scan)
      /\ complete = FALSE /\ n <= StackRoom
    BY <1>0, CallerIs, SizesTyped DEF PciInv, Top
<1>2. a = <<scan, a[2]>> /\ a \in Addresses /\ a[2] \in Nat
    BY <1>1, CallFields, SizesTyped DEF Nested
<1>3. there <=> a \in DOMAIN bus
    BY <1>1, BusTyped
<1>4. PlainMulti(a) => there
    BY <1>1, <1>3, BusTyped
\* The function is in the list, if it is one that is shown.
<1>5. ASSUME ~Endless(calls) PROVE Lists(listed', Printed(scan, a[2] + 1))
  <2>1. NextFunction(calls) = a[2] /\ (a[2] = 0 \/ PlainMulti(<<scan, 0>>))
      BY <1>0, <1>1, <1>5, Shallow
  <2>2. Lists(listed, Printed(scan, a[2]))
      BY <1>1, <1>5, <2>1 DEF PciInv
  <2>3. there <=> <<scan, a[2]>> \in Shown
      BY <1>2, <1>3, <2>1 DEF Shown
  <2> HIDE DEF a, there
  <2>4. CASE there
    <3> DEFINE f == a[2]
    <3>2. /\ bus \in Buses /\ scan \in Nat /\ f \in Nat /\ a = <<scan, f>>
          /\ <<scan, f>> \in Shown
        BY <1>1, <1>2, <2>3, <2>4
    <3> HIDE DEF f
    <3>3. <<scan, f>> \notin Printed(scan, f)
          /\ Printed(scan, f + 1) = Printed(scan, f) \union {<<scan, f>>}
        BY ONLY <3>2, PrintedNext
    <3>1. a \notin Printed(scan, a[2]) /\ Printed(scan, a[2] + 1) = Printed(scan, a[2]) \union {a}
        BY <3>2, <3>3 DEF f
    <3> QED BY <1>0, <1>2, <2>2, <2>4, <3>1, ListAppended
  <2>5. CASE ~there
    <3>1. Printed(scan, a[2] + 1) = Printed(scan, a[2])
        BY <1>1, <1>2, <2>3, <2>5, PrintedNext
    <3> QED BY <1>0, <2>2, <2>5, <3>1
  <2> QED BY <2>4, <2>5
<1>6. CASE there /\ PlainMulti(a)
  <2>1. calls' = Append(Caller, r) /\ scan' = scan /\ complete' = complete
      BY <1>6 DEF ListFunction
  <2>2. r \in Calls /\ r.at = a /\ r.i = 1
      BY <1>1, SizesTyped DEF Calls
  <2> HIDE DEF r
  <2>3. /\ calls' \in Seq(Calls) /\ Len(calls') = n /\ calls' # <<>>
        /\ \A k \in 1 .. n - 1 : calls'[k] = calls[k]
        /\ calls'[n] = r
    <3> DEFINE t == Append(Caller, r)
    <3>1. /\ t \in Seq(Calls) /\ Len(t) = n /\ t # <<>>
          /\ \A k \in 1 .. n - 1 : t[k] = calls[k]
          /\ t[n] = r
      <4> HIDE DEF t
      <4> QED BY <1>0, <1>1, <2>2, TopReplaced DEF t
    <3> HIDE DEF t
    <3>2. calls' = t
        BY <2>1 DEF t
    <3> QED BY <3>1, <3>2
  <2>4. Nested(calls', scan)
    <3> DEFINE t == calls'
    <3>1. /\ t \in Seq(Calls) /\ Len(t) = n
          /\ \A k \in 1 .. n - 1 : t[k] = calls[k]
          /\ t[n].at = calls[n].at /\ t[n].i = 1 /\ PlainMulti(calls[n].at)
        BY <2>2, <2>3, <1>1, <1>6
    <3> HIDE DEF t
    <3>2. Nested(t, scan)
        BY <3>1, <1>1, NestedReplaced
    <3> QED BY <3>2 DEF t
  <2>5. Endless(calls) => Endless(calls')
    <3> SUFFICES ASSUME Endless(calls) PROVE Endless(calls')
        OBVIOUS
    <3>1. PICK k \in 1 .. n : calls[k].at[2] > 0 /\ calls[k].i > 0
        BY DEF Endless
    <3>2. k # n
        BY <3>1, <1>0, <1>1
    <3> QED BY <3>1, <3>2, <2>3 DEF Endless
  <2>6. ASSUME ~Endless(calls') PROVE Lists(listed', Printed(scan, NextFunction(calls')))
    <3>1. ~Endless(calls)
        BY <2>5, <2>6
    <3>2. n = 1
      <4>1. (n = 1 \/ n = 2) /\ (n = 2 => Top.at[2] > 0)
          BY <1>0, <1>1, <3>1, Shallow
      <4>2. n # 2
          BY <4>1, <2>2, <2>3, <2>6 DEF Endless
      <4> QED BY <4>1, <4>2
    <3>3. a[2] = 0
        BY <1>0, <1>1, <3>1, <3>2, Shallow
    <3>4. NextFunction(calls') = 1
        BY <2>2, <2>3, <3>2 DEF NextFunction
    <3> QED BY <1>5, <3>1, <3>3, <3>4
  <2>7. scan \in 0 .. Slots /\ complete' = FALSE
      BY <1>1, <2>1, SizesTyped
  <2> QED BY <1>0, <1>1, <2>1, <2>3, <2>4, <2>6, <2>7, PciInvNext
<1>7. CASE ~(there /\ PlainMulti(a))
  <2>1. Returned(Caller) /\ ~PlainMulti(a)
      BY <1>4, <1>7 DEF ListFunction
  <2>2. ASSUME n = 1 PROVE \A b \in Shown : b[1] = scan => b[2] < a[2] + 1
    <3>1. a[2] = 0
        BY <1>1, <2>2 DEF Nested
    <3>2. ~PlainMulti(<<scan, 0>>)
        BY <2>1, <1>2, <3>1
    <3> QED BY <3>1, <3>2, <1>1, ShownTyped
  <2>3. a[2] + 1 \in Nat
      BY <1>2
  <2> QED BY <1>0, <1>5, <2>1, <2>2, <2>3, ReturnedKeeps
<1> QED BY <1>6, <1>7

\* The loop of a call: it ends, calls for its next function, or finds no room
\* on the stack (pci.c:184-187).
LEMMA OthersKeeps == ASSUME PciInv, ListOthers PROVE PciInv'
<1> DEFINE n == Len(calls)
           j == Top.i
<1>0. calls # <<>> /\ overflow = FALSE /\ j > 0 /\ bus' = bus /\ listed' = listed
    BY DEF ListOthers, PciInv
<1>1. /\ n \in Nat \ {0} /\ Top \in Calls /\ Top = calls[n] /\ calls \in Seq(Calls)
      /\ bus \in Buses /\ scan \in Nat /\ scan < Slots /\ Nested(calls, scan)
      /\ complete = FALSE /\ n <= StackRoom /\ StackRoom \in Nat /\ StackRoom >= 2
      /\ LastFunction \in Nat /\ scan \in 0 .. Slots
    BY <1>0, CallerIs, SizesTyped DEF PciInv, Top
<1>2. /\ Top.at = <<scan, Top.at[2]>> /\ Top.at \in Addresses /\ Top.at[2] \in Nat
      /\ j \in 0 .. LastFunction + 1 /\ PlainMulti(Top.at)
    BY <1>0, <1>1, CallFields, SizesTyped DEF Nested
<1>3. ASSUME ~Endless(calls) PROVE n = 1 /\ Lists(listed, Printed(scan, j))
  <2>1. n = 1 /\ NextFunction(calls) = j
      BY <1>0, <1>1, <1>3, Shallow
  <2> QED BY <1>1, <1>3, <2>1 DEF PciInv
<1>4. CASE j > LastFunction
  <2>1. Returned(Caller) /\ overflow' = overflow
      BY <1>4 DEF ListOthers
  <2>2. CASE n = 2
    <3>1. Endless(calls)
        BY <2>2, <1>0, <1>1, <1>3
    <3>2. PICK f \in Nat : f = Top.at[2] + 1
        BY <1>2
    <3>3. Len(calls) # 1 /\ Top.i > LastFunction
        BY <1>4, <2>2
    <3> HIDE DEF n, j
    <3> QED BY <1>0, <2>1, <3>1, <3>2, <3>3, ReturnedKeeps
  <2>3. CASE n # 2
    <3>1. \A a \in Shown : a[1] = scan => a[2] < j
      <4>1. \A a \in Shown : a[2] \in 0 .. LastFunction
          BY <1>1, ShownTyped
      <4> QED BY <4>1, <1>1, <1>2, <1>4
    <3>2. j \in Nat
        BY <1>2
    <3> QED BY <1>0, <1>3, <1>4, <2>1, <2>3, <3>1, <3>2, ReturnedKeeps
  <2> QED BY <2>2, <2>3
<1>5. CASE ~(j > LastFunction) /\ n = StackRoom
  <2>1. overflow' = TRUE /\ calls' = calls /\ scan' = scan /\ complete' = complete
      BY <1>5 DEF ListOthers
  <2>2. n \in 1 .. n /\ n - 1 \in 1 .. n - 1 /\ n - 1 \in 1 .. n /\ 1 \in 1 .. n /\ 1 \in 1 .. n - 1
        /\ 2 \in 1 .. n
      BY <1>1, <1>5
  <2>3. Top.at[2] > 0
      BY <2>2, <1>1, <1>2, <1>5 DEF Nested
  <2>4. PlainMulti(<<scan, 0>>)
    <3>1. calls[1].at = <<scan, 0>>
        BY <2>2, <1>1, CallFields DEF Nested
    <3>2. calls[1].i = calls[2].at[2] + 1 /\ calls[2].at[2] \in Nat
        BY <2>2, <1>1, CallFields DEF Nested
    <3>3. calls[1].i > 0
        BY <3>2
    <3> QED BY <2>2, <3>1, <3>3 DEF Nested, PciInv
  <2>5. Top.at \in Shown
    <3>1. Top.at \in DOMAIN bus /\ Top.at[1] = scan
        BY <1>1, <1>2, BusTyped
    <3> QED BY <3>1, <2>4 DEF Shown
  <2>6. \E a \in Shown : a[2] > 0 /\ PlainMulti(a)
      BY <1>2, <2>3, <2>5
  <2> QED BY <1>0, <1>1, <2>1, <2>6, PciInvNext DEF PciInv
<1>6. CASE ~(j > LastFunction) /\ n # StackRoom
  <2> DEFINE r == [Top EXCEPT !.i = @ + 1]
             e == Call(<<Top.at[1], j>>)
             c == Caller
             m == Append(c, r)
             t == Append(m, e)
  <2>1. overflow' = FALSE /\ calls' = t /\ scan' = scan /\ complete' = complete
      BY <1>6 DEF ListOthers
  <2>2. j \in 1 .. LastFunction
      BY <1>0, <1>1, <1>2, <1>6
  <2>3. r \in Calls /\ r.at = Top.at /\ r.i = j + 1
      BY <1>1, <1>2, <2>2 DEF Calls
  <2>4. e \in Calls /\ e.at = <<Top.at[1], j>> /\ e.i = 0
      BY <1>1, <1>2, <2>2 DEF Calls, Call, Addresses
  <2> HIDE DEF r, e, j
  <2>5. /\ m \in Seq(Calls) /\ Len(m) = n /\ m # <<>>
        /\ \A k \in 1 .. n - 1 : m[k] = calls[k]
        /\ m[n] = r
    <3> HIDE DEF m
    <3> QED BY <1>0, <1>1, <2>3, TopReplaced DEF m
  <2> HIDE DEF m
  <2>6. /\ t \in Seq(Calls) /\ Len(t) = n + 1
        /\ \A k \in 1 .. n - 1 : t[k] = calls[k]
        /\ t[n] = r /\ t[n + 1] = e
    <3> HIDE DEF Calls
    <3>1. /\ t \in Seq(Calls) /\ Len(t) = Len(m) + 1
          /\ \A k \in 1 .. Len(m) : t[k] = m[k]
          /\ t[Len(m) + 1] = e
        BY <2>4, <2>5, AppendProperties
    <3> HIDE DEF t
    <3> QED BY <3>1, <2>5, <1>1
  <2> HIDE DEF t
  <2>7. Nested(t, scan) /\ (Endless(calls) => Endless(t))
      BY <1>1, <2>2, <2>3, <2>4, <2>6, NestedPushed DEF j
  <2>8. ASSUME ~Endless(t) PROVE Lists(listed', Printed(scan, NextFunction(t)))
    <3>1. n = 1 /\ Lists(listed, Printed(scan, j))
        BY <1>3, <2>7, <2>8 DEF j
    <3>2. NextFunction(t) = j
      <4>1. Len(t) = 2 /\ t[2] = e /\ t # <<>>
          BY <2>6, <3>1, EmptySeq
      <4> QED BY <4>1, <2>4 DEF NextFunction
    <3> QED BY <1>0, <3>1, <3>2
  <2>9. n + 1 <= StackRoom
      BY <1>1, <1>6
  <2> QED BY <1>0, <1>1, <2>1, <2>6, <2>7, <2>8, <2>9, PciInvNext
<1> QED BY <1>4, <1>5, <1>6

\* Steps that leave the walk alone.
LEMMA PciUntouched ==
    ASSUME PciInv, UNCHANGED <<bus, scan, calls, listed, complete, overflow>>
    PROVE  PciInv'
<1>1. Shown' = Shown /\ Nested(calls, scan)' = Nested(calls, scan)
      /\ Printed(scan, NextFunction(calls))' = Printed(scan, NextFunction(calls))
      /\ Endless(calls)' = Endless(calls)
    BY DEF Shown, PlainMulti, Function, Nested, Printed, NextFunction, Endless
<1>2. (\E a \in Shown : a[2] > 0 /\ PlainMulti(a))' <=> \E a \in Shown : a[2] > 0 /\ PlainMulti(a)
    BY DEF Shown, PlainMulti, Function
<1> QED BY <1>1, <1>2 DEF PciInv, Lists

-----------------------------------------------------------------------------

(* The controller's registers under the writes of 32 bits. *)
\* What WordWrite and Outl go from and to.
States == [hc : [Registers -> SUBSET Bits], reset : BOOLEAN]
\* The registers hold 16 bits each.
HcOK == /\ hc \in [Registers -> SUBSET Bits] /\ reset \in BOOLEAN
        /\ after \in {{}, {Halted}}

\* After a reset the controller is stopped, its interrupts off.
LEMMA PowerOnTyped ==
    ASSUME NEW p \in [Registers -> SUBSET Bits], after \in {{}, {Halted}}
    PROVE  /\ PowerOn(p) \in [Registers -> SUBSET Bits]
           /\ PowerOn(p)[USBCMD] = {} /\ PowerOn(p)[USBINTR] = {}
BY DEF PowerOn, Registers, Bits, Halted, USBCMD, USBSTS, USBINTR, FRNUM, FRBASEADD, SOFMOD,
       PORTSC1, PORTSC2

\* A port's register holds 16 bits whatever is written to it.
LEMMA PortWriteTyped ==
    ASSUME NEW p \in SUBSET Bits, NEW v \in SUBSET Bits
    PROVE  PortWrite(p, v) \in SUBSET Bits
BY DEF PortWrite

\* What the write of one word changes: the register, the status too if it
\* is the command register, and all of them if it is a global reset.
LEMMA WordEffect ==
    ASSUME after \in {{}, {Halted}}, NEW s \in States, NEW r \in Nat, NEW v \in SUBSET Bits,
           NEW t, t = WordWrite(s, r, v)
    PROVE  /\ t \in States
           /\ r = USBCMD /\ Global \in v => t.hc[USBCMD] = {} /\ t.hc[USBINTR] = {}
           /\ ~(r = USBCMD /\ Global \in v) =>
                \A q \in Registers : q # r /\ (r = USBCMD => q # USBSTS) => t.hc[q] = s.hc[q]
           /\ r = USBCMD /\ Global \notin v => t.hc[USBCMD] = v
           /\ r = USBINTR => t.hc[USBINTR] = v
<1> DEFINE h == s.hc
<1>0. h \in [Registers -> SUBSET Bits] /\ s.reset \in BOOLEAN /\ s = [hc |-> h, reset |-> s.reset]
    BY DEF States
<1>1. USBCMD \in Registers /\ USBSTS \in Registers /\ USBINTR \in Registers
      /\ USBCMD # USBSTS /\ USBCMD # USBINTR /\ USBSTS # USBINTR
      /\ USBINTR \notin {PORTSC1, PORTSC2} /\ USBCMD \notin {PORTSC1, PORTSC2}
      /\ USBSTS \notin {PORTSC1, PORTSC2}
    BY DEF Registers, USBCMD, USBSTS, USBINTR, PORTSC1, PORTSC2
<1>h. Halted \in Bits
    BY DEF Halted, Bits
<1> HIDE DEF h
<1>2. CASE r \notin Registers
  <2>1. PORTSC1 \in Registers /\ PORTSC2 \in Registers
      BY DEF Registers
  <2>2. t = s
      BY <1>2, <1>1, <2>1 DEF WordWrite
  <2> QED BY <2>2, <1>1, <1>2
<1>3. CASE r = USBCMD /\ Global \in v
  <2>1. t = [hc |-> PowerOn(h), reset |-> FALSE]
      BY <1>3, <1>1, <1>0 DEF WordWrite, h
  <2> QED BY <2>1, <1>0, <1>1, <1>3, PowerOnTyped DEF States
<1>4. CASE r = USBCMD /\ Global \notin v
  <2> DEFINE sts == IF Run \in h[r] \ v THEN h[USBSTS] \union {Halted} ELSE h[USBSTS]
             g == [h EXCEPT ![r] = v, ![USBSTS] = sts]
  <2>1. t = [hc |-> g, reset |-> s.reset \/ HcReset \in v]
      BY <1>4, <1>1, <1>0 DEF WordWrite, h
  <2>2. sts \in SUBSET Bits
      BY <1>0, <1>1, <1>h
  <2> HIDE DEF sts
  <2>3. /\ g \in [Registers -> SUBSET Bits] /\ g[USBCMD] = v
        /\ \A q \in Registers : q # r /\ q # USBSTS => g[q] = h[q]
      BY <1>0, <1>1, <1>4, <2>2
  <2> HIDE DEF g
  <2> QED BY <2>1, <2>3, <1>0, <1>1, <1>4 DEF States, h
<1>5. CASE r \in Registers /\ r # USBCMD
  <2> DEFINE x == CASE r = USBSTS -> h[r] \ v
                    [] r \in {PORTSC1, PORTSC2} -> PortWrite(h[r], v)
                    [] OTHER -> v
             g == [h EXCEPT ![r] = x]
  <2>1. t = [hc |-> g, reset |-> s.reset]
    <3>1. CASE r = USBSTS
        BY <3>1, <1>5, <1>1, <1>0 DEF WordWrite
    <3>2. CASE r \in {PORTSC1, PORTSC2}
        BY <3>2, <1>5, <1>1, <1>0 DEF WordWrite
    <3>3. CASE r \notin {USBSTS, PORTSC1, PORTSC2}
        BY <3>3, <1>5, <1>1, <1>0 DEF WordWrite
    <3> QED BY <3>1, <3>2, <3>3
  <2>2. x \in SUBSET Bits
    <3>1. h[r] \in SUBSET Bits
        BY <1>0, <1>5
    <3> QED BY <3>1, PortWriteTyped
  <2>4. r = USBINTR => x = v
      BY <1>1
  <2> HIDE DEF x
  <2>3. /\ g \in [Registers -> SUBSET Bits] /\ g[r] = x
        /\ \A q \in Registers : q # r => g[q] = h[q]
      BY <1>0, <1>5, <2>2
  <2> HIDE DEF g
  <2> QED BY <2>1, <2>3, <2>4, <1>0, <1>1, <1>5 DEF States, h
<1> QED BY <1>2, <1>3, <1>4, <1>5

\* What a write of 32 bits changes (io.c:4-6): the register and the one
\* behind it.  To the status register it also turns the interrupts off; to
\* the command register, unless it resets, the command and the status only.
LEMMA OutlEffect ==
    ASSUME after \in {{}, {Halted}}, NEW s \in States, NEW r \in Registers,
           NEW v \in SUBSET (0 .. 31), NEW t, t = Outl(s, r, v)
    PROVE  /\ t \in States
           /\ r # USBCMD => \A q \in Registers \ {r, r + 2} : t.hc[q] = s.hc[q]
           /\ r = USBCMD /\ Global \notin v =>
                 /\ t.hc[USBCMD] = v \intersect Bits
                 /\ \A q \in Registers \ {USBCMD, USBSTS} : t.hc[q] = s.hc[q]
           /\ r = USBCMD /\ Global \in v => t.hc[USBCMD] = {} /\ t.hc[USBINTR] = {}
           /\ r = USBINTR /\ v = {} => t.hc[USBINTR] = {}
           /\ r = USBSTS /\ v \subseteq Bits => t.hc[USBINTR] = {}
<1> DEFINE low == v \intersect Bits
           high == {b - 16 : b \in v \ Bits}
           m == WordWrite(s, r, low)
<1>1. low \in SUBSET Bits /\ high \in SUBSET Bits /\ (v \subseteq Bits => high = {})
      /\ (Global \in v <=> Global \in low) /\ (v = {} => low = {})
    BY DEF Bits, Global
<1>2. r \in Nat /\ r + 2 \in Nat /\ r # r + 2 /\ r + 2 # USBCMD /\ (r # USBCMD => r + 2 # USBSTS)
      /\ (r = USBCMD => r + 2 = USBSTS) /\ (r = USBSTS => r + 2 = USBINTR)
      /\ (r = USBINTR => r + 2 # USBINTR)
      /\ {USBCMD, USBSTS, USBINTR} \subseteq Registers
      /\ USBCMD # USBSTS /\ USBCMD # USBINTR /\ USBSTS # USBINTR
    BY DEF Registers, USBCMD, USBSTS, USBINTR, FRNUM, FRBASEADD, SOFMOD, PORTSC1, PORTSC2
<1>3. t = WordWrite(m, r + 2, high)
    BY DEF Outl
<1> HIDE DEF low, high, m
<1>4. /\ m \in States
      /\ r = USBCMD /\ Global \in low => m.hc[USBCMD] = {} /\ m.hc[USBINTR] = {}
      /\ ~(r = USBCMD /\ Global \in low) =>
            \A q \in Registers : q # r /\ (r = USBCMD => q # USBSTS) => m.hc[q] = s.hc[q]
      /\ r = USBCMD /\ Global \notin low => m.hc[USBCMD] = low
      /\ r = USBINTR => m.hc[USBINTR] = low
    BY <1>1, <1>2, WordEffect DEF m
<1>5. /\ t \in States
      /\ \A q \in Registers : q # r + 2 => t.hc[q] = m.hc[q]
      /\ r + 2 = USBINTR => t.hc[USBINTR] = high
  <2> DEFINE w == r + 2
  <2>1. /\ after \in {{}, {Halted}} /\ m \in States /\ w \in Nat /\ high \in SUBSET Bits
        /\ t = WordWrite(m, w, high) /\ w # USBCMD
      BY <1>1, <1>2, <1>3, <1>4
  <2> HIDE DEF w
  <2>2. /\ t \in States
        /\ \A q \in Registers : q # w => t.hc[q] = m.hc[q]
        /\ w = USBINTR => t.hc[USBINTR] = high
      BY ONLY <2>1, WordEffect
  <2> QED BY <2>2 DEF w
<1> QED BY <1>1, <1>2, <1>4, <1>5 DEF low


\* A write to the port that uhci_init has found: to the controller, or to
\* something that is not there.
LEMMA WriteEffect ==
    ASSUME HcOK, NEW r \in Registers, NEW v \in SUBSET (0 .. 31), Write(r, v)
    PROVE  /\ hc' \in [Registers -> SUBSET Bits] /\ reset' \in BOOLEAN
           /\ r # USBCMD => \A q \in Registers \ {r, r + 2} : hc'[q] = hc[q]
           /\ r = USBCMD /\ Global \notin v =>
                 \A q \in Registers \ {USBCMD, USBSTS} : hc'[q] = hc[q]
           /\ r = USBCMD /\ Run \notin v => hc' = hc \/ Run \notin hc'[USBCMD]
           /\ hc[USBINTR] = {} /\ (r = USBINTR => v = {}) /\ (r = USBSTS => v \subseteq Bits)
                 => hc'[USBINTR] = {}
<1> DEFINE t == Outl(Now, r, v)
<1>1. Now \in States /\ Now.hc = hc /\ after \in {{}, {Halted}}
    BY DEF HcOK, Now, States
<1>2. CASE io # "hc"
    BY <1>2 DEF Write, Becomes, HcOK
<1>3. CASE io = "hc"
  <2>1. hc' = t.hc /\ reset' = t.reset
      BY <1>3 DEF Write, Becomes
  <2>2. /\ t \in States
        /\ r # USBCMD => \A q \in Registers \ {r, r + 2} : t.hc[q] = hc[q]
        /\ r = USBCMD /\ Global \notin v =>
              /\ t.hc[USBCMD] = v \intersect Bits
              /\ \A q \in Registers \ {USBCMD, USBSTS} : t.hc[q] = hc[q]
        /\ r = USBCMD /\ Global \in v => t.hc[USBCMD] = {} /\ t.hc[USBINTR] = {}
        /\ r = USBINTR /\ v = {} => t.hc[USBINTR] = {}
        /\ r = USBSTS /\ v \subseteq Bits => t.hc[USBINTR] = {}
    <3> HIDE DEF t
    <3> QED BY <1>1, OutlEffect DEF t
  <2>3. r \notin {USBCMD, USBSTS, USBINTR} => USBINTR \in Registers \ {r, r + 2}
      BY DEF Registers, USBCMD, USBSTS, USBINTR, FRNUM, FRBASEADD, SOFMOD, PORTSC1, PORTSC2
  <2>4. USBINTR \in Registers \ {USBCMD, USBSTS}
      BY DEF Registers, USBCMD, USBSTS, USBINTR
  <2> HIDE DEF t
  <2>5. hc' \in [Registers -> SUBSET Bits] /\ reset' \in BOOLEAN
      BY <2>1, <2>2 DEF States
  <2>6. r = USBCMD /\ Run \notin v => Run \notin hc'[USBCMD]
      BY <2>1, <2>2
  <2>7. hc[USBINTR] = {} /\ (r = USBINTR => v = {}) /\ (r = USBSTS => v \subseteq Bits)
            => hc'[USBINTR] = {}
      BY <2>1, <2>2, <2>3, <2>4
  <2> QED BY <2>1, <2>2, <2>5, <2>6, <2>7
<1> QED BY <1>2, <1>3

\* Two writes of which the second stops the controller: uhci_reset of the
\* command, and the writes after the check (uhci.c:277-278).
LEMMA BothEffect ==
    ASSUME HcOK, hc[USBINTR] = {}, NEW r \in {USBCMD, USBSTS}, NEW v \in SUBSET Bits,
           NEW w \in SUBSET Bits, Run \notin w, WriteBoth(r, v, USBCMD, w)
    PROVE  /\ hc' \in [Registers -> SUBSET Bits] /\ reset' \in BOOLEAN
           /\ hc'[USBINTR] = {}
           /\ hc' = hc \/ Run \notin hc'[USBCMD]
<1> DEFINE m == Outl(Now, r, v)
           t == Outl(m, USBCMD, w)
<1>1. Now \in States /\ Now.hc = hc /\ after \in {{}, {Halted}}
    BY DEF HcOK, Now, States
<1>2. CASE io # "hc"
    BY <1>2 DEF WriteBoth, Becomes, HcOK
<1>3. CASE io = "hc"
  <2>1. hc' = t.hc /\ reset' = t.reset
      BY <1>3 DEF WriteBoth, Becomes
  <2>2. {USBCMD, USBSTS} \subseteq Registers /\ USBINTR \in Registers \ {USBCMD, USBSTS}
      BY DEF Registers, USBCMD, USBSTS, USBINTR
  <2>3. v \in SUBSET (0 .. 31) /\ w \in SUBSET (0 .. 31)
      BY DEF Bits
  <2> HIDE DEF m
  <2>4. m \in States /\ m.hc[USBINTR] = {}
    <3>1. CASE r = USBCMD /\ Global \in v
        BY <3>1, <1>1, <2>2, <2>3, OutlEffect DEF m
    <3>2. CASE r = USBCMD /\ Global \notin v
        BY <3>2, <1>1, <2>2, <2>3, OutlEffect DEF m
    <3>3. CASE r = USBSTS
        BY <3>3, <1>1, <2>2, <2>3, OutlEffect DEF m
    <3> QED BY <3>1, <3>2, <3>3
  <2> HIDE DEF t
  <2>5. /\ t \in States /\ t.hc[USBINTR] = {} /\ Run \notin t.hc[USBCMD]
    <3>1. CASE Global \in w
        BY <3>1, <1>1, <2>2, <2>3, <2>4, OutlEffect DEF t
    <3>2. CASE Global \notin w
      <4>1. /\ t \in States /\ t.hc[USBCMD] = w \intersect Bits
            /\ \A q \in Registers \ {USBCMD, USBSTS} : t.hc[q] = m.hc[q]
          BY <3>2, <1>1, <2>2, <2>3, <2>4, OutlEffect DEF t
      <4> QED BY <4>1, <2>2, <2>4
    <3> QED BY <3>1, <3>2
  <2> QED BY <2>1, <2>5 DEF States
<1> QED BY <1>2, <1>3

-----------------------------------------------------------------------------
\* The operations the port's programs are made of.
Operations == {Get, Pause} \union {Put(keep, set) : keep, set \in SUBSET Bits}
              \union {Test(bits, one) : bits \in SUBSET Bits, one \in BOOLEAN}

\* uhci_port_present and uhci_port_reset write words (uhci.c:58-106).
LEMMA PortProgramTyped ==
    /\ PortProgram \in Seq(Operations) /\ Len(PortProgram) \in Nat
    /\ \A k \in 1 .. Len(PortProgram) :
          PortProgram[k].op = "write" => PortProgram[k].set \in SUBSET Bits
<1>1. /\ Get \in Operations /\ Pause \in Operations
      /\ \A keep, set \in SUBSET Bits : Put(keep, set) \in Operations
      /\ \A bits \in SUBSET Bits, one \in BOOLEAN : Test(bits, one) \in Operations
    BY DEF Operations
<1>2. /\ {7} \in SUBSET Bits /\ Bits \ {7} \in SUBSET Bits /\ {} \in SUBSET Bits
      /\ Bits \in SUBSET Bits /\ {1, 3} \in SUBSET Bits /\ {9} \in SUBSET Bits
      /\ {0, 4, 5, 7} \union 10 .. 15 \in SUBSET Bits /\ {0, 1} \in SUBSET Bits
      /\ {0, 2} \in SUBSET Bits /\ 0 .. 3 \in SUBSET Bits
    BY DEF Bits
<1>3. \A x \in Operations : x.op = "write" => x.set \in SUBSET Bits
    BY DEF Operations, Get, Put, Pause, Test
<1> HIDE DEF Operations
<1>4. /\ Test({7}, TRUE) \in Operations /\ Put(Bits \ {7}, {}) \in Operations
      /\ Put(Bits, {7}) \in Operations /\ Put(Bits, {1, 3}) \in Operations
      /\ Test({1, 3}, FALSE) \in Operations /\ Put(Bits, {9}) \in Operations
      /\ Put({0, 4, 5, 7} \union 10 .. 15, {}) \in Operations /\ Put(Bits, {0, 1}) \in Operations
      /\ Put(Bits, {0, 2}) \in Operations /\ Put(Bits, 0 .. 3) \in Operations
    BY <1>1, <1>2
<1>5. PortPresent \in Seq(Operations)
  <2>1. \A g, t, p, q, r, u \in Operations : <<g, t, g, p, g, q, g, t, g, r, g, u>> \in Seq(Operations)
      OBVIOUS
  <2> QED BY <1>1, <1>4, <2>1, Zenon DEF PortPresent
<1>6. PortReset \in Seq(Operations)
    BY <1>1, <1>4 DEF PortReset
<1>7. PortProgram \in Seq(Operations)
    BY <1>5, <1>6, ConcatProperties DEF PortProgram
<1>8. \A k \in 1 .. Len(PortProgram) : PortProgram[k] \in Operations
    BY <1>7, ElementOfSeq
<1> QED BY <1>3, <1>7, <1>8, LenProperties

-----------------------------------------------------------------------------
\* Types of uhci_init's state.  The counter is used again by each transfer:
\* it is zero when nothing counts (uhci.c:146, 226).
DriverOK ==
    /\ pc \in {"timer", "find", "reset", "resetWait", "check", "hcWait", "configure", "port",
               "address", "addressLook", "descriptor", "descriptorLook", "idle"}
    /\ step \in Nat
    /\ pc = "configure" => step \in 0 .. 5
    /\ pc = "port" => step <= Len(PortProgram)
    /\ io \in {"none", "hc", "other"}
    /\ count \in 0 .. (IF pc \in {"reset", "resetWait"} THEN Rounds - 1 ELSE Tries)
    /\ pc \in {"timer", "find", "check", "hcWait", "configure", "port", "address"} => count = 0
    /\ val \subseteq Bits /\ frame \subseteq 0 .. 31
    /\ tick \in 0 .. Period - 1
    /\ disturbed \in BOOLEAN /\ delaying \in BOOLEAN
    /\ commands \in 0 .. MaxCommands /\ plugs \in 0 .. MaxPlugs

\* The three outcomes of a read of the search: on to the next function, on to
\* the next register, or found (pci.c:99-124).
LEMMA FindReadCases ==
    ASSUME step \in Nat, FindRead, NEW f, f = Function(bus, address)
    PROVE  /\ Field \in {"vendor", "uhci", "port"}
           /\ \/ /\ (Field = "vendor" /\ ~f.vendor) \/ (Field = "uhci" /\ ~f.uhci)
                 /\ step' = NextTurn /\ pc' = pc /\ io' = io
              \/ /\ (Field = "vendor" /\ f.vendor) \/ (Field = "uhci" /\ f.uhci)
                 /\ step' = step + 1 /\ pc' = pc /\ io' = io
              \/ /\ Field = "port" /\ pc' = "reset" /\ step' = 0
                 /\ io' = IF address \in First THEN "hc" ELSE "other"
<1>1. Field \in {"vendor", "uhci", "port"}
  <2>1. 1 + (step % 6) \div 2 \in 1 .. 3
      OBVIOUS
  <2> QED BY <2>1 DEF Field, Fields
<1>2. CASE Field = "vendor"
  <2> QED BY <1>2 DEF FindRead
<1>3. CASE Field = "uhci"
    BY <1>3 DEF FindRead
<1>4. CASE Field = "port"
    BY <1>4 DEF FindRead, Goto
<1> QED BY <1>1, <1>2, <1>3, <1>4

\* Every step keeps the types of the driver.
LEMMA DriverInductive ==
    ASSUME UhciAssumption, HcOK, DriverOK, [Next]_vars
    PROVE  DriverOK'
<1> USE DEF DriverOK
<1>0. /\ Period \in Nat \ {0} /\ Rounds \in Nat \ {0} /\ Tries \in Nat
      /\ Frames \subseteq SUBSET (0 .. 31) /\ MaxCommands \in Nat /\ MaxPlugs \in Nat
      /\ Len(PortProgram) \in Nat
    BY PortProgramTyped DEF UhciAssumption
<1>z. 0 \in 0 .. Period - 1 /\ 0 \in 0 .. Rounds - 1 /\ 0 \in 0 .. Tries /\ Tries \in 0 .. Tries
    BY <1>0
<1> HIDE DEF UhciAssumption, PortProgram
<1>1. CASE SetupTimer \/ FindNothing
  <2>1. /\ pc \in {"timer", "find"} /\ pc' \in {"find", "idle"} /\ step' = 0
        /\ UNCHANGED <<io, count, frame, val, tick, disturbed, commands, plugs, delaying>>
      BY <1>1 DEF SetupTimer, FindNothing, Main, Goto, driver, timerVars, Calibrate
  <2> QED BY <2>1, <1>0, <1>z
<1>2. CASE FindAddress
    BY <1>2, <1>0 DEF FindAddress, Main, driver, timerVars
<1>3. CASE FindRead
  <2>1. step' \in Nat /\ pc' \in {"find", "reset"} /\ io' \in {"none", "hc", "other"}
    <3>1. step + 1 \in Nat /\ NextTurn \in Nat
        BY DEF NextTurn
    <3>2. pc = "find"
        BY <1>3 DEF FindRead, Main
    <3> HIDE DEF NextTurn
    <3> QED BY <1>3, <3>1, <3>2, FindReadCases
  <2>2. count' = count /\ pc = "find"
      BY <1>3 DEF FindRead, Main
  <2> QED BY <1>3, <2>1, <2>2, <1>0, <1>z DEF FindRead, timerVars
<1>4. CASE ResetOn
    BY <1>4, <1>0 DEF ResetOn, Main, BeginWait, Goto, timerVars
<1>5. CASE ResetOff
  <2>1. count' \in 0 .. Rounds - 1
      BY <1>5, <1>0 DEF ResetOff, Waited, Main
  <2> QED BY <1>5, <1>0, <1>z, <2>1 DEF ResetOff, Waited, Main, Goto, timerVars
<1>6. CASE CheckReset
    BY <1>6, <1>0 DEF CheckReset, Main, BeginWait, Goto, timerVars
<1>7. CASE Allocate
    BY <1>7, <1>0, <1>z DEF Allocate, Waited, Main, Goto, timerVars
<1>8. CASE Configure
  <2>1. Len(Schedule) = 6
      BY DEF Schedule
  <2> QED BY <1>8, <1>0, <2>1 DEF Configure, Main, Goto, driver, timerVars
<1>9. CASE PortStep
  <2>1. val' \subseteq Bits
    <3>1. In(PORTSC1) \subseteq Bits
        BY DEF In, HcOK, Registers
    <3> QED BY <1>9, <3>1 DEF PortStep
  <2>2. delaying' \in BOOLEAN
      BY <1>9 DEF PortStep, Delay, timerVars
  <2>3. pc' \in {"idle", "port"} /\ step' \in Nat /\ (pc' = "port" => step' <= Len(PortProgram))
      BY <1>9, <1>0 DEF PortStep, Main, Goto
  <2> QED BY <1>9, <1>0, <2>1, <2>2, <2>3 DEF PortStep, Main
<1>10. CASE PortDone
    BY <1>10, <1>0 DEF PortDone, Main, Goto, timerVars
<1>11. CASE SetAddress \/ GetDescriptor
  <2>1. /\ pc' \in {"addressLook", "descriptorLook"} /\ step' = 0 /\ count' = Tries
        /\ UNCHANGED <<io, frame, val, tick, disturbed, commands, plugs, delaying>>
      BY <1>11 DEF SetAddress, GetDescriptor, Goto, timerVars
  <2> QED BY <2>1, <1>0, <1>z
<1>12. CASE LookAgain
    BY <1>12, <1>0 DEF LookAgain, Looking, Delay
<1>13. CASE TransferEnd
    BY <1>13, <1>0 DEF TransferEnd, Looking, Goto, timerVars
<1>14. CASE DelayOver \/ CounterStep
    BY <1>14, <1>0 DEF DelayOver, DelayEnd, CounterStep, TscStep, driver
<1>15. CASE ControllerStep \/ ControllerReset
  <2>1. UNCHANGED <<pc, step, io, count, frame, val, tick, disturbed, commands, plugs, delaying>>
      BY <1>15 DEF ControllerStep, ControllerReset, timerVars
  <2> QED BY <2>1, <1>0
<1>16. CASE Plug
    BY <1>16, <1>0 DEF Plug, timerVars
<1>17. CASE Tick
    BY <1>17, <1>0 DEF Tick, timerVars
<1>18. CASE CommandList
    BY <1>18, <1>0 DEF CommandList, Command, timerVars
<1>19. CASE CommandReset
    BY <1>19, <1>0 DEF CommandReset, Command, driver, timerVars
<1>20. CASE List
    BY <1>20, <1>0 DEF List, driver, timerVars
<1>21. CASE UNCHANGED vars
    BY <1>21 DEF vars, timerVars
<1> QED BY <1>1, <1>2, <1>3, <1>4, <1>5, <1>6, <1>7, <1>8, <1>9, <1>10, <1>11, <1>12, <1>13,
           <1>14, <1>15, <1>16, <1>17, <1>18, <1>19, <1>20, <1>21 DEF Next, DriverStep

-----------------------------------------------------------------------------
\* Where uhci_init is before the controller runs (uhci.c:264-296).
Early == {"timer", "find", "reset", "resetWait", "check", "hcWait", "configure"}
\* The controller is quiet, and does not run too early.
HcInv == /\ HcOK
         /\ hc[USBINTR] = {}
         /\ pc \in Early => Run \notin hc[USBCMD]
\* The action of ScheduleKept: the schedule of a controller that goes on
\* running stays.
Kept == Run \in hc[USBCMD] \intersect hc'[USBCMD] =>
            \A r \in {FRNUM, FRBASEADD, FRBASEADD + 2, SOFMOD} : hc'[r] = hc[r]

\* No step turns interrupts on, starts the controller early or writes the
\* schedule while it runs: of the six writes of the configuration
\* (uhci.c:291-296) the last one starts it, that to the status register puts
\* zeros into the interrupt register behind it, and what is written to the
\* port (uhci.c:62-101) reaches the second port only.
LEMMA ControllerInductive ==
    ASSUME UhciAssumption, HcInv, DriverOK, [Next]_vars
    PROVE  HcInv' /\ Kept
<1> USE DEF HcInv
<1>0. /\ {USBCMD, USBSTS, USBINTR, PORTSC1} \subseteq Registers
      /\ {FRNUM, FRBASEADD, FRBASEADD + 2, SOFMOD} \subseteq
             Registers \ {USBCMD, USBSTS, USBINTR, USBINTR + 0, PORTSC1, PORTSC2}
      /\ USBCMD \notin {USBSTS, USBINTR, PORTSC1, PORTSC2}
      /\ USBINTR \notin {USBSTS, PORTSC1, PORTSC2}
      /\ USBCMD + 2 = USBSTS /\ USBSTS + 2 = USBINTR /\ PORTSC1 + 2 = PORTSC2
    BY DEF Registers, USBCMD, USBSTS, USBINTR, FRNUM, FRBASEADD, SOFMOD, PORTSC1, PORTSC2
<1>w. {Run, Global, Done, HcReset, Halted, 4} \subseteq Bits /\ 0 .. 7 \subseteq Bits
      /\ Bits \subseteq 0 .. 31 /\ Run \notin {Global, HcReset}
    BY DEF Run, Global, Done, HcReset, Halted, Bits
<1>s. ASSUME UNCHANGED controller, pc' \in Early => pc \in Early PROVE HcInv' /\ Kept
    BY <1>s DEF HcOK, Kept, controller
<1>r. ASSUME NEW v \in {{}, {Global}}, Write(USBCMD, v), after' = after, pc \in Early
      PROVE HcInv' /\ Kept
  <2>1. v \in SUBSET (0 .. 31) /\ Run \notin v /\ (USBCMD = USBINTR => v = {})
        /\ (USBCMD = USBSTS => v \subseteq Bits)
    <3>1. CASE v = {}
        BY <1>0, <3>1
    <3>2. CASE v = {Global}
      <4>1. v \in SUBSET (0 .. 31) /\ Run \notin v
          BY <3>2 DEF Run, Global
      <4> QED BY <4>1, <1>0
    <3> QED BY <3>1, <3>2
  <2>2. /\ hc' \in [Registers -> SUBSET Bits] /\ reset' \in BOOLEAN
        /\ hc' = hc \/ Run \notin hc'[USBCMD]
        /\ hc'[USBINTR] = {}
      BY <1>0, <1>r, <2>1, WriteEffect
  <2> QED BY <2>2, <1>r DEF HcOK, Kept
<1>1. CASE SetupTimer \/ FindAddress \/ FindRead \/ FindNothing \/ PortDone \/ LookAgain \/ Allocate
  <2>1. UNCHANGED controller /\ (pc' \in Early => pc \in Early)
      BY <1>1 DEF SetupTimer, FindAddress, FindRead, FindNothing, PortDone, LookAgain, Allocate,
                  Main, Goto, Waited, Early, controller
  <2> QED BY <2>1, <1>s
<1>2. CASE DelayOver \/ CounterStep \/ Tick \/ CommandList \/ List
  <2>1. UNCHANGED controller /\ (pc' \in Early => pc \in Early)
      BY <1>2 DEF DelayOver, CounterStep, Tick, CommandList, List, controller
  <2> QED BY <2>1, <1>s
<1>3. CASE ResetOn
    BY <1>3, <1>r DEF ResetOn, Main, Early
<1>4. CASE ResetOff
    BY <1>4, <1>r DEF ResetOff, Waited, Main, Early
<1>5. CASE CheckReset
  <2>1. CASE UNCHANGED <<hc, reset>>
    <3>1. UNCHANGED controller /\ pc \in Early
        BY <1>5, <2>1 DEF CheckReset, Main, Early, controller
    <3> QED BY <3>1, <1>s
  <2>2. CASE WriteBoth(USBSTS, 0 .. 7, USBCMD, {HcReset})
    <3>1. /\ hc' \in [Registers -> SUBSET Bits] /\ reset' \in BOOLEAN
          /\ hc'[USBINTR] = {}
          /\ hc' = hc \/ Run \notin hc'[USBCMD]
      <4> DEFINE v == 0 .. 7
                 w == {HcReset}
                 s == USBSTS
      <4>1. /\ HcOK /\ hc[USBINTR] = {} /\ s \in {USBCMD, USBSTS} /\ v \in SUBSET Bits
            /\ w \in SUBSET Bits /\ Run \notin w /\ WriteBoth(s, v, USBCMD, w)
          BY <2>2, <1>w
      <4> HIDE DEF v, w, s
      <4> QED BY ONLY <4>1, BothEffect
    <3>2. pc \in Early /\ after' = after
        BY <1>5 DEF CheckReset, Main, Early
    <3> QED BY <3>1, <3>2 DEF HcOK, Kept
  <2> QED BY <1>5, <2>1, <2>2 DEF CheckReset
<1>6. CASE Configure
  <2>1. Run \notin hc[USBCMD] /\ pc = "configure" /\ after' = after /\ step \in 0 .. 5
        /\ frame \in SUBSET (0 .. 31)
      BY <1>6 DEF Configure, Main, Early, DriverOK
  <2>2. PICK r \in Registers, v \in SUBSET (0 .. 31) :
           /\ Write(r, v)
           /\ r = USBINTR => v = {}
           /\ r = USBSTS => v \subseteq Bits
           /\ r = USBCMD => step = 5
    <3>0. Write(Schedule[step + 1][1], Schedule[step + 1][2])
        BY <1>6 DEF Configure
    <3>1. {6} \subseteq Bits /\ {6} \in SUBSET (0 .. 31) /\ {7, 6, Run} \in SUBSET (0 .. 31)
        BY DEF Bits, Run
    <3>2. /\ Schedule[1] = <<FRBASEADD, frame>> /\ Schedule[2] = <<FRNUM, {}>>
          /\ Schedule[3] = <<SOFMOD, {6}>> /\ Schedule[4] = <<USBINTR, {}>>
          /\ Schedule[5] = <<USBSTS, {6}>> /\ Schedule[6] = <<USBCMD, {7, 6, Run}>>
        BY DEF Schedule
    <3>3. /\ {FRBASEADD, FRNUM, SOFMOD} \subseteq Registers \ {USBINTR, USBSTS, USBCMD}
        BY DEF Registers, USBCMD, USBSTS, USBINTR, FRNUM, FRBASEADD, SOFMOD
    <3> HIDE DEF Schedule
    <3>4. CASE step = 0
        BY <3>0, <3>2, <3>3, <3>4, <2>1
    <3>5. CASE step = 1
        BY <3>0, <3>2, <3>3, <3>5
    <3>6. CASE step = 2
        BY <3>0, <3>1, <3>2, <3>3, <3>6
    <3>7. CASE step = 3
        BY <3>0, <3>2, <1>0, <3>7
    <3>8. CASE step = 4
        BY <3>0, <3>1, <3>2, <1>0, <3>8
    <3>9. CASE step = 5
        BY <3>0, <3>1, <3>2, <1>0, <3>9
    <3> QED BY <2>1, <3>4, <3>5, <3>6, <3>7, <3>8, <3>9
  <2>3. /\ hc' \in [Registers -> SUBSET Bits] /\ reset' \in BOOLEAN
        /\ r # USBCMD => \A q \in Registers \ {r, r + 2} : hc'[q] = hc[q]
        /\ hc'[USBINTR] = {}
      BY <2>2, WriteEffect
  <2>4. r # USBCMD => hc'[USBCMD] = hc[USBCMD]
    <3>1. r + 2 # USBCMD
        BY DEF Registers, USBCMD, USBSTS, USBINTR, FRNUM, FRBASEADD, SOFMOD, PORTSC1, PORTSC2
    <3> QED BY <3>1, <1>0, <2>3
  <2>5. r = USBCMD => pc' = "port"
    <3>1. Len(Schedule) = 6
        BY DEF Schedule
    <3> QED BY <1>6, <2>1, <2>2, <3>1 DEF Configure, Goto
  <2> QED BY <2>1, <2>3, <2>4, <2>5 DEF HcOK, Kept, Early
<1>7. CASE PortStep
  <2>0. pc = "port" /\ pc' \notin Early /\ after' = after
      BY <1>7 DEF PortStep, Main, Goto, Early
  <2>1. CASE UNCHANGED <<hc, reset>>
      BY <2>0, <2>1, <1>s DEF controller
  <2>2. CASE \E v \in SUBSET Bits : Write(PORTSC1, v)
    <3>1. PICK v \in SUBSET Bits : Write(PORTSC1, v)
        BY <2>2
    <3>2. /\ hc' \in [Registers -> SUBSET Bits] /\ reset' \in BOOLEAN
          /\ \A q \in Registers \ {PORTSC1, PORTSC2} : hc'[q] = hc[q]
        BY <3>1, <1>0, <1>w, WriteEffect
    <3> QED BY <3>2, <2>0, <1>0 DEF HcOK, Kept
  <2>3. UNCHANGED <<hc, reset>> \/ \E v \in SUBSET Bits : Write(PORTSC1, v)
    <3> DEFINE it == PortProgram[step + 1]
               v == (val \intersect it.keep) \union it.set
    <3>1. step + 1 \in 1 .. Len(PortProgram)
        BY <1>7, PortProgramTyped DEF PortStep, DriverOK
    <3>2. it.op = "write" => v \in SUBSET Bits
        BY <3>1, PortProgramTyped DEF DriverOK
    <3>3. IF it.op = "write" THEN Write(PORTSC1, v) ELSE UNCHANGED <<hc, reset>>
        BY <1>7 DEF PortStep
    <3> HIDE DEF it, v
    <3> QED BY <3>2, <3>3
  <2> QED BY <2>1, <2>2, <2>3
<1>8. CASE SetAddress \/ GetDescriptor \/ TransferEnd
  <2>0. pc' \notin Early /\ after' = after
        /\ (Write(USBSTS, {Done}) \/ UNCHANGED <<hc, reset>>)
      BY <1>8 DEF SetAddress, GetDescriptor, TransferEnd, Looking, Main, Goto, Early
  <2>1. CASE UNCHANGED <<hc, reset>>
      BY <2>0, <2>1, <1>s DEF controller
  <2>2. CASE Write(USBSTS, {Done})
    <3>1. /\ hc' \in [Registers -> SUBSET Bits] /\ reset' \in BOOLEAN
          /\ \A q \in Registers \ {USBSTS, USBINTR} : hc'[q] = hc[q]
          /\ hc'[USBINTR] = {}
        BY <2>2, <1>0, <1>w, WriteEffect
    <3> QED BY <3>1, <2>0, <1>0 DEF HcOK, Kept
  <2> QED BY <2>0, <2>1, <2>2
<1>9. CASE CommandReset
  <2>1. WriteBoth(USBCMD, {Global}, USBCMD, {}) /\ pc' = pc /\ after' = after
      BY <1>9 DEF CommandReset
  <2>2. /\ hc' \in [Registers -> SUBSET Bits] /\ reset' \in BOOLEAN
        /\ hc'[USBINTR] = {}
        /\ hc' = hc \/ Run \notin hc'[USBCMD]
      BY <2>1, <1>w, BothEffect
  <2> QED BY <2>1, <2>2 DEF HcOK, Kept
<1>10. CASE ControllerStep
  <2>0. pc' = pc /\ after' = after /\ reset' = reset /\ Run \in hc[USBCMD]
      BY <1>10 DEF ControllerStep
  <2>1. /\ hc' \in [Registers -> SUBSET Bits]
        /\ \A q \in Registers \ {USBCMD, USBSTS} : hc'[q] = hc[q]
      BY <1>10, <1>0, <1>w DEF ControllerStep, HcOK
  <2> QED BY <2>0, <2>1, <1>0 DEF HcOK, Kept
<1>11. CASE ControllerReset
  <2>1. hc' = PowerOn(hc) /\ reset' = FALSE /\ pc' = pc /\ after' = after
      BY <1>11 DEF ControllerReset
  <2>2. hc' \in [Registers -> SUBSET Bits] /\ hc'[USBCMD] = {} /\ hc'[USBINTR] = {}
      BY <2>1, PowerOnTyped DEF HcOK
  <2> QED BY <2>1, <2>2 DEF HcOK, Kept
<1>12. CASE Plug
  <2>0. pc' = pc /\ after' = after /\ reset' = reset
      BY <1>12 DEF Plug
  <2>1. /\ hc' \in [Registers -> SUBSET Bits]
        /\ \A q \in Registers \ {PORTSC1} : hc'[q] = hc[q]
    <3>1. {0, 1} \subseteq Bits
        BY DEF Bits
    <3> QED BY <1>12, <1>0, <3>1 DEF Plug, HcOK
  <2> QED BY <2>0, <2>1, <1>0 DEF HcOK, Kept
<1>13. CASE UNCHANGED vars
    BY <1>13, <1>s DEF vars, controller
<1> QED BY <1>1, <1>2, <1>3, <1>4, <1>5, <1>6, <1>7, <1>8, <1>9, <1>10, <1>11, <1>12, <1>13
        DEF Next, DriverStep

-----------------------------------------------------------------------------
\* The steps of uhci_init, the controller and the clocks leave the walk of
\* "lspci" alone, which the handler does at one go.
LEMMA WalkInductive ==
    ASSUME PciInv, [Next]_vars
    PROVE  PciInv'
<1>1. CASE CommandList
    BY <1>1, StartKeeps DEF CommandList, Command
<1>2. CASE List
    BY <1>2, SlotKeeps, FunctionKeeps, OthersKeeps DEF List, ListNext
<1>3. CASE ~(CommandList \/ List)
  <2>1. UNCHANGED <<bus, scan, calls, listed, complete, overflow>>
    <3>1. CASE SetupTimer \/ FindAddress \/ FindRead \/ FindNothing \/ ResetOn \/ CheckReset \/ Configure
        BY <3>1 DEF SetupTimer, FindAddress, FindRead, FindNothing, ResetOn, CheckReset, Configure,
                    pciVars
    <3>2. CASE PortStep \/ PortDone \/ SetAddress \/ GetDescriptor \/ LookAgain \/ TransferEnd
        BY <3>2 DEF PortStep, PortDone, SetAddress, GetDescriptor, LookAgain, TransferEnd, pciVars
    <3>3. CASE ResetOff \/ Allocate \/ DelayOver \/ ControllerStep \/ ControllerReset \/ Plug
        BY <3>3 DEF ResetOff, Allocate, DelayOver, ControllerStep, ControllerReset, Plug, pciVars
    <3>4. CASE Tick \/ CounterStep \/ CommandReset \/ UNCHANGED vars
        BY <3>4 DEF Tick, CounterStep, CommandReset, vars, pciVars
    <3> QED BY <1>3, <3>1, <3>2, <3>3, <3>4 DEF Next, DriverStep
  <2> QED BY <2>1, PciUntouched
<1> QED BY <1>1, <1>2, <1>3

-----------------------------------------------------------------------------
\* At most eight descriptors for data (uhci.c:197).
LEMMA CountBounded == \A size, packet \in Nat : DataCount(size, packet) \in 0 .. 8
<1> SUFFICES ASSUME NEW size \in Nat, NEW packet \in Nat, size # 0, packet # 0, size <= 8 * packet
             PROVE  (size + packet - 1) \div packet \in 0 .. 8
    BY DEF DataCount
<1>1. size + packet - 1 < 9 * packet /\ size + packet - 1 \in Nat
    OBVIOUS
<1>2. (size + packet - 1) \div packet < 9
    BY <1>1
<1>3. (size + packet - 1) \div packet >= 0 /\ (size + packet - 1) \div packet \in Int
    BY <1>1
<1> QED BY <1>2, <1>3

\* What a chain of descriptors should be.
Orderly(c, packet) ==
    /\ Len(c) \in 0 .. 10
    /\ \A i \in DOMAIN c : c[i].link = IF i = Len(c) THEN 0 ELSE i + 1
    /\ packet <= 8 =>
          \A i \in DOMAIN c :
             /\ c[i].from + c[i].len <= 128
             /\ \A k \in i + 1 .. Len(c) - 1 : c[i].from + c[i].len <= c[k].from

\* The chain for any size and packet size: ten descriptors at most, linked in
\* order; with packets of eight bytes or less their places do not overlap and
\* end before the queue (uhci.c:189-211).
LEMMA DescriptorsSound ==
    ASSUME NEW size \in Nat, NEW packet \in Nat, NEW c, c = DescriptorChain(size, packet)
    PROVE  Orderly(c, packet)
<1> DEFINE n == DataCount(size, packet)
           rest(k) == size - (k - 1) * packet
           data(k) == Descriptor(k + 2, 8 * k, IF rest(k) <= packet THEN rest(k) ELSE packet)
           D == [link : Nat, from : Nat, len : Int]
           d == [k \in 1 .. n |-> data(k)]
           h == << Descriptor(2, 0, 8) >>
           e == << Descriptor(0, 0, 0) >>
<1>1. n \in 0 .. 8
    BY CountBounded
<1>2. c = h \o d \o e
    BY DEF DescriptorChain
<1> HIDE DEF n
<1>3. ASSUME NEW k \in 1 .. n
      PROVE  data(k) \in D /\ data(k).link = k + 2 /\ data(k).from = 8 * k /\ data(k).len <= packet
  <2>1. rest(k) \in Int /\ k \in Nat
      BY <1>1
  <2> HIDE DEF rest
  <2> QED BY <2>1 DEF Descriptor
<1> HIDE DEF data
<1>4. d \in Seq(D) /\ Len(d) = n /\ \A k \in 1 .. n : d[k] = data(k)
    BY <1>1, <1>3, IsASeq
<1>5. h \in Seq(D) /\ Len(h) = 1 /\ h[1] = Descriptor(2, 0, 8)
    BY DEF Descriptor
<1>6. e \in Seq(D) /\ Len(e) = 1 /\ e[1] = Descriptor(0, 0, 0)
    BY DEF Descriptor
<1> HIDE DEF d, h, e, D
<1>7. /\ h \o d \in Seq(D) /\ Len(h \o d) = n + 1 /\ (h \o d)[1] = h[1]
      /\ \A i \in 2 .. n + 1 : (h \o d)[i] = d[i - 1]
  <2>1. /\ h \o d \in Seq(D) /\ Len(h \o d) = Len(h) + Len(d)
        /\ \A i \in 1 .. Len(h) + Len(d) : (h \o d)[i] = IF i <= Len(h) THEN h[i] ELSE d[i - Len(h)]
      BY <1>4, <1>5, ConcatProperties
  <2> QED BY <2>1, <1>1, <1>4, <1>5
<1>8. /\ c \in Seq(D) /\ Len(c) = n + 2 /\ DOMAIN c = 1 .. n + 2
      /\ c[1] = Descriptor(2, 0, 8) /\ c[n + 2] = Descriptor(0, 0, 0)
      /\ \A i \in 2 .. n + 1 : c[i] = data(i - 1)
  <2> DEFINE hd == h \o d
  <2>0. c = hd \o e
      BY <1>2
  <2>7. /\ hd \in Seq(D) /\ Len(hd) = n + 1 /\ hd[1] = h[1]
        /\ \A i \in 2 .. n + 1 : hd[i] = d[i - 1]
      BY <1>7
  <2> HIDE DEF hd
  <2>1. /\ hd \o e \in Seq(D) /\ Len(hd \o e) = Len(hd) + Len(e)
        /\ \A i \in 1 .. Len(hd) + Len(e) :
              (hd \o e)[i] = IF i <= Len(hd) THEN hd[i] ELSE e[i - Len(hd)]
      BY <2>7, <1>6, ConcatProperties
  <2>2. c \in Seq(D) /\ Len(c) = n + 2
      BY <2>0, <2>1, <2>7, <1>1, <1>6
  <2>3. DOMAIN c = 1 .. n + 2
      BY <2>2, LenProperties
  <2>4. \A i \in 1 .. n + 2 : c[i] = IF i <= n + 1 THEN hd[i] ELSE e[i - (n + 1)]
      BY <2>0, <2>1, <2>7, <1>1, <1>6
  <2>5. c[1] = h[1] /\ c[n + 2] = e[1]
      BY <2>4, <2>7, <1>1
  <2>6. ASSUME NEW i \in 2 .. n + 1 PROVE c[i] = data(i - 1)
    <3>1. c[i] = d[i - 1] /\ i - 1 \in 1 .. n
        BY <2>4, <2>7, <1>1
    <3>2. \A k \in 1 .. n : d[k] = data(k)
        BY <1>4
    <3> QED BY <3>1, <3>2
  <2> QED BY <2>2, <2>3, <2>5, <2>6, <1>5, <1>6
<1>9. /\ c[1].link = 2 /\ c[1].from = 0 /\ c[1].len = 8
      /\ c[n + 2].link = 0 /\ c[n + 2].from = 0 /\ c[n + 2].len = 0
    BY <1>8 DEF Descriptor
<1>10. ASSUME NEW i \in 2 .. n + 1
       PROVE c[i].link = i + 1 /\ c[i].from = 8 * (i - 1) /\ c[i].len <= packet /\ c[i].len \in Int
  <2>1. i - 1 \in 1 .. n /\ c[i] = data(i - 1) /\ i - 1 + 2 = i + 1
      BY <1>1, <1>8
  <2>2. data(i - 1).len \in Int
      BY <2>1, <1>3 DEF D
  <2> QED BY <2>1, <2>2, <1>3
<1>11. ASSUME NEW i \in 1 .. n + 2
       PROVE  /\ i = 1 \/ i = n + 2 \/ i \in 2 .. n + 1
              /\ i = 1 => i + 1 = 2
    BY <1>1
<1>12. ASSUME NEW i \in 1 .. n + 2 PROVE c[i].link = IF i = n + 2 THEN 0 ELSE i + 1
  <2>1. 1 # n + 2 /\ (i \in 2 .. n + 1 => i # n + 2)
      BY <1>1
  <2> QED BY <2>1, <1>9, <1>10, <1>11
<1>13. ASSUME packet <= 8, NEW i \in 1 .. n + 2
       PROVE  /\ c[i].from + c[i].len <= 128
              /\ \A k \in i + 1 .. n + 1 : c[i].from + c[i].len <= c[k].from
  <2>1. CASE i = 1
    <3>1. \A k \in 2 .. n + 1 : 8 <= c[k].from
        BY <1>1, <1>10
    <3> QED BY <2>1, <3>1, <1>9
  <2>2. CASE i = n + 2
    <3>1. i + 1 .. n + 1 = {}
        BY <2>2, <1>1
    <3> QED BY <2>2, <3>1, <1>9
  <2>3. CASE i \in 2 .. n + 1
    <3>1. c[i].from = 8 * (i - 1) /\ c[i].len \in Int /\ c[i].len <= 8
        BY <2>3, <1>10, <1>13
    <3>2. c[i].from + c[i].len <= 8 * i /\ i <= 9
        BY <3>1, <1>1, <2>3
    <3>3. \A k \in i + 1 .. n + 1 : c[k].from = 8 * (k - 1) /\ 8 * i <= 8 * (k - 1)
        BY <1>1, <1>10, <2>3
    <3> QED BY <3>1, <3>2, <3>3, <1>1, <2>3
  <2> QED BY <1>11, <2>1, <2>2, <2>3
<1>14. \A l : l = n + 2 => l \in 0 .. 10 /\ l - 1 = n + 1
    BY <1>1
<1>15. Len(c) = n + 2 /\ DOMAIN c = 1 .. n + 2
    BY <1>8
<1> HIDE DEF D
<1>16. Len(c) \in 0 .. 10 /\ Len(c) - 1 = n + 1
    BY <1>14, <1>15, Zenon
<1>17. \A i \in DOMAIN c : c[i].link = IF i = Len(c) THEN 0 ELSE i + 1
    BY <1>12, <1>15
<1>18. packet <= 8 =>
          \A i \in DOMAIN c :
             /\ c[i].from + c[i].len <= 128
             /\ \A k \in i + 1 .. Len(c) - 1 : c[i].from + c[i].len <= c[k].from
  <2>1. Len(c) - 1 = n + 1 /\ DOMAIN c = 1 .. n + 2
      BY <1>15, <1>16
  <2> QED BY <1>13, <2>1
<1> QED BY <1>16, <1>17, <1>18 DEF Orderly

\* Every step keeps the chain sound: those that build one (uhci.c:119-132,
\* 187-211) build a sound one.
LEMMA ChainInductive ==
    ASSUME UhciAssumption, ChainSound, [Next]_vars
    PROVE  ChainSound'
<1>0. TdRoom \in Nat /\ TdRoom >= 10 /\ DescSizes \subseteq Nat \X Nat
    BY DEF UhciAssumption
<1>1. CASE td' = td
    BY <1>1 DEF ChainSound
<1>2. CASE SetAddress
  <2>1. td'.packet = 8 /\ td'.chain = << Descriptor(2, 0, 8), Descriptor(0, 0, 0) >>
      BY <1>2 DEF SetAddress, SetAddressChain
  <2> DEFINE c == td'.chain
  <2>2. /\ Len(c) = 2 /\ DOMAIN c = {1, 2}
        /\ c[1].link = 2 /\ c[1].from = 0 /\ c[1].len = 8
        /\ c[2].link = 0 /\ c[2].from = 0 /\ c[2].len = 0
      BY <2>1 DEF Descriptor
  <2> HIDE DEF c
  <2>3. Len(c) <= TdRoom
      BY <2>2, <1>0
  <2>4. \A i \in DOMAIN c : c[i].link = IF i = Len(c) THEN 0 ELSE i + 1
      BY <2>2
  <2>5. \A i \in DOMAIN c : /\ c[i].from + c[i].len <= 128
                            /\ i + 1 .. Len(c) - 1 = {}
      BY <2>2
  <2>6. \A i \in DOMAIN c : /\ c[i].from + c[i].len <= 128
                            /\ \A k \in i + 1 .. Len(c) - 1 : c[i].from + c[i].len <= c[k].from
      BY <2>5
  <2> QED BY <2>3, <2>4, <2>6 DEF ChainSound, c
<1>3. CASE GetDescriptor
  <2>1. PICK d \in DescSizes : td' = [packet |-> d[2], chain |-> DescriptorChain(d[1], d[2])]
      BY <1>3 DEF GetDescriptor
  <2> DEFINE c == DescriptorChain(d[1], d[2])
  <2>2. d[1] \in Nat /\ d[2] \in Nat /\ td'.packet = d[2] /\ td'.chain = c
      BY <2>1, <1>0
  <2> HIDE DEF c
  <2>3. /\ Len(c) \in 0 .. 10
        /\ \A i \in DOMAIN c : c[i].link = IF i = Len(c) THEN 0 ELSE i + 1
        /\ d[2] <= 8 =>
              \A i \in DOMAIN c :
                 /\ c[i].from + c[i].len <= 128
                 /\ \A k \in i + 1 .. Len(c) - 1 : c[i].from + c[i].len <= c[k].from
    <3> DEFINE size == d[1]
               packet == d[2]
    <3>1. size \in Nat /\ packet \in Nat /\ c = DescriptorChain(size, packet)
        BY <2>2 DEF c
    <3> HIDE DEF size, packet
    <3>2. Orderly(c, packet)
        BY ONLY <3>1, DescriptorsSound
    <3> QED BY <3>2 DEF packet, Orderly
  <2>4. Len(c) <= TdRoom
    <3>1. \A l \in 0 .. 10 : l <= TdRoom
        BY <1>0
    <3> QED BY <2>3, <3>1
  <2> QED BY <2>2, <2>3, <2>4 DEF ChainSound
<1>4. td' = td \/ SetAddress \/ GetDescriptor
  <2>1. CASE SetupTimer \/ FindAddress \/ FindRead \/ FindNothing \/ ResetOn \/ CheckReset \/ Configure
      BY <2>1 DEF SetupTimer, FindAddress, FindRead, FindNothing, ResetOn, CheckReset, Configure, driver
  <2>2. CASE PortStep \/ PortDone \/ LookAgain \/ TransferEnd \/ List
      BY <2>2 DEF PortStep, PortDone, LookAgain, TransferEnd, List, driver
  <2>3. CASE ResetOff \/ Allocate \/ DelayOver \/ ControllerStep \/ ControllerReset \/ Plug
      BY <2>3 DEF ResetOff, Allocate, DelayOver, ControllerStep, ControllerReset, Plug, driver
  <2>4. CASE Tick \/ CounterStep \/ CommandReset \/ CommandList \/ UNCHANGED vars
      BY <2>4 DEF Tick, CounterStep, CommandReset, CommandList, driver, vars
  <2> QED BY <2>1, <2>2, <2>3, <2>4 DEF Next, DriverStep
<1> QED BY <1>1, <1>2, <1>3, <1>4

-----------------------------------------------------------------------------
\* The place of the q-th function the search looks at.
Place(q) == << q \div (LastFunction + 1), q % (LastFunction + 1) >>

\* The next function of a device, or the first of the next (pci.c:95-97).
LEMMA PlaceNext ==
    ASSUME NEW q \in Nat
    PROVE  /\ Place(q)[1] \in Nat /\ Place(q)[2] \in 0 .. LastFunction
           /\ Place(q + 1) = IF Place(q)[2] < LastFunction
                             THEN << Place(q)[1], Place(q)[2] + 1 >>
                             ELSE << Place(q)[1] + 1, 0 >>
<1> DEFINE n == LastFunction + 1
           d == q \div n
           m == q % n
<1>1. n \in Nat \ {0} /\ LastFunction = n - 1 /\ LastFunction \in Nat
    BY SizesTyped
<1> HIDE DEF n
<1>2. d \in Nat /\ m \in 0 .. n - 1 /\ q = d * n + m
    BY <1>1
<1>3. CASE m < n - 1
  <2>1. q + 1 = d * n + (m + 1) /\ m + 1 \in 0 .. n - 1
      BY <1>1, <1>2, <1>3
  <2> HIDE DEF d, m
  <2>2. (q + 1) \div n = d /\ (q + 1) % n = m + 1
      BY <1>1, <1>2, <2>1
  <2> QED BY <1>1, <1>2, <1>3, <2>2 DEF Place, n, d, m
<1>4. CASE m = n - 1
  <2>1. q + 1 = (d + 1) * n
      BY <1>1, <1>2, <1>4
  <2> HIDE DEF d, m
  <2>2. (q + 1) \div n = d + 1 /\ (q + 1) % n = 0
      BY <1>1, <1>2, <2>1
  <2> QED BY <1>1, <1>2, <1>4, <2>2 DEF Place, n, d, m
<1> QED BY <1>1, <1>2, <1>3, <1>4

\* The search: it has passed by no function of the class, and the register it
\* reads is the one it asked for, as long as no "lspci" ran meanwhile.
Undisturbed ==
    /\ \A b \in Wanted : ~Before(b, Turn)
    /\ step % 2 = 1 => address = Turn
    /\ step % 6 \in {4, 5} => Function(bus, Turn).uhci

\* While "lspci" is open, the search was disturbed or is over.
FindInv ==
    /\ FindsFirst
    /\ Listing => disturbed \/ pc = "idle"
    /\ pc = "find" /\ ~disturbed => Undisturbed

\* Six steps for a function, two for each of its three registers.
LEMMA StepParts ==
    ASSUME NEW s \in Nat
    PROVE  /\ s \div 6 \in Nat /\ s % 6 \in 0 .. 5 /\ s % 2 \in 0 .. 1
           /\ s % 2 = 0 => /\ (s + 1) \div 6 = s \div 6 /\ (s + 1) % 2 = 1
                           /\ (s + 1) % 6 = (s % 6) + 1 /\ s % 6 \in {0, 2, 4}
           /\ s % 2 = 1 => s % 6 \in {1, 3, 5}
           /\ s % 2 = 1 /\ s % 6 # 5 => /\ (s + 1) \div 6 = s \div 6 /\ (s + 1) % 2 = 0
                                        /\ (s + 1) % 6 = (s % 6) + 1
           /\ ((s \div 6 + 1) * 6) \div 6 = s \div 6 + 1
           /\ ((s \div 6 + 1) * 6) % 6 = 0 /\ ((s \div 6 + 1) * 6) % 2 = 0
OBVIOUS

\* A function that reads as present and of the class is one of those wanted.
LEMMA WantedTyped ==
    ASSUME bus \in Buses
    PROVE  /\ \A b \in Wanted : b = <<b[1], b[2]>> /\ b[1] \in 0 .. Slots - 1 /\ b[2] \in 0 .. LastFunction
           /\ \A a : Function(bus, a).vendor /\ Function(bus, a).uhci <=> a \in Wanted
<1>1. Wanted \subseteq Addresses
    BY BusTyped DEF Wanted
<1>2. ASSUME NEW a PROVE Function(bus, a).vendor /\ Function(bus, a).uhci <=> a \in Wanted
    BY BusTyped DEF Wanted, Function, Absent
<1> QED BY <1>1, <1>2, SizesTyped DEF Addresses

\* A function of the class with none before it is the first.
LEMMA FirstIs ==
    ASSUME bus \in Buses, NEW a \in Wanted, \A b \in Wanted : ~Before(b, a)
    PROVE  a \in First
<1>1. \A b \in Wanted : b = <<b[1], b[2]>> /\ b[1] \in Int /\ b[2] \in Int
    BY WantedTyped, SizesTyped
<1>2. ASSUME NEW b \in Wanted PROVE a = b \/ Before(a, b)
  <2>1. ~Before(b, a) /\ a = <<a[1], a[2]>> /\ b = <<b[1], b[2]>>
        /\ a[1] \in Int /\ a[2] \in Int /\ b[1] \in Int /\ b[2] \in Int
      BY <1>1
  <2>2. CASE a[1] = b[1] /\ a[2] = b[2]
      BY <2>1, <2>2
  <2>3. CASE ~(a[1] = b[1] /\ a[2] = b[2])
      BY <2>1, <2>3 DEF Before
  <2> QED BY <2>2, <2>3
<1> QED BY <1>2 DEF First

\* The search reads the register it asked for (pci.c:79-83, 99-124).
LEMMA FindReadKeeps ==
    ASSUME bus \in Buses, step \in Nat, FindInv, FindRead
    PROVE  FindInv'
<1> DEFINE q == step \div 6
           f == Function(bus, address)
<1>0. /\ pc = "find" /\ ~Listing /\ step % 2 = 1 /\ io = "none"
      /\ bus' = bus /\ address' = address /\ disturbed' = disturbed /\ Listing' = Listing
    BY DEF FindRead, Main, pciVars, FindInv, FindsFirst, Listing
<1>1. Wanted' = Wanted /\ First' = First
    BY <1>0 DEF Wanted, First, Before
<1>2. Turn = Place(q) /\ q \in Nat
    BY StepParts DEF Turn, Place
<1>3. Field = "vendor" => step % 6 = 1
    BY <1>0, StepParts DEF Field, Fields
<1>4. Field = "uhci" => step % 6 = 3
    BY <1>0, StepParts DEF Field, Fields
<1>5. Field = "port" => step % 6 = 5
    BY <1>0, StepParts DEF Field, Fields
<1> DEFINE missing == (Field = "vendor" /\ ~f.vendor) \/ (Field = "uhci" /\ ~f.uhci)
           there == (Field = "vendor" /\ f.vendor) \/ (Field = "uhci" /\ f.uhci)
<1> HIDE DEF f
<1>6. CASE missing /\ step' = NextTurn /\ pc' = pc /\ io' = io
  <2>1. ASSUME ~disturbed PROVE Undisturbed'
    <3>1. step' = (q + 1) * 6 /\ step' \div 6 = q + 1 /\ step' % 6 = 0 /\ step' % 2 = 0
        BY <1>6, StepParts DEF NextTurn
    <3>2. Turn' = Place(q + 1)
        BY <3>1 DEF Turn, Place
    <3>3. address = Place(q) /\ \A b \in Wanted : ~Before(b, Place(q))
        BY <1>0, <1>2, <2>1 DEF FindInv, Undisturbed
    <3>4. Place(q) \notin Wanted
        BY <1>6, <3>3, WantedTyped DEF f
    <3>5. ASSUME NEW b \in Wanted PROVE ~Before(b, Place(q + 1))
      <4>1. b = <<b[1], b[2]>> /\ b[1] \in Nat /\ b[2] \in 0 .. LastFunction /\ LastFunction \in Nat
          BY WantedTyped, SizesTyped
      <4>2. ~Before(b, Place(q)) /\ b # Place(q)
          BY <3>3, <3>4
      <4>3. Place(q) = <<Place(q)[1], Place(q)[2]>>
          BY DEF Place
      <4> HIDE DEF q
      <4>4. /\ Place(q)[1] \in Nat /\ Place(q)[2] \in 0 .. LastFunction
            /\ Place(q + 1) = IF Place(q)[2] < LastFunction
                              THEN << Place(q)[1], Place(q)[2] + 1 >>
                              ELSE << Place(q)[1] + 1, 0 >>
          BY <1>2, PlaceNext
      <4>5. ~(b[1] = Place(q)[1] /\ b[2] = Place(q)[2])
          BY <4>1, <4>2, <4>3
      <4> QED BY <4>1, <4>2, <4>4, <4>5 DEF Before
    <3> QED BY <1>1, <3>1, <3>2, <3>5 DEF Undisturbed, Before
  <2> QED BY <1>0, <1>6, <2>1 DEF FindInv, FindsFirst
<1>7. CASE there /\ step' = step + 1 /\ pc' = pc /\ io' = io
  <2>1. ASSUME ~disturbed PROVE Undisturbed'
    <3>1. step' \div 6 = q /\ step' % 2 = 0 /\ step' % 6 = (step % 6) + 1
        BY <1>0, <1>3, <1>4, <1>7, StepParts
    <3>2. Turn' = Turn
        BY <3>1, <1>2 DEF Turn, Place
    <3>3. address = Turn /\ \A b \in Wanted : ~Before(b, Turn)
        BY <1>0, <2>1 DEF FindInv, Undisturbed
    <3>4. step' % 6 \in {4, 5} => Function(bus, Turn).uhci
        BY <1>3, <1>4, <1>7, <3>1, <3>3 DEF f
    <3> QED BY <1>0, <1>1, <3>1, <3>2, <3>3, <3>4 DEF Undisturbed, Before
  <2> QED BY <1>0, <1>7, <2>1 DEF FindInv, FindsFirst
<1>8. CASE /\ Field = "port" /\ pc' = "reset" /\ step' = 0
           /\ io' = IF address \in First THEN "hc" ELSE "other"
  <2>1. ASSUME ~disturbed PROVE address \in First
    <3>1. address = Turn /\ (\A b \in Wanted : ~Before(b, Turn)) /\ Function(bus, Turn).uhci
        BY <1>0, <1>5, <1>8, <2>1 DEF FindInv, Undisturbed
    <3>2. Turn \in Wanted
        BY <3>1 DEF Wanted, Function, Absent
    <3> QED BY <3>1, <3>2, FirstIs
  <2> QED BY <1>0, <1>1, <1>8, <2>1 DEF FindInv, FindsFirst
<1> QED BY <1>6, <1>7, <1>8, FindReadCases DEF f

\* The search asks for the next register (pci.c:79-82).
LEMMA FindAddressKeeps ==
    ASSUME bus \in Buses, step \in Nat, FindInv, FindAddress
    PROVE  FindInv'
<1>0. /\ pc = "find" /\ pc' = pc /\ step % 2 = 0 /\ step' = step + 1 /\ address' = Turn
      /\ bus' = bus /\ io' = io /\ disturbed' = disturbed /\ ~Listing /\ Listing' = Listing
    BY DEF FindAddress, Main, driver, Listing
<1>1. Wanted' = Wanted
    BY <1>0 DEF Wanted
<1>2. /\ step' \div 6 = step \div 6 /\ step' % 2 = 1 /\ step' % 6 = (step % 6) + 1
      /\ step % 6 \in {0, 2, 4}
    BY <1>0, StepParts
<1>3. Turn' = Turn
    BY <1>2 DEF Turn
<1>4. ASSUME Undisturbed PROVE Undisturbed'
    BY <1>0, <1>1, <1>2, <1>3, <1>4 DEF Undisturbed, Before
<1> QED BY <1>0, <1>4 DEF FindInv, FindsFirst

\* The search is past the last slot (pci.c:127).
LEMMA FindNothingKeeps ==
    ASSUME bus \in Buses, step \in Nat, FindInv, FindNothing
    PROVE  FindInv'
<1>0. /\ pc = "find" /\ pc' = "idle" /\ Turn \notin Addresses /\ io = "none"
      /\ bus' = bus /\ io' = io /\ disturbed' = disturbed /\ ~Listing /\ Listing' = Listing
    BY DEF FindNothing, Main, Goto, driver, pciVars, Listing, FindInv, FindsFirst
<1>1. First' = First
    BY <1>0 DEF First, Wanted, Before
<1>2. ASSUME ~disturbed, NEW b \in Wanted PROVE FALSE
  <2> DEFINE q == step \div 6
  <2>1. Turn = Place(q) /\ q \in Nat
      BY StepParts DEF Turn, Place
  <2> HIDE DEF q
  <2>2. Place(q)[1] \in Nat /\ Place(q)[2] \in 0 .. LastFunction /\ Place(q) = <<Place(q)[1], Place(q)[2]>>
    <3>1. Place(q) = <<Place(q)[1], Place(q)[2]>>
        BY DEF Place
    <3> QED BY <2>1, <3>1, PlaceNext
  <2>3. Place(q)[1] >= Slots
      BY <1>0, <2>1, <2>2, SizesTyped DEF Addresses
  <2>4. b[1] < Place(q)[1]
      BY <2>2, <2>3, WantedTyped, SizesTyped
  <2> QED BY <1>0, <1>2, <2>1, <2>4 DEF FindInv, Undisturbed, Before
<1>3. ~disturbed => First = {}
    BY <1>2 DEF First
<1> QED BY <1>0, <1>1, <1>3 DEF FindInv, FindsFirst

\* Every step keeps what is known of the search: of the others only the
\* command "lspci" touches what it looks at, and that is recorded.
LEMMA FindInductive ==
    ASSUME PciInv, DriverOK, FindInv, [Next]_vars
    PROVE  FindInv'
<1>0. bus \in Buses /\ step \in Nat
    BY DEF PciInv, DriverOK
<1>1. CASE FindRead \/ FindAddress \/ FindNothing
    BY <1>0, <1>1, FindReadKeeps, FindAddressKeeps, FindNothingKeeps
<1>2. CASE SetupTimer
  <2>0. /\ pc = "timer" /\ pc' = "find" /\ step' = 0 /\ ~Listing
        /\ UNCHANGED <<io, disturbed, pciVars>>
      BY <1>2 DEF SetupTimer, Main, Goto, driver
  <2>1. Listing' = Listing /\ Wanted' = Wanted
      BY <2>0 DEF Listing, pciVars, Wanted
  <2>2. Undisturbed'
    <3>1. Turn' = << (0 \div 6) \div (LastFunction + 1), (0 \div 6) % (LastFunction + 1) >>
        BY <2>0 DEF Turn
    <3>2. Turn' = <<0, 0>>
      <4>1. LastFunction + 1 \in Nat \ {0} /\ 0 \div 6 = 0
          BY SizesTyped
      <4>2. 0 \div (LastFunction + 1) = 0 /\ 0 % (LastFunction + 1) = 0
          BY <4>1
      <4> QED BY <3>1, <4>1, <4>2
    <3>3. \A b \in Wanted : ~Before(b, <<0, 0>>)
        BY <1>0, WantedTyped, SizesTyped DEF Before
    <3>4. step' % 2 = 0 /\ step' % 6 = 0
        BY <2>0
    <3> QED BY <2>1, <3>2, <3>3, <3>4 DEF Undisturbed, Before
  <2> QED BY <2>0, <2>1, <2>2 DEF FindInv, FindsFirst
<1>3. CASE CommandList
  <2>0. /\ pc \in {"find", "idle"} /\ pc' = pc /\ io' = io /\ bus' = bus
        /\ disturbed' = (disturbed \/ pc = "find")
      BY <1>3 DEF CommandList, ListStart
  <2>1. First' = First
      BY <2>0 DEF First, Wanted, Before
  <2> QED BY <2>0, <2>1 DEF FindInv, FindsFirst
<1>4. CASE List
  <2>0. UNCHANGED <<pc, step, io, disturbed, bus>> /\ Listing
      BY <1>4 DEF List, driver, ListNext, ListSlot, ListFunction, ListOthers, Listing
  <2>1. First' = First
      BY <2>0 DEF First, Wanted, Before
  <2> QED BY <2>0, <2>1 DEF FindInv, FindsFirst
\* The other steps of uhci_init are behind the search.
<1>5. CASE /\ UNCHANGED <<io, disturbed, bus>> /\ Listing' = Listing /\ ~Listing
           /\ pc \notin {"timer", "find"} /\ pc' \notin {"timer", "find"}
  <2>1. First' = First
      BY <1>5 DEF First, Wanted, Before
  <2> QED BY <1>5, <2>1 DEF FindInv, FindsFirst
<1>6. CASE UNCHANGED <<io, disturbed, pc, step, pciVars>>
  <2>1. /\ First' = First /\ Wanted' = Wanted /\ Turn' = Turn /\ Listing' = Listing
        /\ Function(bus, Turn)' = Function(bus, Turn)
      BY <1>6 DEF First, Wanted, Before, Turn, Listing, Function, pciVars
  <2>2. Undisturbed' = Undisturbed
      BY <1>6, <2>1 DEF Undisturbed, Before, pciVars
  <2> QED BY <1>6, <2>1, <2>2 DEF FindInv, FindsFirst
<1>7. \/ FindRead \/ FindAddress \/ FindNothing \/ SetupTimer \/ CommandList \/ List
      \/ UNCHANGED <<io, disturbed, pc, step, pciVars>>
      \/ /\ UNCHANGED <<io, disturbed, bus>> /\ Listing' = Listing /\ ~Listing
         /\ pc \notin {"timer", "find"} /\ pc' \notin {"timer", "find"}
  <2>1. CASE ResetOn \/ CheckReset \/ Configure \/ PortStep \/ PortDone \/ SetAddress \/ GetDescriptor
      BY <2>1 DEF ResetOn, CheckReset, Configure, PortStep, PortDone, SetAddress, GetDescriptor,
                  Main, Goto, BeginWait, driver, pciVars, Listing
  <2>2. CASE TransferEnd \/ ResetOff \/ Allocate
      BY <2>2 DEF TransferEnd, Looking, ResetOff, Allocate, Waited, Main, Goto, pciVars, Listing
  <2>3. CASE LookAgain \/ DelayOver \/ ControllerStep \/ ControllerReset \/ Plug
      BY <2>3 DEF LookAgain, DelayOver, ControllerStep, ControllerReset, Plug, driver
  <2>4. CASE Tick \/ CounterStep \/ CommandReset \/ UNCHANGED vars
      BY <2>4 DEF Tick, CounterStep, CommandReset, driver, vars
  <2> QED BY <2>1, <2>2, <2>3, <2>4 DEF Next, DriverStep
<1> QED BY <1>1, <1>2, <1>3, <1>4, <1>5, <1>6, <1>7

-----------------------------------------------------------------------------
\* The inductive invariant.
Inv == HcInv /\ DriverOK /\ PciInv /\ FindInv /\ ChainSound

\* It holds initially.
LEMMA InvInitial == Init => Inv
<1> SUFFICES ASSUME Init PROVE Inv
    OBVIOUS
<1>0. /\ pc = "timer" /\ step = 0 /\ io = "none" /\ count = 0 /\ frame = {} /\ val = {} /\ tick = 0
      /\ reset = FALSE /\ disturbed = FALSE /\ delaying = FALSE /\ commands = 0 /\ plugs = 0
      /\ after \in {{}, {Halted}} /\ PciInit /\ td = [packet |-> 0, chain |-> <<>>]
    BY DEF Init, TimerInit
<1>1. HcInv
  <2>1. PICK ports \in {{}, {0, 1}} : hc = PowerOn([r \in Registers |-> {7} \union ports])
      BY DEF Init
  <2>2. [r \in Registers |-> {7} \union ports] \in [Registers -> SUBSET Bits]
    <3>1. {7} \union ports \in SUBSET Bits
        BY <2>1 DEF Bits
    <3> QED BY <3>1
  <2>3. hc \in [Registers -> SUBSET Bits] /\ hc[USBCMD] = {} /\ hc[USBINTR] = {}
      BY <1>0, <2>1, <2>2, PowerOnTyped
  <2> QED BY <1>0, <2>3 DEF HcInv, HcOK
<1>2. DriverOK
  <2>1. 0 \in 0 .. Period - 1 /\ 0 \in 0 .. Tries /\ 0 \in 0 .. MaxCommands /\ 0 \in 0 .. MaxPlugs
      BY UhciAssumption DEF UhciAssumption
  <2> QED BY <1>0, <2>1 DEF DriverOK
<1>3. PciInv
    BY <1>0, PciInitial
<1>4. FindInv
    BY <1>0, SizesTyped DEF FindInv, FindsFirst, Listing, PciInit
<1>5. ChainSound
  <2>1. td.chain = <<>> /\ Len(td.chain) = 0 /\ DOMAIN td.chain = {}
      BY <1>0
  <2>2. 0 <= TdRoom
      BY UhciAssumption DEF UhciAssumption
  <2> QED BY <2>1, <2>2 DEF ChainSound
<1> QED BY <1>1, <1>2, <1>3, <1>4, <1>5 DEF Inv

\* Every step keeps it, and the schedule.
LEMMA InvInductive == Inv /\ [Next]_vars => Inv' /\ Kept
<1> SUFFICES ASSUME Inv, [Next]_vars PROVE Inv' /\ Kept
    OBVIOUS
<1>1. HcInv /\ HcOK /\ DriverOK /\ PciInv /\ FindInv /\ ChainSound
    BY DEF Inv, HcInv
<1>2. HcInv' /\ Kept
    BY <1>1, UhciAssumption, ControllerInductive
<1>3. DriverOK'
    BY <1>1, UhciAssumption, DriverInductive
<1>4. PciInv' /\ FindInv'
    BY <1>1, WalkInductive, FindInductive
<1>5. ChainSound'
    BY <1>1, UhciAssumption, ChainInductive
<1> QED BY <1>2, <1>3, <1>4, <1>5 DEF Inv

\* It holds always.
LEMMA Invariant == Spec => []Inv /\ [][Kept]_vars
<1>1. Init => Inv
    BY InvInitial
<1>2. Inv /\ [Next]_vars => Inv' /\ Kept
    BY InvInductive
<1> QED BY <1>1, <1>2, PTL DEF Spec

\* The state of uhci_init, of the controller and of "lspci" has its type
\* always: no register holds more than its bits, no count of a wait or of a
\* transfer (uhci.c:36-51, 146, 226) passes its bound, the calls of
\* get_pci_device_config stay on the stack.
THEOREM TypeCorrect == Spec => []TypeOK
<1>1. Inv => TypeOK
  <2> SUFFICES ASSUME Inv PROVE TypeOK
      OBVIOUS
  <2>1. hc \in [Registers -> SUBSET Bits] /\ reset \in BOOLEAN
      BY DEF Inv, HcInv, HcOK
  <2>2. scan \in 0 .. Slots /\ Len(calls) <= StackRoom /\ complete \in BOOLEAN /\ overflow \in BOOLEAN
      BY DEF Inv, PciInv
  <2> QED BY <2>1, <2>2 DEF Inv, DriverOK, TypeOK
<1> QED BY <1>1, Invariant, PTL

\* A running controller has its interrupts off (uhci.c:294): no write through
\* io_write8 or io_write16, all of 32 bits (io.c:14-24), turns them on.
THEOREM Quiet == Spec => []QuietController
<1>1. Inv => QuietController
    BY DEF Inv, HcInv, QuietController
<1> QED BY <1>1, Invariant, PTL

\* Nobody writes the schedule of a running controller (uhci.c:291-293), with
\* a write of its own or through the register before it.
THEOREM ScheduleStands == Spec => ScheduleKept
<1>1. Kept => (Run \in hc[USBCMD] \intersect hc'[USBCMD] =>
                  \A r \in {FRNUM, FRBASEADD, FRBASEADD + 2, SOFMOD} : hc'[r] = hc[r])
    BY DEF Kept
<1> QED BY <1>1, Invariant, PTL DEF ScheduleKept

\* uhci_init goes on with the first controller on the bus, and only if there
\* is one (pci.c:93-128), unless "lspci" ran during its search.
THEOREM FirstFound == Spec => []FindsFirst
<1>1. Inv => FindsFirst
    BY DEF Inv, FindInv
<1> QED BY <1>1, Invariant, PTL

\* The descriptors of a transfer fit their array, are linked in order, and
\* their bytes have places of their own (uhci.c:124-132, 187-211), whatever
\* was read as the device's descriptor.
THEOREM ChainsSound == Spec => []ChainSound
<1>1. Inv => ChainSound
    BY DEF Inv
<1> QED BY <1>1, Invariant, PTL

\* "lspci" prints each function once, or calls itself until the stack is full
\* because of a function that says of itself that there are several
\* (pci.c:149-190), on whatever bus, and whatever uhci_init was doing.
THEOREM ListingsSound == Spec => []ListingSound
<1>1. Inv => ListingSound
    BY PciSound DEF Inv
<1> QED BY <1>1, Invariant, PTL
=============================================================================
