---------------------------- MODULE PagingProofs ----------------------------
(***************************************************************************)
(* Theorems about Paging: which directory the processor has loaded when a  *)
(* call of the kernel returns.                                             *)
(***************************************************************************)
EXTENDS Paging, NatLemmas, TLAPS

\* A machine, and one with the kernel's directory loaded.
IsMachine(m) == "cr3" \in DOMAIN m /\ "fault" \in DOMAIN m
Loaded(m) == IsMachine(m) /\ m.cr3 = KernelDirectory

-----------------------------------------------------------------------------
(* Each access and each window *)

\* An access that changes memory or the flags of the machine leaves cr3 alone.
LEMMA AccessKeeps ==
    ASSUME NEW m, Loaded(m), NEW page, NEW index, NEW contents, NEW slot, NEW n
    PROVE  /\ Loaded(Fault(m)) /\ Loaded(Taken(m, n))
           /\ Loaded(Store(m, page, index, contents)) /\ Loaded(Fill(m, page, contents))
           /\ Loaded(StoreThrough(m, slot, index, contents))
           /\ Loaded(FillThrough(m, slot, contents))
<1>1. Loaded(Fault(m))
    BY DEF Loaded, IsMachine, Fault
<1>2. Loaded(Taken(m, n))
    BY DEF Loaded, IsMachine, Taken
<1>3. ASSUME NEW f, NEW i, NEW v
      PROVE  Loaded([m EXCEPT !.ram[f][i] = v]) /\ Loaded([m EXCEPT !.ram[f] = v])
    BY DEF Loaded, IsMachine
<1>4. Loaded(Store(m, page, index, contents))
    BY <1>1, <1>3 DEF Store
<1>5. Loaded(Fill(m, page, contents))
    BY <1>1, <1>3 DEF Fill
<1>6. Loaded(StoreThrough(m, slot, index, contents))
    BY <1>1, <1>3 DEF StoreThrough
<1>7. Loaded(FillThrough(m, slot, contents))
    BY <1>1, <1>3 DEF FillThrough
<1> QED BY <1>1, <1>2, <1>4, <1>5, <1>6, <1>7

\* Opening and closing a window loads the kernel's directory.
LEMMA WindowLoads ==
    ASSUME NEW m, Loaded(m), NEW frame, NEW slot, NEW from, NEW index
    PROVE  /\ Loaded(Open(m, frame, slot)) /\ Loaded(Close(m, slot))
           /\ Loaded(OpenThrough(m, from, index, slot))
<1>1. ASSUME NEW f PROVE Loaded(Open(m, f, slot))
    BY DEF Loaded, IsMachine, Open, map_to_arbitrary_kernel_virt_page_in_current_addr
<1>2. Loaded(Close(m, slot))
    BY DEF Loaded, IsMachine, Close, unmap_arbitrary_kernel_virt_page_in_current_addr
<1>3. Loaded(OpenThrough(m, from, index, slot))
    BY <1>1, AccessKeeps DEF OpenThrough
<1> QED BY <1>1, <1>2, <1>3

\* Opening a window.
LEMMA OpenLoads ==
    ASSUME NEW m, Loaded(m), NEW frame, NEW slot
    PROVE  Loaded(Open(m, frame, slot))
BY WindowLoads

\* Closing a window.
LEMMA CloseLoads ==
    ASSUME NEW m, Loaded(m), NEW slot
    PROVE  Loaded(Close(m, slot))
BY WindowLoads

\* Opening a window on what an entry names.
LEMMA OpenThroughLoads ==
    ASSUME NEW m, Loaded(m), NEW from, NEW index, NEW slot
    PROVE  Loaded(OpenThrough(m, from, index, slot))
BY WindowLoads

\* Taking frames.
LEMMA TakenLoads ==
    ASSUME NEW m, Loaded(m), NEW n
    PROVE  Loaded(Taken(m, n))
BY AccessKeeps

\* Writing one word of a page.
LEMMA StoreLoads ==
    ASSUME NEW m, Loaded(m), NEW page, NEW index, NEW contents
    PROVE  Loaded(Store(m, page, index, contents))
BY AccessKeeps

\* Writing one word through a window.
LEMMA StoreThroughLoads ==
    ASSUME NEW m, Loaded(m), NEW slot, NEW index, NEW contents
    PROVE  Loaded(StoreThrough(m, slot, index, contents))
BY AccessKeeps

\* Writing a page through a window.
LEMMA FillThroughLoads ==
    ASSUME NEW m, Loaded(m), NEW slot, NEW contents
    PROVE  Loaded(FillThrough(m, slot, contents))
BY AccessKeeps

\* A frame is cleared through a window of its own.
LEMMA ClearLoads ==
    ASSUME NEW m, Loaded(m), NEW frame
    PROVE  Loaded(clear_physical_page(m, frame))
<1> DEFINE w == Open(m, frame, 510)
           f == FillThrough(w, 510, Cleared)
<1>1. Loaded(w)
    BY OpenLoads
<1> HIDE DEF w
<1>2. Loaded(f)
    BY <1>1, FillThroughLoads
<1> HIDE DEF f
<1>3. Loaded(Close(f, 510))
    BY <1>2, CloseLoads
<1> QED BY <1>3 DEF clear_physical_page, f, w

\* Finding a table, or adding one.
LEMMA TableLoads ==
    ASSUME NEW m, Loaded(m), NEW dir, NEW page, NEW rw
    PROVE  Loaded(WithTable(m, dir, page, rw))
<1> DEFINE table == Allocated(m, 1)
           c == clear_physical_page(Taken(m, 1), table)
<1>1. Loaded(Taken(m, 1))
    BY TakenLoads
<1>2. Loaded(c)
    BY <1>1, ClearLoads
<1> HIDE DEF c
<1>3. Loaded(Store(c, dir, page \div ENTRIES, Entry(table, rw)))
    BY <1>2, StoreLoads
<1> QED BY <1>3, AccessKeeps DEF WithTable, c

\* Mapping and unmapping a page.
LEMMA MapLoads ==
    ASSUME NEW m, Loaded(m), NEW dir, NEW page, NEW frame, NEW rw
    PROVE  Loaded(map_page(m, dir, page, frame, rw)) /\ Loaded(unmap_page(m, dir, page))
<1>1. Loaded(map_page(m, dir, page, frame, rw))
    <2> DEFINE t == WithTable(m, dir, page, rw)
               w == Open(t, Load(t, dir, page \div ENTRIES).frame, 512)
               s == StoreThrough(w, 512, page % ENTRIES, Entry(frame, rw))
    <2>1. Loaded(t)
        BY TableLoads
    <2> HIDE DEF t
    <2>2. Loaded(w)
        BY <2>1, OpenLoads
    <2> HIDE DEF w
    <2>3. Loaded(s)
        BY <2>2, StoreThroughLoads
    <2> HIDE DEF s
    <2>4. Loaded(Close(s, 512))
        BY <2>3, CloseLoads
    <2> QED BY <2>4 DEF map_page, s, w, t
<1>2. Loaded(unmap_page(m, dir, page))
    <2> DEFINE w == Open(m, Load(m, dir, page \div ENTRIES).frame, 512)
               s == StoreThrough(w, 512, page % ENTRIES, Absent)
    <2>1. Loaded(w)
        BY OpenLoads
    <2> HIDE DEF w
    <2>2. Loaded(s)
        BY <2>1, StoreThroughLoads
    <2> HIDE DEF s
    <2>3. Loaded(Close(s, 512))
        BY <2>2, CloseLoads
    <2> QED BY <2>3 DEF unmap_page, s, w
<1> QED BY <1>1, <1>2

\* So does the identity mapping.
LEMMA IdentityLoads ==
    ASSUME NEW m, Loaded(m), NEW dir, NEW frame, NEW rw
    PROVE  Loaded(identity_map_page(m, dir, frame, rw))
<1> DEFINE table == Allocated(m, 1)
           taken == Taken(m, 1)
           stored == Store(taken, dir, frame \div ENTRIES, Entry(table, rw))
           t == IF Load(m, dir, frame \div ENTRIES).present THEN m ELSE stored
           w == Open(t, Load(t, dir, frame \div ENTRIES).frame, 514)
           s == StoreThrough(w, 514, frame % ENTRIES, Entry(frame, rw))
<1>1. Loaded(taken)
    BY TakenLoads
<1> HIDE DEF taken
<1>2. Loaded(stored)
    BY <1>1, StoreLoads
<1> HIDE DEF stored
<1>3. Loaded(t)
    BY <1>2
<1> HIDE DEF t
<1>4. Loaded(w)
    BY <1>3, OpenLoads
<1> HIDE DEF w
<1>5. Loaded(s)
    BY <1>4, StoreThroughLoads
<1> HIDE DEF s
<1>6. Loaded(Close(s, 514))
    BY <1>5, CloseLoads
<1> QED BY <1>6 DEF identity_map_page, s, w, t, stored, taken

\* Linking the kernel's half into a program's directory.
LEMMA LinkLoads ==
    ASSUME NEW m, Loaded(m), NEW cr3
    PROVE  Loaded(map_kernel_inside_user(m, cr3))
<1> DEFINE w == Open(m, cr3, 511)
           linked == [d \in 0..ENTRIES - 1 |->
                        IF d >= KERNEL_DIR THEN m.ram[KernelDirectory][d]
                        ELSE LoadThrough(w, 511, d)]
           s == FillThrough(w, 511, linked)
<1>1. Loaded(w)
    BY OpenLoads
<1> HIDE DEF w, linked
<1>2. Loaded(s)
    BY <1>1, FillThroughLoads
<1> HIDE DEF s
<1>3. Loaded(Close(s, 511))
    BY <1>2, CloseLoads
<1> QED BY <1>3 DEF map_kernel_inside_user, s, w, linked

\* Mapping a page of a program, with two windows at once.
LEMMA UserMapLoads ==
    ASSUME NEW m, Loaded(m), NEW cr3, NEW page, NEW frame
    PROVE  Loaded(user_map(m, cr3, page, frame))
<1> DEFINE w == Open(m, cr3, 509)
           table == Allocated(w, 1)
           taken == Taken(w, 1)
           link == Entry(table, TRUE)
           put == StoreThrough(taken, 509, page \div ENTRIES, link)
           c == clear_physical_page(put, table)
           t == IF LoadThrough(w, 509, page \div ENTRIES).present THEN w ELSE c
           v == OpenThrough(t, 509, page \div ENTRIES, 508)
           entry == Entry(frame, TRUE)
           stored == StoreThrough(v, 508, page % ENTRIES, entry)
           closed == Close(stored, 508)
<1> HIDE DEF w, table, taken, link, put, c, t, v, entry, stored, closed
<1>1. Loaded(w)
    BY OpenLoads DEF w
<1>2. Loaded(taken)
    BY <1>1, TakenLoads DEF taken
<1>3. Loaded(put)
    BY <1>2, StoreThroughLoads DEF put
<1>4. Loaded(c)
    BY <1>3, ClearLoads DEF c
<1>5. Loaded(t)
    BY <1>1, <1>4 DEF t
<1>6. Loaded(v)
    BY <1>5, OpenThroughLoads DEF v
<1>7. Loaded(stored)
    BY <1>6, StoreThroughLoads DEF stored
<1>8. Loaded(closed)
    BY <1>7, CloseLoads DEF closed
<1>9. Loaded(Close(closed, 509))
    BY <1>8, CloseLoads
<1> QED BY <1>9 DEF user_map, closed, stored, entry, v, t, c, put, link, taken, table, w

-----------------------------------------------------------------------------
(* Several pages *)

\* The machines in which 0, 1, ... k of the pages are mapped.
Mapped(m, dir, page, frame, rw, k, f) ==
  f = [i \in 0 .. k |-> IF i = 0 THEN m ELSE map_page(f[i - 1], dir, page + i - 1, frame + i - 1, rw)]

\* Mapping several pages.
LEMMA MapPagesLoads ==
    ASSUME NEW m, Loaded(m), NEW dir, NEW page, NEW frame, NEW rw, NEW n \in Nat
    PROVE  Loaded(map_pages(m, dir, page, frame, n, rw))
<1> DEFINE Good == {k \in Nat : \E f : Mapped(m, dir, page, frame, rw, k, f)}
<1>1. 0 \in Good
    <2> DEFINE f == [i \in 0 .. 0 |-> IF i = 0 THEN m ELSE m]
    <2>1. Mapped(m, dir, page, frame, rw, 0, f)
        BY DEF Mapped
    <2> HIDE DEF f
    <2> QED BY <2>1
<1>2. ASSUME NEW k \in Nat, k \in Good PROVE k + 1 \in Good
    <2>1. PICK f : Mapped(m, dir, page, frame, rw, k, f)
        BY <1>2
    <2> DEFINE j == k + 1
               last == map_page(f[k], dir, page + k, frame + k, rw)
               h == [i \in 0 .. j |-> IF i <= k THEN f[i] ELSE last]
    <2>3. f = [i \in 0 .. k |-> IF i = 0 THEN m ELSE map_page(f[i - 1], dir, page + i - 1, frame + i - 1, rw)]
        BY <2>1 DEF Mapped
    <2>4. j \in 0 .. j /\ ~(j <= k) /\ \A i \in 0 .. j : (i <= k <=> i # j) /\ (i # j => i \in 0 .. k)
          /\ (i # 0 => i - 1 \in 0 .. k) /\ (i = j => i # 0 /\ i - 1 = k)
        BY <1>2
    <2> HIDE DEF j, last
    <2>5. h[j] = last /\ \A i \in 0 .. k : i \in 0 .. j => h[i] = f[i]
        BY <2>4
    <2>6. ASSUME NEW i \in 0 .. j
          PROVE  h[i] = IF i = 0 THEN m ELSE map_page(h[i - 1], dir, page + i - 1, frame + i - 1, rw)
        <3>1. CASE i = j
            <4>1. i # 0 /\ i - 1 = k /\ h[i - 1] = f[k]
                BY <2>4, <2>5, <3>1
            <4> QED BY <2>5, <3>1, <4>1 DEF last
        <3>2. CASE i # j
            <4>1. i \in 0 .. k /\ h[i] = f[i]
                BY <2>4, <2>5, <3>2
            <4>2. f[i] = IF i = 0 THEN m ELSE map_page(f[i - 1], dir, page + i - 1, frame + i - 1, rw)
                BY <2>3, <4>1
            <4>3. i # 0 => h[i - 1] = f[i - 1]
                BY <2>4, <2>5
            <4> QED BY <4>1, <4>2, <4>3
        <3> QED BY <3>1, <3>2
    <2>7. h = [i \in 0 .. j |-> IF i = 0 THEN m ELSE map_page(h[i - 1], dir, page + i - 1, frame + i - 1, rw)]
        BY <2>6
    <2> HIDE DEF h
    <2>8. Mapped(m, dir, page, frame, rw, j, h)
        BY <2>7 DEF Mapped
    <2> QED BY <2>8 DEF j
<1>3. n \in Good
    <2> HIDE DEF Good
    <2> QED BY <1>1, <1>2, SetInduction
<1> DEFINE g == CHOOSE f : Mapped(m, dir, page, frame, rw, n, f)
<1>5. Mapped(m, dir, page, frame, rw, n, g)
    BY <1>3
<1>6. map_pages(m, dir, page, frame, n, rw) = g[n]
    BY DEF map_pages, Mapped
<1> HIDE DEF g, Good
<1>7. g[0] = m
    BY <1>5 DEF Mapped
<1>8. ASSUME NEW i \in 1 .. n PROVE g[i] = map_page(g[i - 1], dir, page + i - 1, frame + i - 1, rw)
    BY <1>5 DEF Mapped
<1> DEFINE T == {k \in Nat : k <= n => Loaded(g[k])}
<1>9. 0 \in T
    BY <1>7
<1>10. ASSUME NEW k \in Nat, k \in T PROVE k + 1 \in T
    <2> SUFFICES ASSUME NEW j, j = k + 1, j <= n PROVE Loaded(g[j])
        OBVIOUS
    <2>1. j \in 1 .. n /\ j - 1 = k /\ k <= n
        OBVIOUS
    <2>2. Loaded(g[k])
        BY <1>10, <2>1
    <2>3. g[j] = map_page(g[k], dir, page + (j - 1), frame + (j - 1), rw)
        BY <1>8, <2>1
    <2>4. Loaded(map_page(g[k], dir, page + (j - 1), frame + (j - 1), rw))
        BY <2>2, MapLoads
    <2> QED BY <2>3, <2>4
<1>11. n \in T
    <2> HIDE DEF T
    <2> QED BY <1>9, <1>10, SetInduction
<1> QED BY <1>6, <1>11

\* The machines in which 0, 1, ... k of the pages are unmapped.
Unmapped(m, dir, page, k, f) ==
  f = [i \in 0 .. k |-> IF i = 0 THEN m ELSE unmap_page(f[i - 1], dir, page + i - 1)]

\* Unmapping several pages.
LEMMA UnmapPagesLoads ==
    ASSUME NEW m, Loaded(m), NEW dir, NEW page, NEW n \in Nat
    PROVE  Loaded(unmap_pages(m, dir, page, n))
<1> DEFINE Good == {k \in Nat : \E f : Unmapped(m, dir, page, k, f)}
<1>1. 0 \in Good
    <2> DEFINE f == [i \in 0 .. 0 |-> IF i = 0 THEN m ELSE m]
    <2>1. Unmapped(m, dir, page, 0, f)
        BY DEF Unmapped
    <2> HIDE DEF f
    <2> QED BY <2>1
<1>2. ASSUME NEW k \in Nat, k \in Good PROVE k + 1 \in Good
    <2>1. PICK f : Unmapped(m, dir, page, k, f)
        BY <1>2
    <2> DEFINE j == k + 1
               last == unmap_page(f[k], dir, page + k)
               h == [i \in 0 .. j |-> IF i <= k THEN f[i] ELSE last]
    <2>3. f = [i \in 0 .. k |-> IF i = 0 THEN m ELSE unmap_page(f[i - 1], dir, page + i - 1)]
        BY <2>1 DEF Unmapped
    <2>4. j \in 0 .. j /\ ~(j <= k) /\ \A i \in 0 .. j : (i <= k <=> i # j) /\ (i # j => i \in 0 .. k)
          /\ (i # 0 => i - 1 \in 0 .. k) /\ (i = j => i # 0 /\ i - 1 = k)
        BY <1>2
    <2> HIDE DEF j, last
    <2>5. h[j] = last /\ \A i \in 0 .. k : i \in 0 .. j => h[i] = f[i]
        BY <2>4
    <2>6. ASSUME NEW i \in 0 .. j
          PROVE  h[i] = IF i = 0 THEN m ELSE unmap_page(h[i - 1], dir, page + i - 1)
        <3>1. CASE i = j
            <4>1. i # 0 /\ i - 1 = k /\ h[i - 1] = f[k]
                BY <2>4, <2>5, <3>1
            <4> QED BY <2>5, <3>1, <4>1 DEF last
        <3>2. CASE i # j
            <4>1. i \in 0 .. k /\ h[i] = f[i]
                BY <2>4, <2>5, <3>2
            <4>2. f[i] = IF i = 0 THEN m ELSE unmap_page(f[i - 1], dir, page + i - 1)
                BY <2>3, <4>1
            <4>3. i # 0 => h[i - 1] = f[i - 1]
                BY <2>4, <2>5
            <4> QED BY <4>1, <4>2, <4>3
        <3> QED BY <3>1, <3>2
    <2>7. h = [i \in 0 .. j |-> IF i = 0 THEN m ELSE unmap_page(h[i - 1], dir, page + i - 1)]
        BY <2>6
    <2> HIDE DEF h
    <2>8. Unmapped(m, dir, page, j, h)
        BY <2>7 DEF Unmapped
    <2> QED BY <2>8 DEF j
<1>3. n \in Good
    <2> HIDE DEF Good
    <2> QED BY <1>1, <1>2, SetInduction
<1> DEFINE g == CHOOSE f : Unmapped(m, dir, page, n, f)
<1>5. Unmapped(m, dir, page, n, g)
    BY <1>3
<1>6. unmap_pages(m, dir, page, n) = g[n]
    BY DEF unmap_pages, Unmapped
<1> HIDE DEF g, Good
<1>7. g[0] = m
    BY <1>5 DEF Unmapped
<1>8. ASSUME NEW i \in 1 .. n PROVE g[i] = unmap_page(g[i - 1], dir, page + i - 1)
    BY <1>5 DEF Unmapped
<1> DEFINE T == {k \in Nat : k <= n => Loaded(g[k])}
<1>9. 0 \in T
    BY <1>7
<1>10. ASSUME NEW k \in Nat, k \in T PROVE k + 1 \in T
    <2> SUFFICES ASSUME NEW j, j = k + 1, j <= n PROVE Loaded(g[j])
        OBVIOUS
    <2>1. j \in 1 .. n /\ j - 1 = k /\ k <= n
        OBVIOUS
    <2>2. Loaded(g[k])
        BY <1>10, <2>1
    <2>3. g[j] = unmap_page(g[k], dir, page + (j - 1))
        BY <1>8, <2>1
    <2>4. Loaded(unmap_page(g[k], dir, page + (j - 1)))
        BY <2>2, MapLoads
    <2> QED BY <2>3, <2>4
<1>11. n \in T
    <2> HIDE DEF T
    <2> QED BY <1>9, <1>10, SetInduction
<1> QED BY <1>6, <1>11

\* The machines in which 0, 1, ... k of the pages are copied.
FilledUpTo(m, page, offset, k, f) ==
  f = [i \in 0 .. k |-> IF i = 0 THEN m ELSE Fill(f[i - 1], page + i - 1, Bytes(offset + i - 1))]

\* Copying several pages of a file.
LEMMA CopyLoads ==
    ASSUME NEW m, Loaded(m), NEW page, NEW offset, NEW n \in Nat
    PROVE  Loaded(Copied(m, page, offset, n))
<1> DEFINE Good == {k \in Nat : \E f : FilledUpTo(m, page, offset, k, f)}
<1>1. 0 \in Good
    <2> DEFINE f == [i \in 0 .. 0 |-> IF i = 0 THEN m ELSE m]
    <2>1. FilledUpTo(m, page, offset, 0, f)
        BY DEF FilledUpTo
    <2> HIDE DEF f
    <2> QED BY <2>1
<1>2. ASSUME NEW k \in Nat, k \in Good PROVE k + 1 \in Good
    <2>1. PICK f : FilledUpTo(m, page, offset, k, f)
        BY <1>2
    <2> DEFINE j == k + 1
               last == Fill(f[k], page + k, Bytes(offset + k))
               h == [i \in 0 .. j |-> IF i <= k THEN f[i] ELSE last]
    <2>3. f = [i \in 0 .. k |-> IF i = 0 THEN m ELSE Fill(f[i - 1], page + i - 1, Bytes(offset + i - 1))]
        BY <2>1 DEF FilledUpTo
    <2>4. j \in 0 .. j /\ ~(j <= k) /\ \A i \in 0 .. j : (i <= k <=> i # j) /\ (i # j => i \in 0 .. k)
          /\ (i # 0 => i - 1 \in 0 .. k) /\ (i = j => i # 0 /\ i - 1 = k)
        BY <1>2
    <2> HIDE DEF j, last
    <2>5. h[j] = last /\ \A i \in 0 .. k : i \in 0 .. j => h[i] = f[i]
        BY <2>4
    <2>6. ASSUME NEW i \in 0 .. j
          PROVE  h[i] = IF i = 0 THEN m ELSE Fill(h[i - 1], page + i - 1, Bytes(offset + i - 1))
        <3>1. CASE i = j
            <4>1. i # 0 /\ i - 1 = k /\ h[i - 1] = f[k]
                BY <2>4, <2>5, <3>1
            <4> QED BY <2>5, <3>1, <4>1 DEF last
        <3>2. CASE i # j
            <4>1. i \in 0 .. k /\ h[i] = f[i]
                BY <2>4, <2>5, <3>2
            <4>2. f[i] = IF i = 0 THEN m ELSE Fill(f[i - 1], page + i - 1, Bytes(offset + i - 1))
                BY <2>3, <4>1
            <4>3. i # 0 => h[i - 1] = f[i - 1]
                BY <2>4, <2>5
            <4> QED BY <4>1, <4>2, <4>3
        <3> QED BY <3>1, <3>2
    <2>7. h = [i \in 0 .. j |-> IF i = 0 THEN m ELSE Fill(h[i - 1], page + i - 1, Bytes(offset + i - 1))]
        BY <2>6
    <2> HIDE DEF h
    <2>8. FilledUpTo(m, page, offset, j, h)
        BY <2>7 DEF FilledUpTo
    <2> QED BY <2>8 DEF j
<1>3. n \in Good
    <2> HIDE DEF Good
    <2> QED BY <1>1, <1>2, SetInduction
<1> DEFINE g == CHOOSE f : FilledUpTo(m, page, offset, n, f)
<1>5. FilledUpTo(m, page, offset, n, g)
    BY <1>3
<1>6. Copied(m, page, offset, n) = g[n]
    BY DEF Copied, FilledUpTo
<1> HIDE DEF g, Good
<1>7. g[0] = m
    BY <1>5 DEF FilledUpTo
<1>8. ASSUME NEW i \in 1 .. n PROVE g[i] = Fill(g[i - 1], page + i - 1, Bytes(offset + i - 1))
    BY <1>5 DEF FilledUpTo
<1> DEFINE T == {k \in Nat : k <= n => Loaded(g[k])}
<1>9. 0 \in T
    BY <1>7
<1>10. ASSUME NEW k \in Nat, k \in T PROVE k + 1 \in T
    <2> SUFFICES ASSUME NEW j, j = k + 1, j <= n PROVE Loaded(g[j])
        OBVIOUS
    <2>1. j \in 1 .. n /\ j - 1 = k /\ k <= n
        OBVIOUS
    <2>2. Loaded(g[k])
        BY <1>10, <2>1
    <2>3. g[j] = Fill(g[k], page + (j - 1), Bytes(offset + (j - 1)))
        BY <1>8, <2>1
    <2>4. Loaded(Fill(g[k], page + (j - 1), Bytes(offset + (j - 1))))
        BY <2>2, AccessKeeps
    <2> QED BY <2>3, <2>4
<1>11. n \in T
    <2> HIDE DEF T
    <2> QED BY <1>9, <1>10, SetInduction
<1> QED BY <1>6, <1>11

-----------------------------------------------------------------------------
(* Regions and programs *)

\* Mapping and unmapping a region of the ACPI shim.
LEMMA RegionLoads ==
    ASSUME NEW m, Loaded(m), NEW page, NEW frame, NEW n \in Nat
    PROVE  Loaded(RegionMapped(m, frame, n)) /\ Loaded(RegionUnmapped(m, page, n))
<1>1. Loaded(RegionMapped(m, frame, n))
    <2> DEFINE t == [m EXCEPT !.osi = Osi!MarkedByAllocation(@, n)]
    <2>1. Loaded(t)
        BY DEF Loaded, IsMachine
    <2> HIDE DEF t
    <2>2. Loaded(map_pages(t, KernelDirectoryPage, RegionPage(m, n), frame, n, TRUE))
        BY <2>1, MapPagesLoads
    <2> QED BY <2>2 DEF RegionMapped, t
<1>2. Loaded(RegionUnmapped(m, page, n))
    <2> DEFINE u == unmap_pages(m, KernelDirectoryPage, page, n)
    <2>1. Loaded(u)
        BY UnmapPagesLoads
    <2> HIDE DEF u
    <2>2. Loaded([u EXCEPT !.osi = Osi!MarkedAfterFree(@, page - OSI_START, n)])
        BY <2>1 DEF Loaded, IsMachine
    <2> QED BY <2>2 DEF RegionUnmapped, u
<1> QED BY <1>1, <1>2

Headers == [load : BOOLEAN, vaddr : Nat, memsz : Nat, offset : Nat]

\* The size of a program is a number of pages.
LEMMA SizeType ==
    ASSUME NEW file \in Files
    PROVE  memsz(file) \in Nat
<1> DEFINE s == file.headers
           n == Len(s)
           sizes == {s[i].memsz : i \in {i \in DOMAIN s : s[i].load}}
           all == {0} \cup sizes
<1>1. s \in Seq(Headers) /\ n \in Nat /\ DOMAIN s = 1 .. n
    BY FilesAssumption DEF Headers
<1>2. \A i \in 1 .. n : s[i].memsz \in Nat
    <2> SUFFICES ASSUME NEW i \in 1 .. n PROVE s[i].memsz \in Nat
        OBVIOUS
    <2>1. s[i] \in Headers
        BY <1>1
    <2> QED BY <2>1 DEF Headers
<1> DEFINE T == {k \in Nat : k <= n => \E b \in Nat : \A i \in 1 .. k : s[i].memsz <= b}
<1> HIDE DEF s, n
<1>3. 0 \in T
    OBVIOUS
<1>4. ASSUME NEW k \in Nat, k \in T PROVE k + 1 \in T
    <2> SUFFICES ASSUME k + 1 <= n
                 PROVE  \E b \in Nat : \A i \in 1 .. k + 1 : s[i].memsz <= b
        OBVIOUS
    <2>1. PICK a \in Nat : \A i \in 1 .. k : s[i].memsz <= a
        BY <1>1, <1>4
    <2>2. s[k + 1].memsz \in Nat
        BY <1>1, <1>2
    <2> DEFINE c == s[k + 1].memsz
               b == IF a <= c THEN c ELSE a
    <2>3. b \in Nat /\ a <= b /\ c <= b
        BY <2>2
    <2>4. ASSUME NEW i \in 1 .. k + 1 PROVE s[i].memsz <= b
        <3>1. CASE i = k + 1
            BY <2>3, <3>1
        <3>2. CASE i # k + 1
            <4>1. i \in 1 .. k /\ i \in 1 .. n
                BY <1>1, <3>2
            <4>2. s[i].memsz <= a /\ s[i].memsz \in Nat
                BY <1>2, <2>1, <4>1
            <4> HIDE DEF b
            <4> QED BY <2>3, <4>2
        <3> QED BY <3>1, <3>2
    <2> HIDE DEF b
    <2> QED BY <2>3, <2>4
<1>5. n \in T
    <2> HIDE DEF T
    <2> QED BY <1>1, <1>3, <1>4, SetInduction
<1>6. PICK b \in Nat : \A i \in 1 .. n : s[i].memsz <= b
    BY <1>1, <1>5
<1>7. all \subseteq 0 .. b /\ all # {}
    <2>1. ASSUME NEW x \in sizes PROVE x \in 0 .. b
        <3>1. PICK i \in DOMAIN s : x = s[i].memsz
            OBVIOUS
        <3>2. i \in 1 .. n
            BY <1>1, <3>1
        <3>3. x \in Nat /\ x <= b
            BY <1>2, <1>6, <3>1, <3>2
        <3> QED BY <3>3
    <2> HIDE DEF sizes
    <2> QED BY <2>1
<1> DEFINE most == Max(all)
<1>8. most \in all
    <2> HIDE DEF all
    <2> QED BY <1>7, MaxIsGreatest
<1>9. most \in Nat
    <2> HIDE DEF all, most
    <2> QED BY <1>7, <1>8
<1>10. memsz(file) = most
    BY DEF memsz, s
<1> HIDE DEF most
<1> QED BY <1>9, <1>10

\* Loading a program, whether its file is accepted or not.
LEMMA ProgramLoads ==
    ASSUME NEW m, Loaded(m), NEW process, NEW file \in Files
    PROVE  Loaded(load_elf_file_in_process(m, process, file))
<1> DEFINE n == memsz(file)
           frame == Allocated(m, n)
           window == RegionPage(m, n)
           taken == Taken(m, n)
           a == RegionMapped(taken, frame, n)
           b == Copied(a, window, p_offset(file), n)
           c == RegionUnmapped(b, window, n)
           d == map_pages(c, process.page, virtual_base_addr(file), frame, n, TRUE)
           stack == Allocated(d, 1)
           given == Taken(d, 1)
           e == clear_physical_page(given, stack)
           u == user_map(e, process.cr3, USER_STACK_PAGE, stack)
<1>1. n \in Nat
    BY SizeType
<1>2. Loaded(taken)
    BY AccessKeeps
<1> HIDE DEF n, taken
<1>3. Loaded(a)
    BY <1>1, <1>2, RegionLoads
<1> HIDE DEF a
<1>4. Loaded(b)
    BY <1>1, <1>3, CopyLoads
<1> HIDE DEF b
<1>5. Loaded(c)
    BY <1>1, <1>4, RegionLoads
<1> HIDE DEF c
<1>6. Loaded(d)
    BY <1>1, <1>5, MapPagesLoads
<1> HIDE DEF d
<1>7. Loaded(given)
    BY <1>6, AccessKeeps
<1> HIDE DEF given
<1>8. Loaded(e)
    BY <1>7, ClearLoads
<1> HIDE DEF e
<1>9. Loaded(u)
    BY <1>8, UserMapLoads
<1>10. load_elf_file_in_process(m, process, file) = IF file.valid THEN u ELSE m
    BY DEF load_elf_file_in_process, u, e, given, d, c, b, a, taken, n
<1> HIDE DEF u
<1> QED BY <1>9, <1>10

-----------------------------------------------------------------------------
(* The invariant *)

IsSequence(s) == \E S : s \in Seq(S)

\* Kernel tasks run in the kernel's directory, so that the directory each call
\* leaves in cr3 is that of its caller.
SpaceInv ==
  /\ IsMachine(machine)
  /\ IsSequence(processes)
  /\ running \in 0 .. Len(processes)
  /\ \A i \in 1 .. Len(processes) :
       ~processes[i].program => processes[i].cr3 = KernelDirectory
  /\ ~machine.fault => CurrentSpaceLoaded

\* A process more leaves the others as they are.
LEMMA ProcessAdded ==
    ASSUME NEW s, IsSequence(s), NEW p
    PROVE  /\ IsSequence(Append(s, p)) /\ Len(s) \in Nat /\ Len(Append(s, p)) = Len(s) + 1
           /\ Append(s, p)[Len(s) + 1] = p
           /\ \A i \in 1 .. Len(s) : Append(s, p)[i] = s[i]
<1>1. PICK S : s \in Seq(S)
    BY DEF IsSequence
<1> DEFINE T == S \cup {p}
<1>2. s \in Seq(T) /\ p \in T
    BY <1>1
<1> HIDE DEF T
<1> QED BY <1>2 DEF IsSequence

\* Whoever calls has the kernel's directory loaded.
LEMMA CallerLoaded ==
    ASSUME SpaceInv, InKernelCode
    PROVE  Loaded(machine)
<1>1. IsMachine(machine) /\ CurrentSpaceLoaded /\ running \in 0 .. Len(processes)
    BY DEF SpaceInv, InKernelCode
<1>2. CASE running = 0
    BY <1>1, <1>2 DEF CurrentSpaceLoaded, Loaded
<1>3. CASE running # 0
    <2>1. Len(processes) \in Nat
        BY ProcessAdded DEF SpaceInv
    <2>2. running \in 1 .. Len(processes)
        BY <1>1, <1>3, <2>1
    <2>3. ~processes[running].program
        BY <1>3 DEF InKernelCode
    <2>4. processes[running].cr3 = KernelDirectory
        BY <2>2, <2>3 DEF SpaceInv
    <2> QED BY <1>1, <1>3, <2>4 DEF CurrentSpaceLoaded, Loaded
<1> QED BY <1>2, <1>3

\* A call that leaves the kernel's directory and the processes as they are.
LEMMA CallStep ==
    ASSUME SpaceInv, InKernelCode, Loaded(machine'), UNCHANGED <<processes, running>>
    PROVE  SpaceInv'
<1>1. Loaded(machine) /\ CurrentSpaceLoaded
    BY CallerLoaded DEF SpaceInv, InKernelCode
<1>2. CurrentSpaceLoaded'
    BY <1>1 DEF CurrentSpaceLoaded, Loaded
<1> QED BY <1>2 DEF SpaceInv, Loaded

\* A call that creates a process, which runs in the kernel's directory unless it
\* is a program.
LEMMA CreateStep ==
    ASSUME SpaceInv, InKernelCode, Loaded(machine'), running' = running,
           NEW p, processes' = Append(processes, p),
           ~p.program => p.cr3 = KernelDirectory
    PROVE  SpaceInv'
<1> DEFINE n == Len(processes)
<1>1. Loaded(machine) /\ CurrentSpaceLoaded
    BY CallerLoaded DEF SpaceInv, InKernelCode
<1>2. /\ IsSequence(processes') /\ n \in Nat /\ Len(processes') = n + 1
      /\ processes'[n + 1] = p /\ \A i \in 1 .. n : processes'[i] = processes[i]
    BY ProcessAdded DEF SpaceInv
<1>3. running \in 0 .. n /\ \A i \in 1 .. n :
        ~processes[i].program => processes[i].cr3 = KernelDirectory
    BY DEF SpaceInv
<1> HIDE DEF n
<1>4. running' \in 0 .. Len(processes')
    BY <1>2, <1>3
<1>5. ASSUME NEW i \in 1 .. Len(processes'), ~processes'[i].program
      PROVE  processes'[i].cr3 = KernelDirectory
    <2>1. i = n + 1 \/ i \in 1 .. n
        BY <1>2
    <2> QED BY <1>2, <1>3, <1>5, <2>1
<1>6. CurrentSpaceLoaded'
    <2>1. CASE running = 0
        BY <1>1, <2>1 DEF CurrentSpaceLoaded, Loaded
    <2>2. CASE running # 0
        <3>1. running \in 1 .. n
            BY <1>2, <1>3, <2>2
        <3>2. processes'[running] = processes[running]
            BY <1>2, <3>1
        <3> QED BY <1>1, <2>2, <3>2 DEF CurrentSpaceLoaded, Loaded
    <2> QED BY <2>1, <2>2
<1> QED BY <1>2, <1>4, <1>5, <1>6 DEF SpaceInv, Loaded

\* The boot: the heap's first page and the text screen are mapped.
LEMMA SpaceInit == Init => SpaceInv
<1> SUFFICES ASSUME Init PROVE SpaceInv
    OBVIOUS
<1> DEFINE taken == Taken(paging_init, 1)
           k == kdynamic_memory_init(paging_init)
<1>1. Loaded(paging_init)
    BY DEF Loaded, IsMachine, paging_init
<1>2. Loaded(taken)
    BY <1>1, AccessKeeps
<1>3. Loaded(k)
    BY <1>2, MapLoads DEF kdynamic_memory_init
<1> HIDE DEF k
<1>4. Loaded(terminal_initialize(k))
    BY <1>3, MapLoads DEF terminal_initialize
<1>5. Loaded(machine)
    BY <1>4 DEF Init, k
<1>6. processes = << >> /\ running = 0
    BY DEF Init
<1>7. IsSequence(processes) /\ Len(processes) = 0
    BY <1>6 DEF IsSequence
<1> QED BY <1>5, <1>6, <1>7 DEF SpaceInv, CurrentSpaceLoaded, Loaded

\* Every step keeps the invariant.
LEMMA SpaceNext == SpaceInv /\ [Next]_vars => SpaceInv'
<1> SUFFICES ASSUME SpaceInv, [Next]_vars PROVE SpaceInv'
    OBVIOUS
<1>0. InKernelCode => Loaded(machine)
    BY CallerLoaded
<1>1. CASE increase_memory_pool
    <2> DEFINE taken == Taken(machine, 1)
    <2>1. /\ InKernelCode /\ UNCHANGED <<processes, running>>
          /\ machine' = map_page(taken, KernelDirectoryPage, P2V(HEAP_START + Len(heap)),
                                 Allocated(machine, 1), TRUE)
        BY <1>1 DEF increase_memory_pool
    <2>2. Loaded(taken)
        BY <1>0, <2>1, AccessKeeps
    <2> HIDE DEF taken
    <2>3. Loaded(machine')
        BY <2>1, <2>2, MapLoads
    <2> QED BY <2>1, <2>3, CallStep
<1>2. ASSUME NEW frame \in AcpiFrames, AcpiOsMapMemory(frame) PROVE SpaceInv'
    <2>1. /\ InKernelCode /\ UNCHANGED <<processes, running>>
          /\ machine' = RegionMapped(machine, frame, 1)
        BY <1>2 DEF AcpiOsMapMemory
    <2>2. Loaded(machine')
        BY <1>0, <2>1, RegionLoads
    <2> QED BY <2>1, <2>2, CallStep
<1>3. ASSUME NEW region \in regions, AcpiOsUnmapMemory(region) PROVE SpaceInv'
    <2>1. /\ InKernelCode /\ UNCHANGED <<processes, running>>
          /\ machine' = RegionUnmapped(machine, region.page, 1)
        BY <1>3 DEF AcpiOsUnmapMemory
    <2>2. Loaded(machine')
        BY <1>0, <2>1, RegionLoads
    <2> QED BY <2>1, <2>2, CallStep
<1>4. ASSUME NEW frame \in IdentityFrames, NEW rw \in BOOLEAN,
             identity_map_page_in_kernel_addr(frame, rw)
      PROVE  SpaceInv'
    <2>1. /\ InKernelCode /\ UNCHANGED <<processes, running>>
          /\ machine' = identity_map_page(machine, KernelDirectoryPage, frame, rw)
        BY <1>4 DEF identity_map_page_in_kernel_addr
    <2>2. Loaded(machine')
        BY <1>0, <2>1, IdentityLoads
    <2> QED BY <2>1, <2>2, CallStep
<1>5. CASE scheduler_create_kernel_task
    <2> DEFINE frame == Allocated(machine, 1)
               taken == Taken(machine, 1)
               m == map_page(taken, KernelDirectoryPage, virt, frame, TRUE)
               p == [cr3 |-> KernelDirectory, page |-> KernelDirectoryPage,
                     stack |-> frame, program |-> FALSE, file |-> CHOOSE f \in Files : TRUE]
    <2>1. /\ InKernelCode /\ running' = running /\ processes' = Append(processes, p)
          /\ machine' = Store(m, virt, ENTRIES - 1, KillAddress)
        BY <1>5 DEF scheduler_create_kernel_task
    <2>2. Loaded(taken)
        BY <1>0, <2>1, AccessKeeps
    <2> HIDE DEF taken
    <2>3. Loaded(m)
        BY <2>2, MapLoads
    <2> HIDE DEF m
    <2>4. Loaded(machine')
        BY <2>1, <2>3, AccessKeeps
    <2>5. p.cr3 = KernelDirectory
        OBVIOUS
    <2> HIDE DEF p
    <2> QED BY <2>1, <2>4, <2>5, CreateStep
<1>6. ASSUME NEW file \in Files, scheduler_load_process_in_new_address_space(file)
      PROVE  SpaceInv'
    <2> DEFINE cr3 == Allocated(machine, 1)
               taken == Taken(machine, 1)
               cleared == clear_physical_page(taken, cr3)
               a == map_page(cleared, KernelDirectoryPage, virt, cr3, TRUE)
               stack == Allocated(a, 1)
               process == [cr3 |-> cr3, page |-> virt, stack |-> stack,
                           program |-> TRUE, file |-> file]
               given == Taken(a, 1)
               b == load_elf_file_in_process(given, process, file)
               c == map_kernel_inside_user(b, cr3)
               window == RegionPage(c, 1)
               d == RegionMapped(c, stack, 1)
               e == Store(d, window, ENTRIES - 1, KillAddress)
    <2>1. /\ InKernelCode /\ running' = running /\ processes' = Append(processes, process)
          /\ machine' = RegionUnmapped(e, window, 1)
        BY <1>6 DEF scheduler_load_process_in_new_address_space
    <2>2. process.program
        OBVIOUS
    <2>3. Loaded(taken)
        BY <1>0, <2>1, AccessKeeps
    <2> HIDE DEF taken, process
    <2>4. Loaded(cleared)
        BY <2>3, ClearLoads
    <2> HIDE DEF cleared
    <2>5. Loaded(a)
        BY <2>4, MapLoads
    <2> HIDE DEF a
    <2>6. Loaded(given)
        BY <2>5, AccessKeeps
    <2> HIDE DEF given
    <2>7. Loaded(b)
        BY <2>6, ProgramLoads
    <2> HIDE DEF b
    <2>8. Loaded(c)
        BY <2>7, LinkLoads
    <2> HIDE DEF c
    <2>9. Loaded(d)
        BY <2>8, RegionLoads
    <2> HIDE DEF d
    <2>10. Loaded(e)
        BY <2>9, AccessKeeps
    <2> HIDE DEF e
    <2>11. Loaded(machine')
        BY <2>1, <2>10, RegionLoads
    <2> QED BY <2>1, <2>2, <2>11, CreateStep
<1>7. ASSUME NEW pid \in DOMAIN processes, scheduler_set_page_directory(pid) PROVE SpaceInv'
    <2> DEFINE next == processes[pid].cr3
               present == Translate(machine.ram, machine.cr3, processes[pid].page).present
    <2>1. /\ machine' = IF present THEN [machine EXCEPT !.cr3 = next] ELSE Fault(machine)
          /\ running' = pid /\ processes' = processes /\ IsMachine(machine)
        BY <1>7 DEF scheduler_set_page_directory, SpaceInv
    <2> HIDE DEF present
    <2>2. IsMachine(machine') /\ (machine'.fault \/ machine'.cr3 = next)
        <3>1. CASE present
            BY <2>1, <3>1 DEF IsMachine
        <3>2. CASE ~present
            BY <2>1, <3>2 DEF IsMachine, Fault
        <3> QED BY <3>1, <3>2
    <2>3. Len(processes) \in Nat /\ DOMAIN processes = 1 .. Len(processes)
        BY DEF SpaceInv, IsSequence
    <2>4. pid # 0 /\ pid \in 0 .. Len(processes)
        BY <2>3
    <2>5. ~machine'.fault => CurrentSpaceLoaded'
        BY <2>1, <2>2, <2>4 DEF CurrentSpaceLoaded
    <2> QED BY <2>1, <2>2, <2>4, <2>5 DEF SpaceInv
<1>8. CASE UNCHANGED vars
    BY <1>8 DEF vars, SpaceInv, CurrentSpaceLoaded
<1> QED BY <1>1, <1>2, <1>3, <1>4, <1>5, <1>6, <1>7, <1>8 DEF Next

\* As long as no access has faulted, the directory in cr3 is that of the current
\* process, although every window that a call opens or closes loads the kernel's:
\* only kernel tasks call, and they run in the kernel's.
THEOREM SpaceOfCallerLoaded ==
    Spec => [](PagingNeverFaults => CurrentSpaceLoaded)
<1>1. SpaceInv => (PagingNeverFaults => CurrentSpaceLoaded)
    BY DEF SpaceInv, PagingNeverFaults
<1> QED BY <1>1, SpaceInit, SpaceNext, PTL DEF Spec
=============================================================================
