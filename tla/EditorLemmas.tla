---------------------------- MODULE EditorLemmas ----------------------------
(***************************************************************************)
(* Lemmas about the operators of module Editor: what import, export, find, *)
(* paste, replace and the drawing of the text leave, and that a text that  *)
(* is exported is imported as it was, for every size of the grid and every *)
(* alphabet.                                                               *)
(***************************************************************************)
EXTENDS Editor, TLAPS, WellFoundedInduction

-----------------------------------------------------------------------------
(* Induction, as the search for the smallest counterexample. *)

(* A set of numbers has a smallest one. *)
LEMMA Smallest ==
  ASSUME NEW T \in SUBSET Nat, T # {}
  PROVE  \E m \in T : \A k \in T : m <= k
<1>1. PICK m \in T : \A k \in T : ~(<<k, m>> \in OpToRel(<, Nat))
  BY NatLessThanWellFounded, WFMin, Zenon
<1>2. ASSUME NEW k \in Nat, NEW j \in Nat, k < j
      PROVE  <<k, j>> \in OpToRel(<, Nat)
  BY <1>2, Zenon DEF OpToRel
<1>3. \A k \in T : ~(k < m)
  BY <1>1, <1>2, Zenon
<1> QED BY <1>3

(* What one sequence behind another is. *)
LEMMA ConcatIs ==
  ASSUME NEW S, NEW a \in Seq(S), NEW b \in Seq(S)
  PROVE  /\ a \o b \in Seq(S) /\ Len(a \o b) = Len(a) + Len(b)
         /\ \A i \in 1 .. Len(a) + Len(b) : (a \o b)[i] = IF i <= Len(a) THEN a[i] ELSE b[i - Len(a)]
OBVIOUS

(* f are the values of S that are reached from b in n steps, of which g is what each does. *)
Steps(n, S) == [(1 .. n) \X S -> S]
Iterates(f, n, S, b, g) ==
  f \in [0 .. n -> S] /\ f[0] = b /\ \A i \in 1 .. n : f[i] = g[<<i, f[i - 1]>>]

(* What is done n times over has been done step by step. *)
LEMMA Iterate ==
  ASSUME NEW n \in Nat, NEW S, NEW b \in S, NEW g \in Steps(n, S)
  PROVE  \E f : Iterates(f, n, S, b, g)
<1> DEFINE Ok(m, f) == f[0] = b /\ \A i \in 1 .. m : f[i] = g[<<i, f[i - 1]>>]
           Bad == {m \in 0 .. n : ~\E f \in [0 .. m -> S] : Ok(m, f)}
<1> USE DEF Steps
<1>1. Bad = {} => n \notin Bad
  BY Zenon
<1>2. SUFFICES ASSUME Bad # {} PROVE FALSE
  BY <1>1 DEF Iterates
<1>3. PICK m \in Bad : \A k \in Bad : m <= k
  <2>1. Bad \in SUBSET Nat
    OBVIOUS
  <2> HIDE DEF Bad
  <2> QED BY <1>2, <2>1, Smallest, Zenon
<1>4. m # 0
  <2>1. [i \in 0 .. 0 |-> b] \in [0 .. 0 -> S] /\ Ok(0, [i \in 0 .. 0 |-> b])
    OBVIOUS
  <2> QED BY <2>1, Zenon
<1>5. m - 1 \in 0 .. n /\ m - 1 \notin Bad /\ m \in 1 .. n
  BY <1>3, <1>4
<1>6. PICK f \in [0 .. m - 1 -> S] : Ok(m - 1, f)
  BY <1>5, Zenon
<1> DEFINE h == [i \in 0 .. m |-> IF i = m THEN g[<<m, f[m - 1]>>] ELSE f[i]]
<1>7. h \in [0 .. m -> S]
  BY <1>5
<1>8. Ok(m, h)
  <2>1. h[0] = b
    BY <1>5, <1>6
  <2>2. ASSUME NEW i \in 1 .. m PROVE h[i] = g[<<i, h[i - 1]>>]
    <3>1. i - 1 \in 0 .. m - 1 /\ i \in 0 .. m /\ i - 1 \in 0 .. m
      BY <1>5
    <3>2. h[i - 1] = f[i - 1]
      BY <3>1, <1>5
    <3>3. CASE i = m
      BY <3>2, <3>3, <3>1, Zenon
    <3>4. CASE i # m
      <4>1. h[i] = f[i] /\ i \in 1 .. m - 1
        BY <3>4, <1>5
      <4> QED BY <4>1, <3>2, <1>6, Zenon
    <3> QED BY <3>3, <3>4, Zenon
  <2> QED BY <2>1, <2>2, Zenon
<1> QED BY <1>3, <1>7, <1>8, Zenon

(* Numbers up to n have a largest one, and Max is it. *)
LEMMA MaxOf ==
  ASSUME NEW n \in Nat, NEW S \in SUBSET (0 .. n), S # {}
  PROVE  Max(S) \in S /\ \A x \in S : x <= Max(S)
<1> DEFINE T == {k \in 0 .. n : n - k \in S}
<1>1. T \in SUBSET Nat /\ T # {}
  <2>1. PICK x \in S : TRUE
    BY Zenon
  <2>2. n - x \in T
    OBVIOUS
  <2>3. T \in SUBSET Nat
    OBVIOUS
  <2> QED BY <2>2, <2>3, Zenon
<1>2. PICK m \in T : \A k \in T : m <= k
  <2> HIDE DEF T
  <2> QED BY <1>1, Smallest, Zenon
<1>3. n - m \in S /\ \A x \in S : n - m >= x
  <2>1. ASSUME NEW x \in S PROVE n - m >= x
    <3>1. n - x \in T /\ x \in 0 .. n /\ m \in 0 .. n
      OBVIOUS
    <3> HIDE DEF T
    <3>2. m <= n - x
      BY <3>1, <1>2, Zenon
    <3> QED BY <3>1, <3>2
  <2> QED BY <2>1, Zenon
<1>4. \E x \in S : \A y \in S : x >= y
  BY <1>3, Zenon
<1>5. Max(S) \in S /\ \A y \in S : Max(S) >= y
  BY <1>4, Zenon DEF Max
<1> QED BY <1>5, Zenon

-----------------------------------------------------------------------------
(* Rows. *)

(* A row of a text is as long as the grid is wide. *)
LEMMA RowTyped ==
  ASSUME NEW t \in Texts, NEW r \in 1 .. Rows
  PROVE  /\ Row(t, r) \in [1 .. Cols -> Chars]
         /\ \A c \in 1 .. Cols : Row(t, r)[c] = t[<<r, c>>]
BY GridAssumption, Zenon DEF Row, Texts, Cells

(* Behind line_used_len a row is blank. *)
LEMMA UsedLen ==
  ASSUME NEW row \in [1 .. Cols -> Chars]
  PROVE  /\ line_used_len(row) \in 0 .. Cols
         /\ \A c \in 1 .. Cols : c > line_used_len(row) => row[c] = Blank
<1> DEFINE S == {0} \cup {c \in DOMAIN row : row[c] # Blank}
<1>1. S \in SUBSET (0 .. Cols) /\ S # {} /\ Cols \in Nat
  BY GridAssumption
<1>2. Max(S) \in S /\ \A x \in S : x <= Max(S)
  <2> HIDE DEF S
  <2> QED BY <1>1, MaxOf, Zenon
<1>3. line_used_len(row) = Max(S)
  BY Zenon DEF line_used_len
<1>4. ASSUME NEW c \in 1 .. Cols, c > Max(S) PROVE row[c] = Blank
  <2>1. c \notin S
    BY <1>1, <1>2, <1>4
  <2> QED BY <2>1, Zenon
<1> QED BY <1>1, <1>2, <1>3, <1>4, Zenon

(* The used part of a row holds its characters. *)
LEMMA UsedSeq ==
  ASSUME NEW t \in Texts, NEW r \in 1 .. Rows
  PROVE  /\ Used(t, r) \in Seq(Chars)
         /\ Len(Used(t, r)) = line_used_len(Row(t, r))
         /\ \A k \in 1 .. Len(Used(t, r)) : Used(t, r)[k] = t[<<r, k>>]
<1> DEFINE row == Row(t, r)
           n == line_used_len(row)
<1>1. row \in [1 .. Cols -> Chars] /\ \A c \in 1 .. Cols : row[c] = t[<<r, c>>]
  BY RowTyped, Zenon
<1>2. n \in 0 .. Cols
  BY <1>1, UsedLen, Zenon
<1>3. row \in Seq(Chars) /\ Len(row) = Cols
  BY <1>1, GridAssumption
<1> HIDE DEF row, n
<1>4. SubSeq(row, 1, n) \in Seq(Chars) /\ Len(SubSeq(row, 1, n)) = n
  BY <1>2, <1>3, GridAssumption
<1>5. \A k \in 1 .. n : SubSeq(row, 1, n)[k] = row[k]
  BY <1>2, <1>3, GridAssumption
<1>6. Used(t, r) = SubSeq(row, 1, n)
  BY Zenon DEF Used, row, n
<1>7. \A k \in 1 .. n : k \in 1 .. Cols
  BY <1>2, GridAssumption
<1> QED BY <1>1, <1>4, <1>5, <1>6, <1>7, Zenon DEF n, row

(* The rows behind LastUsedRow are blank, and it is not. *)
LEMMA LastUsed ==
  ASSUME NEW t \in Texts
  PROVE  /\ LastUsedRow(t) \in 0 .. Rows
         /\ \A p \in Cells : p[1] > LastUsedRow(t) => t[p] = Blank
<1> DEFINE S == {0} \cup {r \in 1 .. Rows : Used(t, r) # <<>>}
<1>1. S \in SUBSET (0 .. Rows) /\ S # {} /\ Rows \in Nat
  BY GridAssumption
<1>2. Max(S) \in S /\ \A x \in S : x <= Max(S)
  <2> HIDE DEF S
  <2> QED BY <1>1, MaxOf, Zenon
<1>3. LastUsedRow(t) = Max(S)
  BY Zenon DEF LastUsedRow
<1>4. ASSUME NEW p \in Cells, p[1] > Max(S) PROVE t[p] = Blank
  <2>1. p[1] \in 1 .. Rows /\ p[2] \in 1 .. Cols /\ p = <<p[1], p[2]>>
    BY DEF Cells
  <2>2. p[1] \notin S
    <3> HIDE DEF S
    <3>1. Max(S) \in Nat /\ p[1] \in Nat /\ ~(p[1] <= Max(S))
      BY <1>1, <1>2, <1>4, <2>1
    <3> QED BY <3>1, <1>2, Zenon
  <2>3. Used(t, p[1]) = <<>>
    BY <2>1, <2>2, Zenon
  <2>4. line_used_len(Row(t, p[1])) = 0
    BY <2>1, <2>3, UsedSeq, Zenon
  <2>5. Row(t, p[1]) \in [1 .. Cols -> Chars] /\ Row(t, p[1])[p[2]] = t[p]
    BY <2>1, RowTyped
  <2> QED BY <2>1, <2>4, <2>5, UsedLen
<1> QED BY <1>1, <1>2, <1>3, <1>4, Zenon
-----------------------------------------------------------------------------
(* Reading and writing files. *)

Reading == [t : Texts, r : 1 .. Rows + 1, c : 1 .. Cols]
Start == [t |-> BlankText, r |-> 1, c |-> 1]

(* Reading begins with the blank text. *)
LEMMA StartTyped == BlankText \in Texts /\ Start \in Reading
BY GridAssumption DEF BlankText, Texts, Chars, Start, Reading

(* A byte leaves the next character's place on the grid, or behind it. *)
LEMMA ImportedTyped ==
  ASSUME NEW s \in Reading, NEW ch
  PROVE  Imported(s, ch) \in Reading
<1>1. s = [t |-> s.t, r |-> s.r, c |-> s.c] /\ s.t \in Texts /\ s.r \in 1 .. Rows + 1 /\ s.c \in 1 .. Cols
  BY Zenon DEF Reading
<1>2. CASE s.r > Rows \/ ch \notin Chars \cup {NL}
  BY <1>2, Zenon DEF Imported
<1>3. CASE ~(s.r > Rows \/ ch \notin Chars \cup {NL}) /\ ch = NL
  <2>1. Imported(s, ch) = [s EXCEPT !.r = s.r + 1, !.c = 1]
    BY <1>3, Zenon DEF Imported
  <2>2. Imported(s, ch) = [t |-> s.t, r |-> s.r + 1, c |-> 1]
    BY <1>1, <2>1, Zenon
  <2>3. s.r + 1 \in 1 .. Rows + 1 /\ 1 \in 1 .. Cols
    BY <1>1, <1>3, GridAssumption
  <2> QED BY <1>1, <2>2, <2>3 DEF Reading
<1>4. CASE ~(s.r > Rows \/ ch \notin Chars \cup {NL}) /\ ch # NL
  <2> DEFINE u == [s.t EXCEPT ![<<s.r, s.c>>] = ch]
             r == IF s.c = Cols THEN s.r + 1 ELSE s.r
             c == IF s.c = Cols THEN 1 ELSE s.c + 1
  <2>1. Imported(s, ch) = [t |-> u, r |-> r, c |-> c]
    BY <1>4, Zenon DEF Imported
  <2>2. u \in Texts
    BY <1>1, <1>4, Zenon DEF Texts
  <2>3. r \in 1 .. Rows + 1 /\ c \in 1 .. Cols
    BY <1>1, <1>4, GridAssumption
  <2> HIDE DEF u, r, c
  <2> QED BY <2>1, <2>2, <2>3 DEF Reading
<1> QED BY <1>2, <1>3, <1>4, Zenon

(* What editor_import_buffer makes of a file, byte by byte. *)
LEMMA ImportSteps ==
  ASSUME NEW data \in Content
  PROVE  \E f \in [0 .. Len(data) -> Reading] :
           /\ f[0] = Start
           /\ \A i \in 1 .. Len(data) : f[i] = Imported(f[i - 1], data[i])
           /\ editor_import_buffer(data) =
                [t |-> f[Len(data)].t,
                 cur |-> IF f[Len(data)].r > Rows THEN <<Rows, Cols>> ELSE <<f[Len(data)].r, f[Len(data)].c>>]
<1> DEFINE n == Len(data)
           E(f) == [i \in 0 .. n |-> IF i = 0 THEN Start ELSE Imported(f[i - 1], data[i])]
           after == CHOOSE f : f = E(f)
           g == [x \in (1 .. n) \X Reading |-> Imported(x[2], data[x[1]])]
<1>1. n \in Nat
  BY DEF Content
<1>2. editor_import_buffer(data) =
        [t |-> after[n].t, cur |-> IF after[n].r > Rows THEN <<Rows, Cols>> ELSE <<after[n].r, after[n].c>>]
  BY Zenon DEF editor_import_buffer, Start
<1>3. after = E(after)
  <2>1. g \in Steps(n, Reading)
    BY ImportedTyped, Zenon DEF Steps
  <2>2. PICK f \in [0 .. n -> Reading] : f[0] = Start /\ \A i \in 1 .. n : f[i] = g[<<i, f[i - 1]>>]
    <3> HIDE DEF n, g, E, after
    <3>1. \E f : Iterates(f, n, Reading, Start, g)
      BY <1>1, <2>1, StartTyped, Iterate, Zenon
    <3> QED BY <3>1, Zenon DEF Iterates
  <2>3. ASSUME NEW i \in 0 .. n PROVE f[i] = IF i = 0 THEN Start ELSE Imported(f[i - 1], data[i])
    <3>1. CASE i = 0
      BY <2>2, <3>1, Zenon
    <3>2. CASE i # 0
      <4>1. i \in 1 .. n /\ i - 1 \in 0 .. n
        BY <1>1, <3>2
      <4>2. f[i - 1] \in Reading
        BY <4>1, Zenon
      <4> QED BY <2>2, <3>2, <4>1, <4>2, Zenon
    <3> QED BY <3>1, <3>2, Zenon
  <2>4. f = E(f)
    BY <2>3, Zenon
  <2> QED BY <2>4, Zenon
<1> HIDE DEF after, n
<1>4. after[0] = Start /\ \A i \in 1 .. n : after[i] = Imported(after[i - 1], data[i])
  <2>1. \A i \in 0 .. n : after[i] = IF i = 0 THEN Start ELSE Imported(after[i - 1], data[i])
    BY <1>3, Zenon
  <2>2. 0 \in 0 .. n /\ \A i \in 1 .. n : i \in 0 .. n /\ i # 0
    BY <1>1
  <2> QED BY <2>1, <2>2, Zenon
<1>5. \A i \in 0 .. n : after[i] \in Reading
  <2> DEFINE Bad == {i \in 0 .. n : after[i] \notin Reading}
  <2>1. SUFFICES ASSUME Bad # {} PROVE FALSE
    BY Zenon
  <2>2. PICK m \in Bad : \A k \in Bad : m <= k
    <3>1. Bad \in SUBSET Nat
      BY <1>1
    <3> HIDE DEF Bad
    <3> QED BY <2>1, <3>1, Smallest, Zenon
  <2>3. m # 0
    BY <1>4, StartTyped, Zenon
  <2>4. m \in 1 .. n /\ m - 1 \in 0 .. n /\ m - 1 \notin Bad
    BY <1>1, <2>2, <2>3
  <2>5. after[m - 1] \in Reading
    BY <2>4, Zenon
  <2>6. after[m] \in Reading
    BY <1>4, <2>4, <2>5, ImportedTyped, Zenon
  <2> QED BY <2>6, Zenon
<1>6. after \in [0 .. n -> Reading]
  BY <1>3, <1>5, Zenon
<1> QED BY <1>2, <1>4, <1>6, Zenon DEF n

(* What is read is a text, with the cursor on the grid. *)
LEMMA ImportTyped ==
  ASSUME NEW data \in Content
  PROVE  editor_import_buffer(data).t \in Texts /\ editor_import_buffer(data).cur \in Cells
<1>1. PICK f \in [0 .. Len(data) -> Reading] :
        editor_import_buffer(data) =
          [t |-> f[Len(data)].t,
           cur |-> IF f[Len(data)].r > Rows THEN <<Rows, Cols>> ELSE <<f[Len(data)].r, f[Len(data)].c>>]
  BY ImportSteps, Zenon
<1> DEFINE s == f[Len(data)]
<1>2. s \in Reading
  BY DEF Content
<1> HIDE DEF s
<1>3. s.t \in Texts /\ s.r \in 1 .. Rows + 1 /\ s.c \in 1 .. Cols
  BY <1>2, Zenon DEF Reading
<1>4. (IF s.r > Rows THEN <<Rows, Cols>> ELSE <<s.r, s.c>>) \in Cells
  BY <1>3, GridAssumption DEF Cells
<1> QED BY <1>1, <1>3, <1>4 DEF s

(* The n pieces lie in data one behind the other, each of them up to its pos. *)
Lie(pos, n, rows, data) ==
  /\ pos \in [0 .. n -> Nat] /\ pos[0] = 0 /\ pos[n] = Len(data)
  /\ \A r \in 1 .. n : /\ pos[r] = pos[r - 1] + Len(rows[r])
                        /\ pos[r] <= Len(data)
                        /\ \A k \in 1 .. Len(rows[r]) : data[pos[r - 1] + k] = rows[r][k]

(* What Joined makes of pieces. *)
LEMMA JoinedLie ==
  ASSUME NEW n \in Nat, NEW S, NEW rows \in [1 .. n -> Seq(S)]
  PROVE  Joined(rows) \in Seq(S) /\ \E pos : Lie(pos, n, rows, Joined(rows))
<1> DEFINE data == Joined(rows)
           E(f) == [i \in 0 .. n |-> IF i = 0 THEN <<>> ELSE f[i - 1] \o rows[i]]
           flat == CHOOSE f : f = E(f)
           g == [x \in (1 .. n) \X Seq(S) |-> x[2] \o rows[x[1]]]
<1>1. rows \in Seq(Seq(S)) /\ Len(rows) = n /\ <<>> \in Seq(S) /\ Len(<<>>) = 0
  OBVIOUS
<1>2. data = flat[n]
  BY <1>1, Zenon DEF Joined
<1>3. flat = E(flat)
  <2>1. g \in Steps(n, Seq(S))
    <3>1. ASSUME NEW x \in (1 .. n) \X Seq(S) PROVE x[2] \o rows[x[1]] \in Seq(S)
      <4>1. x[2] \in Seq(S) /\ x[1] \in 1 .. n
        BY Zenon
      <4>2. rows[x[1]] \in Seq(S)
        BY <4>1, Zenon
      <4> HIDE DEF flat, g, E
      <4> QED BY <4>1, <4>2, ConcatIs, Zenon
    <3> QED BY <3>1, Zenon DEF Steps
  <2>2. PICK f : Iterates(f, n, Seq(S), <<>>, g)
    <3> HIDE DEF g
    <3> QED BY <1>1, <2>1, Iterate, Zenon
  <2>3. f \in [0 .. n -> Seq(S)] /\ f[0] = <<>> /\ \A i \in 1 .. n : f[i] = g[<<i, f[i - 1]>>]
    BY <2>2, Zenon DEF Iterates
  <2>4. ASSUME NEW i \in 0 .. n PROVE f[i] = IF i = 0 THEN <<>> ELSE f[i - 1] \o rows[i]
    <3>1. CASE i = 0
      BY <2>3, <3>1, Zenon
    <3>2. CASE i # 0
      <4>1. i \in 1 .. n /\ i - 1 \in 0 .. n
        BY <3>2
      <4>2. f[i - 1] \in Seq(S)
        BY <2>3, <4>1, Zenon
      <4>3. g[<<i, f[i - 1]>>] = f[i - 1] \o rows[i]
        BY <4>1, <4>2, Zenon
      <4> QED BY <2>3, <3>2, <4>1, <4>3, Zenon
    <3> QED BY <3>1, <3>2, Zenon
  <2>5. f = E(f)
    BY <2>3, <2>4, Zenon
  <2> QED BY <2>5, Zenon
<1> HIDE DEF flat
<1>4. flat[0] = <<>> /\ \A i \in 1 .. n : flat[i] = flat[i - 1] \o rows[i]
  <2>1. \A i \in 0 .. n : flat[i] = IF i = 0 THEN <<>> ELSE flat[i - 1] \o rows[i]
    BY <1>3, Zenon
  <2>2. 0 \in 0 .. n /\ \A i \in 1 .. n : i \in 0 .. n /\ i # 0
    OBVIOUS
  <2> QED BY <2>1, <2>2, Zenon
<1> HIDE DEF E, g
<1>5. \A i \in 0 .. n : flat[i] \in Seq(S)
  <2> DEFINE Bad == {i \in 0 .. n : flat[i] \notin Seq(S)}
  <2>1. SUFFICES ASSUME Bad # {} PROVE FALSE
    BY Zenon
  <2>2. PICK m \in Bad : \A k \in Bad : m <= k
    <3>1. Bad \in SUBSET Nat
      OBVIOUS
    <3> HIDE DEF Bad
    <3> QED BY <2>1, <3>1, Smallest, Zenon
  <2>3. m # 0
    BY <1>1, <1>4, Zenon
  <2>4. m \in 1 .. n /\ m - 1 \in 0 .. n /\ m - 1 \notin Bad
    BY <2>2, <2>3
  <2>5. flat[m - 1] \in Seq(S) /\ rows[m] \in Seq(S)
    BY <2>4, Zenon
  <2>6. flat[m - 1] \o rows[m] \in Seq(S)
    BY <2>5, ConcatIs, Zenon
  <2>7. flat[m] \in Seq(S)
    BY <1>4, <2>4, <2>6, Zenon
  <2> QED BY <2>7, Zenon
<1> DEFINE pos == [r \in 0 .. n |-> Len(flat[r])]
<1>6. pos \in [0 .. n -> Nat] /\ pos[0] = 0 /\ \A r \in 0 .. n : pos[r] = Len(flat[r])
  BY <1>1, <1>4, <1>5
<1> HIDE DEF pos
<1>7. ASSUME NEW r \in 1 .. n
      PROVE  /\ pos[r] = pos[r - 1] + Len(rows[r]) /\ pos[r] \in Nat /\ pos[r - 1] \in Nat /\ Len(rows[r]) \in Nat
             /\ \A k \in 1 .. pos[r - 1] : flat[r][k] = flat[r - 1][k]
             /\ \A k \in 1 .. Len(rows[r]) : flat[r][pos[r - 1] + k] = rows[r][k]
  <2> DEFINE a == flat[r - 1]
             b == rows[r]
  <2>1. r \in 0 .. n /\ r - 1 \in 0 .. n
    OBVIOUS
  <2>2. flat[r] = a \o b /\ a \in Seq(S) /\ b \in Seq(S) /\ pos[r - 1] = Len(a) /\ pos[r] = Len(flat[r])
    BY <1>4, <1>5, <1>6, <2>1, Zenon
  <2>3. /\ Len(a \o b) = Len(a) + Len(b)
        /\ \A i \in 1 .. Len(a) + Len(b) : (a \o b)[i] = IF i <= Len(a) THEN a[i] ELSE b[i - Len(a)]
    BY <2>2, ConcatIs
  <2>4. Len(a) \in Nat /\ Len(b) \in Nat
    BY <2>2
  <2> HIDE DEF a, b
  <2>5. \A k \in 1 .. Len(b) : (a \o b)[Len(a) + k] = b[k]
    BY <2>3, <2>4
  <2>6. \A k \in 1 .. Len(a) : (a \o b)[k] = a[k]
    BY <2>3, <2>4
  <2> QED BY <2>2, <2>3, <2>4, <2>5, <2>6 DEF a, b
<1>8. ASSUME NEW r \in 0 .. n
      PROVE  pos[r] <= pos[n] /\ \A k \in 1 .. pos[r] : flat[n][k] = flat[r][k]
  <2> DEFINE Good(j) == pos[r] <= pos[j] /\ \A k \in 1 .. pos[r] : flat[j][k] = flat[r][k]
             Bad == {j \in r .. n : ~Good(j)}
  <2>1. SUFFICES ASSUME Bad # {} PROVE FALSE
    <3>1. n \in r .. n
      OBVIOUS
    <3> QED BY <3>1, Zenon
  <2>2. PICK m \in Bad : \A k \in Bad : m <= k
    <3>1. Bad \in SUBSET Nat
      OBVIOUS
    <3> HIDE DEF Bad
    <3> QED BY <2>1, <3>1, Smallest, Zenon
  <2>3. pos[r] \in Nat
    BY <1>6, Zenon
  <2>4. m # r
    BY <2>3
  <2>5. m \in 1 .. n /\ m - 1 \in r .. n /\ m - 1 \notin Bad
    BY <2>2, <2>4
  <2>6. Good(m - 1)
    BY <2>5, Zenon
  <2>7. /\ pos[m] = pos[m - 1] + Len(rows[m]) /\ pos[m] \in Nat /\ pos[m - 1] \in Nat /\ Len(rows[m]) \in Nat
        /\ \A k \in 1 .. pos[m - 1] : flat[m][k] = flat[m - 1][k]
    BY <1>7, <2>5, Zenon
  <2>8. pos[r] <= pos[m]
    BY <2>3, <2>6, <2>7
  <2>9. ASSUME NEW k \in 1 .. pos[r] PROVE flat[m][k] = flat[r][k]
    <3>1. k \in 1 .. pos[m - 1]
      BY <2>3, <2>6, <2>7
    <3> QED BY <2>6, <2>7, <3>1, Zenon
  <2> QED BY <2>8, <2>9, Zenon
<1>9. n \in 0 .. n /\ data \in Seq(S) /\ pos[n] = Len(data)
  BY <1>2, <1>5, <1>6
<1>10. ASSUME NEW r \in 1 .. n, NEW k \in 1 .. Len(rows[r])
       PROVE  data[pos[r - 1] + k] = rows[r][k]
  <2>1. pos[r - 1] + k \in 1 .. pos[r] /\ r \in 0 .. n
    <3>1. pos[r] = pos[r - 1] + Len(rows[r]) /\ pos[r - 1] \in Nat /\ Len(rows[r]) \in Nat
      BY <1>7, Zenon
    <3> QED BY <3>1
  <2>2. data[pos[r - 1] + k] = flat[r][pos[r - 1] + k]
    BY <1>2, <1>8, <2>1, Zenon
  <2>3. flat[r][pos[r - 1] + k] = rows[r][k]
    BY <1>7, Zenon
  <2> QED BY <2>2, <2>3, Zenon
<1> HIDE DEF data
<1>11. \A r \in 1 .. n : pos[r] <= Len(data)
  BY <1>8, <1>9
<1>12. Lie(pos, n, rows, data)
  BY <1>6, <1>7, <1>9, <1>10, <1>11, Zenon DEF Lie
<1> QED BY <1>9, <1>12, Zenon DEF data

(* The used parts of the rows of t lie in data, up to the last one with a line feed behind each. *)
RowsLie(pos, t, data) ==
  LET last == LastUsedRow(t) IN
    /\ pos \in [0 .. last -> Nat] /\ pos[0] = 0 /\ pos[last] = Len(data)
    /\ \A r \in 1 .. last :
         /\ pos[r] = pos[r - 1] + line_used_len(Row(t, r)) + (IF r < last THEN 1 ELSE 0)
         /\ pos[r] <= Len(data)
         /\ \A k \in 1 .. line_used_len(Row(t, r)) : data[pos[r - 1] + k] = t[<<r, k>>]
         /\ r < last => data[pos[r]] = NL

(* What is written of a text. *)
LEMMA ExportPlaces ==
  ASSUME NEW t \in Texts
  PROVE  editor_export_buffer(t) \in Content /\ \E pos : RowsLie(pos, t, editor_export_buffer(t))
<1> DEFINE data == editor_export_buffer(t)
           last == LastUsedRow(t)
           rows == [r \in 1 .. last |-> Used(t, r) \o (IF r < last THEN <<NL>> ELSE <<>>)]
           used(r) == line_used_len(Row(t, r))
<1>1. last \in 0 .. Rows /\ last \in Nat
  BY LastUsed, GridAssumption
<1>2. data = Joined(rows)
  BY Zenon DEF editor_export_buffer
<1>3. ASSUME NEW r \in 1 .. last
      PROVE  /\ rows[r] \in Content /\ used(r) \in Nat
             /\ Len(rows[r]) = used(r) + (IF r < last THEN 1 ELSE 0)
             /\ \A k \in 1 .. used(r) : rows[r][k] = t[<<r, k>>]
             /\ r < last => rows[r][used(r) + 1] = NL
  <2>1. r \in 1 .. Rows
    BY <1>1, GridAssumption
  <2> DEFINE u == Used(t, r)
             e == IF r < last THEN <<NL>> ELSE <<>>
  <2>2. u \in Seq(Chars) /\ Len(u) = used(r) /\ \A k \in 1 .. Len(u) : u[k] = t[<<r, k>>]
    BY <2>1, UsedSeq, Zenon
  <2>3. e \in Content /\ Len(e) = (IF r < last THEN 1 ELSE 0) /\ (r < last => e[1] = NL)
    BY CharsAssumption DEF Content
  <2>4. u \in Content
    BY <2>2, CharsAssumption DEF Content
  <2>5. rows[r] = u \o e
    BY Zenon
  <2> HIDE DEF u, e, rows
  <2>6. used(r) \in Nat
    BY <2>2
  <2> HIDE DEF used
  <2>7. /\ u \o e \in Content /\ Len(u \o e) = Len(u) + Len(e)
        /\ \A i \in 1 .. Len(u) + Len(e) : (u \o e)[i] = IF i <= Len(u) THEN u[i] ELSE e[i - Len(u)]
    BY <2>3, <2>4, ConcatIs, Zenon DEF Content
  <2>8. \A k \in 1 .. Len(u) : (u \o e)[k] = u[k]
    BY <2>2, <2>3, <2>6, <2>7
  <2>9. r < last => (u \o e)[Len(u) + 1] = e[1]
    BY <2>2, <2>3, <2>6, <2>7
  <2> QED BY <2>2, <2>3, <2>5, <2>6, <2>7, <2>8, <2>9
<1>4. rows \in [1 .. last -> Seq(Bytes)]
  BY <1>3, Zenon DEF Content
<1> HIDE DEF rows, last, used
<1>5. data \in Content
  BY <1>1, <1>2, <1>4, JoinedLie, Zenon DEF Content
<1>6. PICK pos : Lie(pos, last, rows, data)
  BY <1>1, <1>2, <1>4, JoinedLie
<1> HIDE DEF data
<1>7. ASSUME NEW r \in 1 .. last
      PROVE  /\ pos[r] = pos[r - 1] + used(r) + (IF r < last THEN 1 ELSE 0)
             /\ pos[r] <= Len(data)
             /\ \A k \in 1 .. used(r) : data[pos[r - 1] + k] = t[<<r, k>>]
             /\ r < last => data[pos[r]] = NL
  <2>1. pos[r - 1] \in Nat /\ used(r) \in Nat /\ Len(rows[r]) \in Nat
    <3>1. r - 1 \in 0 .. last
      BY <1>1
    <3>2. rows[r] \in Content /\ used(r) \in Nat
      BY <1>3, Zenon
    <3> QED BY <1>6, <3>1, <3>2 DEF Content, Lie
  <2>2. pos[r] = pos[r - 1] + used(r) + (IF r < last THEN 1 ELSE 0) /\ pos[r] <= Len(data)
    BY <1>3, <1>6, <2>1 DEF Lie
  <2>3. ASSUME NEW k \in 1 .. used(r) PROVE data[pos[r - 1] + k] = t[<<r, k>>]
    <3>1. k \in 1 .. Len(rows[r])
      BY <1>3, <2>1
    <3> QED BY <1>3, <1>6, <3>1 DEF Lie
  <2>4. ASSUME r < last PROVE data[pos[r]] = NL
    <3>1. used(r) + 1 \in 1 .. Len(rows[r]) /\ pos[r] = pos[r - 1] + (used(r) + 1)
      <4>1. Len(rows[r]) = used(r) + 1
        BY <1>3, <2>4, Zenon
      <4>2. pos[r] = pos[r - 1] + used(r) + 1
        BY <2>2, <2>4, Zenon
      <4> QED BY <2>1, <4>1, <4>2
    <3>2. data[pos[r - 1] + (used(r) + 1)] = rows[r][used(r) + 1]
      BY <1>6, <3>1, Zenon DEF Lie
    <3>3. rows[r][used(r) + 1] = NL
      BY <1>3, <2>4, Zenon
    <3> QED BY <3>1, <3>2, <3>3, Zenon
  <2> QED BY <2>2, <2>3, <2>4, Zenon
<1>8. pos \in [0 .. last -> Nat] /\ pos[0] = 0 /\ pos[last] = Len(data)
  BY <1>6, Zenon DEF Lie
<1>9. RowsLie(pos, t, data)
  BY <1>7, <1>8, Zenon DEF RowsLie, last, used
<1> QED BY <1>5, <1>9, Zenon DEF data
(* The text t up to row r, and k characters of the next. *)
Upto(t, r, k) == [p \in Cells |-> IF p[1] <= r \/ (p[1] = r + 1 /\ p[2] <= k) THEN t[p] ELSE Blank]

(* The state of reading after Upto(t, r - 1, k). *)
ReadUpto(t, r, k) ==
  [t |-> Upto(t, r - 1, k), r |-> IF k = Cols THEN r + 1 ELSE r, c |-> IF k = Cols THEN 1 ELSE k + 1]

(* One more character of row r. *)
LEMMA CharRead ==
  ASSUME NEW t \in Texts, NEW r \in 1 .. Rows, NEW k \in 1 .. Cols
  PROVE  Imported(ReadUpto(t, r, k - 1), t[<<r, k>>]) = ReadUpto(t, r, k)
<1> DEFINE s == ReadUpto(t, r, k - 1)
           ch == t[<<r, k>>]
           u == Upto(t, r - 1, k - 1)
<1>1. k \in Nat /\ k <= Cols /\ r \in Nat /\ r <= Rows /\ Cols \in Nat /\ Rows \in Nat /\ k - 1 # Cols
  BY GridAssumption
<1>2. s.t = u /\ s.r = r /\ s.c = k
  BY <1>1 DEF ReadUpto
<1>3. <<r, k>> \in Cells /\ ch \in Chars /\ ch # NL
  BY CharsAssumption, Zenon DEF Cells, Texts, Chars, Blank, NL
<1> HIDE DEF s, ch
<1>4. Imported(s, ch) = [t |-> [s.t EXCEPT ![<<s.r, s.c>>] = ch],
                         r |-> IF s.c = Cols THEN s.r + 1 ELSE s.r,
                         c |-> IF s.c = Cols THEN 1 ELSE s.c + 1]
  BY <1>1, <1>2, <1>3 DEF Imported
<1>5. [u EXCEPT ![<<r, k>>] = ch] = Upto(t, r - 1, k)
  <2>1. ASSUME NEW p \in Cells
        PROVE  (IF p = <<r, k>> THEN ch ELSE u[p])
                 = IF p[1] <= r - 1 \/ (p[1] = r - 1 + 1 /\ p[2] <= k) THEN t[p] ELSE Blank
    <3>1. p = <<p[1], p[2]>> /\ p[1] \in Nat /\ p[2] \in Nat
      BY DEF Cells
    <3>2. CASE p = <<r, k>>
      <4>1. p[1] = r - 1 + 1 /\ p[2] <= k /\ t[p] = ch
        BY <1>1, <3>2 DEF ch
      <4> QED BY <3>2, <4>1, Zenon
    <3>3. CASE p # <<r, k>>
      <4>1. p[1] # r \/ p[2] # k
        BY <3>1, <3>3, Zenon
      <4>2. u[p] = IF p[1] <= r - 1 \/ (p[1] = r - 1 + 1 /\ p[2] <= k - 1) THEN t[p] ELSE Blank
        BY Zenon DEF Upto
      <4>3. (p[1] <= r - 1 \/ (p[1] = r - 1 + 1 /\ p[2] <= k - 1)) <=> (p[1] <= r - 1 \/ (p[1] = r - 1 + 1 /\ p[2] <= k))
        BY <1>1, <3>1, <4>1
      <4> QED BY <3>3, <4>2, <4>3, Zenon
    <3> QED BY <3>2, <3>3, Zenon
  <2>2. u = [p \in Cells |-> u[p]]
    BY Zenon DEF Upto
  <2> HIDE DEF u
  <2>3. [u EXCEPT ![<<r, k>>] = ch] = [p \in Cells |-> IF p = <<r, k>> THEN ch ELSE u[p]]
    BY <2>2, Zenon
  <2> QED BY <2>1, <2>3, Zenon DEF Upto
<1>6. Imported(s, ch) = [t |-> Upto(t, r - 1, k), r |-> IF k = Cols THEN r + 1 ELSE r, c |-> IF k = Cols THEN 1 ELSE k + 1]
  BY <1>2, <1>4, <1>5, Zenon
<1> QED BY <1>6, Zenon DEF ReadUpto, s, ch

(* The line feed of row r. *)
LEMMA FeedRead ==
  ASSUME NEW t \in Texts, NEW r \in 1 .. Rows, line_used_len(Row(t, r)) # Cols
  PROVE  Imported(ReadUpto(t, r, line_used_len(Row(t, r))), NL) = ReadUpto(t, r + 1, 0)
<1> DEFINE k == line_used_len(Row(t, r))
           s == ReadUpto(t, r, k)
<1>1. Row(t, r) \in [1 .. Cols -> Chars] /\ \A c \in 1 .. Cols : Row(t, r)[c] = t[<<r, c>>]
  BY RowTyped, Zenon
<1>2. k \in 0 .. Cols /\ \A c \in 1 .. Cols : c > k => t[<<r, c>>] = Blank
  BY <1>1, UsedLen, Zenon
<1>3. k # Cols
  BY Zenon
<1> HIDE DEF k
<1>4. s = [t |-> Upto(t, r - 1, k), r |-> r, c |-> k + 1]
  BY <1>3, Zenon DEF ReadUpto
<1> HIDE DEF s
<1>5. ~(s.r > Rows) /\ NL \in Chars \cup {NL}
  BY <1>4, GridAssumption
<1>6. Imported(s, NL) = [s EXCEPT !.r = s.r + 1, !.c = 1]
  BY <1>5, Zenon DEF Imported
<1>7. Imported(s, NL) = [t |-> Upto(t, r - 1, k), r |-> r + 1, c |-> 1]
  BY <1>4, <1>6, Zenon
<1>8. Upto(t, r - 1, k) = Upto(t, r, 0)
  <2>1. ASSUME NEW p \in Cells
        PROVE  (IF p[1] <= r - 1 \/ (p[1] = r - 1 + 1 /\ p[2] <= k) THEN t[p] ELSE Blank)
                 = IF p[1] <= r \/ (p[1] = r + 1 /\ p[2] <= 0) THEN t[p] ELSE Blank
    <3>1. p = <<p[1], p[2]>> /\ p[1] \in Nat /\ p[2] \in 1 .. Cols /\ r \in Nat /\ k \in Nat /\ Cols \in Nat
      BY <1>2, GridAssumption DEF Cells
    <3>2. CASE p[1] = r /\ p[2] > k
      <4>1. t[p] = Blank
        BY <1>2, <3>1, <3>2, Zenon
      <4> QED BY <4>1, Zenon
    <3>3. CASE ~(p[1] = r /\ p[2] > k)
      <4>1. (p[1] <= r - 1 \/ (p[1] = r - 1 + 1 /\ p[2] <= k)) <=> (p[1] <= r \/ (p[1] = r + 1 /\ p[2] <= 0))
        BY <3>1, <3>3
      <4> QED BY <4>1, Zenon
    <3> QED BY <3>2, <3>3, Zenon
  <2> QED BY <2>1, Zenon DEF Upto
<1>9. ReadUpto(t, r + 1, 0) = [t |-> Upto(t, r, 0), r |-> r + 1, c |-> 1]
  <2>1. (r + 1) - 1 = r /\ 0 # Cols /\ 0 + 1 = 1
    BY GridAssumption
  <2> QED BY <2>1, Zenon DEF ReadUpto
<1> QED BY <1>7, <1>8, <1>9, Zenon DEF k, s

(* A text that is written to a file and read back is the text, unless one of its rows is full to the last column *)
(* and followed by another.                                                                                     *)
LEMMA RoundTrip ==
  ASSUME NEW t \in Texts, ~FullRow(t)
  PROVE  editor_import_buffer(editor_export_buffer(t)).t = t
<1> DEFINE data == editor_export_buffer(t)
           last == LastUsedRow(t)
           used(r) == line_used_len(Row(t, r))
<1>1. data \in Content
  BY ExportPlaces, Zenon
<1>2. PICK pos : RowsLie(pos, t, data)
  BY ExportPlaces, Zenon
<1>3. PICK f \in [0 .. Len(data) -> Reading] :
           /\ f[0] = Start
           /\ \A i \in 1 .. Len(data) : f[i] = Imported(f[i - 1], data[i])
           /\ editor_import_buffer(data) =
                [t |-> f[Len(data)].t,
                 cur |-> IF f[Len(data)].r > Rows THEN <<Rows, Cols>> ELSE <<f[Len(data)].r, f[Len(data)].c>>]
  BY <1>1, ImportSteps, Zenon
<1>4. last \in Nat /\ last <= Rows /\ Rows \in Nat /\ Len(data) \in Nat /\ Cols \in Nat
  BY <1>1, LastUsed, GridAssumption DEF Content
<1>5. ASSUME NEW r \in 1 .. last
      PROVE  used(r) \in 0 .. Cols /\ r \in 1 .. Rows /\ (r < last => used(r) # Cols)
  <2>1. r \in 1 .. Rows
    BY <1>4
  <2>2. used(r) \in 0 .. Cols
    BY <2>1, RowTyped, UsedLen, Zenon
  <2>3. ASSUME r < last PROVE used(r) # Cols
    <3>1. r \in 1 .. last - 1
      BY <1>4, <2>3
    <3> QED BY <3>1, Zenon DEF FullRow
  <2> QED BY <2>1, <2>2, <2>3, Zenon
<1>6. pos \in [0 .. last -> Nat] /\ pos[0] = 0 /\ pos[last] = Len(data)
  BY <1>2, Zenon DEF RowsLie
<1>7. ASSUME NEW r \in 1 .. last
      PROVE  /\ pos[r] = pos[r - 1] + used(r) + (IF r < last THEN 1 ELSE 0)
             /\ pos[r] <= Len(data)
             /\ \A k \in 1 .. used(r) : data[pos[r - 1] + k] = t[<<r, k>>]
             /\ r < last => data[pos[r]] = NL
  BY <1>2, Zenon DEF RowsLie
<1> HIDE DEF data, last, used
<1>8. ASSUME NEW r \in 1 .. last, f[pos[r - 1]] = ReadUpto(t, r, 0), NEW k \in 0 .. used(r)
      PROVE  f[pos[r - 1] + k] = ReadUpto(t, r, k)
  <2> DEFINE Bad == {j \in 0 .. used(r) : f[pos[r - 1] + j] # ReadUpto(t, r, j)}
  <2>1. SUFFICES ASSUME Bad # {} PROVE FALSE
    BY Zenon
  <2>2. PICK m \in Bad : \A j \in Bad : m <= j
    <3>1. Bad \in SUBSET Nat
      BY <1>5
    <3> HIDE DEF Bad
    <3> QED BY <2>1, <3>1, Smallest, Zenon
  <2>3. pos[r - 1] \in Nat /\ pos[r] \in Nat
    <3>1. r - 1 \in 0 .. last /\ r \in 0 .. last
      BY <1>4
    <3> QED BY <1>6, <3>1, Zenon
  <2>4. m # 0
    BY <1>8, <2>3
  <2>5. m \in 1 .. used(r) /\ m - 1 \in 0 .. used(r) /\ m - 1 \notin Bad /\ m \in 1 .. Cols
    <3>1. used(r) \in Nat /\ used(r) <= Cols
      BY <1>4, <1>5
    <3>2. m \in 0 .. used(r)
      BY Zenon
    <3>3. m - 1 \notin Bad
      <4> HIDE DEF Bad
      <4> QED BY <2>2, <3>1, <3>2
    <3> QED BY <1>4, <2>4, <3>1, <3>2, <3>3
  <2>6. f[pos[r - 1] + (m - 1)] = ReadUpto(t, r, m - 1)
    BY <2>5, Zenon
  <2> DEFINE i == pos[r - 1] + m
  <2>7. i \in 1 .. Len(data) /\ i - 1 = pos[r - 1] + (m - 1)
    <3>1. used(r) \in Nat
      BY <1>4, <1>5
    <3>2. pos[r] <= Len(data) /\ pos[r] = pos[r - 1] + used(r) + (IF r < last THEN 1 ELSE 0)
      BY <1>7, Zenon
    <3>3. pos[r] >= pos[r - 1] + used(r)
      BY <2>3, <3>1, <3>2
    <3> HIDE DEF Bad
    <3> QED BY <1>4, <2>3, <2>5, <3>1, <3>2, <3>3
  <2>8. data[i] = t[<<r, m>>]
    BY <1>7, <2>5, Zenon
  <2>9. f[i] = Imported(ReadUpto(t, r, m - 1), t[<<r, m>>])
    BY <1>3, <2>6, <2>7, <2>8, Zenon
  <2>10. f[i] = ReadUpto(t, r, m)
    BY <1>5, <2>5, <2>9, CharRead, Zenon
  <2> QED BY <2>10, Zenon
<1>9. \A r \in 0 .. last - 1 : f[pos[r]] = ReadUpto(t, r + 1, 0)
  <2> DEFINE Bad == {r \in 0 .. last - 1 : f[pos[r]] # ReadUpto(t, r + 1, 0)}
  <2>1. SUFFICES ASSUME Bad # {} PROVE FALSE
    BY Zenon
  <2>2. PICK m \in Bad : \A j \in Bad : m <= j
    <3>1. Bad \in SUBSET Nat
      BY <1>4
    <3> HIDE DEF Bad
    <3> QED BY <2>1, <3>1, Smallest, Zenon
  <2>3. m # 0
    <3>1. ReadUpto(t, 1, 0) = [t |-> Upto(t, 0, 0), r |-> 1, c |-> 1]
      BY GridAssumption DEF ReadUpto
    <3>2. Upto(t, 0, 0) = BlankText
      <4>1. \A p \in Cells : ~(p[1] <= 0 \/ (p[1] = 0 + 1 /\ p[2] <= 0))
        BY DEF Cells
      <4> QED BY <4>1, Zenon DEF Upto, BlankText
    <3>3. f[pos[0]] = ReadUpto(t, 0 + 1, 0)
      BY <1>3, <1>6, <3>1, <3>2 DEF Start
    <3> QED BY <3>3, Zenon
  <2>4. m \in 1 .. last /\ m < last /\ m - 1 \in 0 .. last - 1 /\ m - 1 \notin Bad /\ (m - 1) + 1 = m
    BY <1>4, <2>2, <2>3
  <2>5. f[pos[m - 1]] = ReadUpto(t, m, 0)
    BY <2>4, Zenon
  <2>6. pos[m - 1] \in Nat /\ pos[m] \in Nat /\ used(m) \in Nat /\ pos[m] = pos[m - 1] + used(m) + 1 /\ pos[m] <= Len(data)
    <3>1. m - 1 \in 0 .. last /\ m \in 0 .. last
      BY <1>4, <2>4
    <3>2. used(m) \in Nat
      BY <1>4, <1>5, <2>4
    <3>3. pos[m] = pos[m - 1] + used(m) + 1 /\ pos[m] <= Len(data)
      BY <1>7, <2>4, Zenon
    <3> QED BY <1>6, <3>1, <3>2, <3>3, Zenon
  <2>7. f[pos[m - 1] + used(m)] = ReadUpto(t, m, used(m))
    <3>1. used(m) \in 0 .. used(m)
      BY <2>6
    <3> QED BY <1>8, <2>4, <2>5, <3>1, Zenon
  <2>8. pos[m] \in 1 .. Len(data) /\ pos[m] - 1 = pos[m - 1] + used(m)
    BY <1>4, <2>6
  <2>9. f[pos[m]] = Imported(ReadUpto(t, m, used(m)), NL)
    BY <1>3, <1>7, <2>4, <2>7, <2>8
  <2>10. f[pos[m]] = ReadUpto(t, m + 1, 0)
    BY <1>5, <2>4, <2>9, FeedRead, Zenon DEF used
  <2> QED BY <2>10, Zenon
<1>10. f[Len(data)].t = t
  <2>1. t = [p \in Cells |-> t[p]]
    BY Zenon DEF Texts
  <2>2. \A p \in Cells : p[1] > last => t[p] = Blank
    BY LastUsed, Zenon DEF last
  <2>3. CASE last = 0
    <3>1. f[Len(data)].t = BlankText
      BY <1>3, <1>6, <2>3 DEF Start
    <3>2. \A p \in Cells : p[1] > 0
      BY DEF Cells
    <3>3. \A p \in Cells : t[p] = Blank
      BY <2>2, <2>3, <3>2, Zenon
    <3> QED BY <2>1, <3>1, <3>3, Zenon DEF BlankText
  <2>4. CASE last # 0
    <3> DEFINE k == used(last)
    <3>1. last \in 1 .. last /\ last - 1 \in 0 .. last - 1 /\ (last - 1) + 1 = last /\ last - 1 \in 0 .. last
      BY <1>4, <2>4
    <3>2. f[pos[last - 1]] = ReadUpto(t, last, 0)
      BY <1>9, <3>1, Zenon
    <3>3. k \in 0 .. Cols /\ k \in 0 .. k /\ last \in 1 .. Rows
      BY <1>4, <1>5, <3>1
    <3>4. f[pos[last - 1] + k] = ReadUpto(t, last, k)
      BY <1>8, <3>1, <3>2, <3>3, Zenon
    <3>5. pos[last] = pos[last - 1] + k + 0
      <4>1. pos[last] = pos[last - 1] + used(last) + (IF last < last THEN 1 ELSE 0)
        BY <1>7, <3>1, Zenon
      <4>2. ~(last < last)
        BY <1>4
      <4> QED BY <4>1, <4>2, Zenon
    <3>6. Len(data) = pos[last - 1] + k
      BY <1>4, <1>6, <3>1, <3>3, <3>5
    <3>7. f[Len(data)].t = Upto(t, last - 1, k)
      BY <3>4, <3>6 DEF ReadUpto
    <3>8. \A c \in 1 .. Cols : c > k => t[<<last, c>>] = Blank
      <4>1. Row(t, last) \in [1 .. Cols -> Chars] /\ \A c \in 1 .. Cols : Row(t, last)[c] = t[<<last, c>>]
        BY <3>3, RowTyped, Zenon
      <4> QED BY <4>1, UsedLen, Zenon DEF used
    <3> HIDE DEF k
    <3>9. ASSUME NEW p \in Cells
          PROVE  (IF p[1] <= last - 1 \/ (p[1] = last - 1 + 1 /\ p[2] <= k) THEN t[p] ELSE Blank) = t[p]
      <4>1. p = <<p[1], p[2]>> /\ p[1] \in Nat /\ p[2] \in 1 .. Cols
        BY DEF Cells
      <4>2. CASE p[1] > last
        BY <2>2, <4>2, Zenon
      <4>3. CASE p[1] = last /\ p[2] > k
        <5>1. t[p] = Blank
          BY <3>8, <4>1, <4>3, Zenon
        <5> QED BY <5>1, Zenon
      <4>4. CASE ~(p[1] > last) /\ ~(p[1] = last /\ p[2] > k)
        <5>1. p[1] <= last - 1 \/ (p[1] = last - 1 + 1 /\ p[2] <= k)
          BY <1>4, <3>3, <4>1, <4>4
        <5> QED BY <5>1, Zenon
      <4> QED BY <4>2, <4>3, <4>4, Zenon
    <3>10. Upto(t, last - 1, k) = [p \in Cells |-> t[p]]
      BY <3>9, Zenon DEF Upto
    <3> QED BY <2>1, <3>7, <3>10, Zenon
  <2> QED BY <2>3, <2>4, Zenon
<1> QED BY <1>3, <1>10 DEF data
-----------------------------------------------------------------------------
(* The commands. *)

(* A search that finds something leaves the cursor on an occurrence. *)
LEMMA FirstFound ==
  ASSUME NEW S \in SUBSET Cells, S # {}
  PROVE  First(S) \in S
<1> DEFINE R == {r \in 1 .. Rows : \E p \in S : p[1] = r}
<1>1. R \in SUBSET Nat /\ R # {}
  BY GridAssumption DEF Cells
<1>2. PICK r \in R : \A k \in R : r <= k
  <2> HIDE DEF R
  <2> QED BY <1>1, Smallest, Zenon
<1> DEFINE C == {c \in 1 .. Cols : <<r, c>> \in S}
<1>3. C \in SUBSET Nat /\ C # {}
  BY GridAssumption DEF Cells
<1>4. PICK c \in C : \A k \in C : c <= k
  <2> HIDE DEF C
  <2> QED BY <1>3, Smallest, Zenon
<1>5. ASSUME NEW q \in S PROVE Before(<<r, c>>, q)
  <2>1. q[1] \in 1 .. Rows /\ q[2] \in 1 .. Cols /\ q = <<q[1], q[2]>>
    BY DEF Cells
  <2>2. q[1] \in R
    BY <2>1, Zenon
  <2>3. q[1] = r => q[2] \in C
    BY <2>1, Zenon
  <2>4. r \in Nat /\ c \in Nat
    BY <1>1, <1>3, Zenon
  <2> HIDE DEF R, C
  <2>5. r <= q[1] /\ (q[1] = r => c <= q[2])
    BY <1>2, <1>4, <2>2, <2>3, Zenon
  <2>6. r < q[1] \/ (r = q[1] /\ c <= q[2])
    BY <2>1, <2>4, <2>5
  <2> QED BY <2>6, Zenon DEF Before
<1>6. \E p \in S : \A q \in S : Before(p, q)
  BY <1>5, Zenon
<1> QED BY <1>6, Zenon DEF First

(* So does one backwards. *)
LEMMA FinalFound ==
  ASSUME NEW S \in SUBSET Cells, S # {}
  PROVE  Final(S) \in S
<1> DEFINE R == {r \in 1 .. Rows : \E p \in S : p[1] = r}
<1>1. R \in SUBSET (0 .. Rows) /\ R # {} /\ Rows \in Nat /\ Cols \in Nat
  BY GridAssumption DEF Cells
<1>2. Max(R) \in R /\ \A k \in R : k <= Max(R)
  <2> HIDE DEF R
  <2> QED BY <1>1, MaxOf, Zenon
<1>3. PICK r \in R : \A k \in R : k <= r
  BY <1>2, Zenon
<1> DEFINE C == {c \in 1 .. Cols : <<r, c>> \in S}
<1>4. C \in SUBSET (0 .. Cols) /\ C # {}
  BY GridAssumption DEF Cells
<1>5. Max(C) \in C /\ \A k \in C : k <= Max(C)
  <2> HIDE DEF C
  <2> QED BY <1>1, <1>4, MaxOf, Zenon
<1>6. PICK c \in C : \A k \in C : k <= c
  BY <1>5, Zenon
<1>7. ASSUME NEW q \in S PROVE Before(q, <<r, c>>)
  <2>1. q[1] \in 1 .. Rows /\ q[2] \in 1 .. Cols /\ q = <<q[1], q[2]>>
    BY DEF Cells
  <2>2. q[1] \in R
    BY <2>1, Zenon
  <2>3. q[1] = r => q[2] \in C
    BY <2>1, Zenon
  <2>4. r \in Nat /\ c \in Nat
    BY <1>1, <1>4
  <2> HIDE DEF R, C
  <2>5. q[1] <= r /\ (q[1] = r => q[2] <= c)
    BY <1>3, <1>6, <2>2, <2>3, Zenon
  <2>6. q[1] < r \/ (q[1] = r /\ q[2] <= c)
    BY <2>1, <2>4, <2>5
  <2> QED BY <2>6, Zenon DEF Before
<1>8. \E p \in S : \A q \in S : Before(q, p)
  BY <1>7, Zenon
<1> QED BY <1>8, Zenon DEF Final

(* The smaller of two numbers. *)
LEMMA MinOfTwo ==
  ASSUME NEW a \in Nat, NEW b \in Nat
  PROVE  Min({a, b}) = IF a <= b THEN a ELSE b
<1>1. \E x \in {a, b} : \A y \in {a, b} : x <= y
  OBVIOUS
<1>2. Min({a, b}) \in {a, b} /\ \A y \in {a, b} : Min({a, b}) <= y
  BY <1>1, Zenon DEF Min
<1> QED BY <1>2

(* Pasting leaves a text, and the cursor on the grid. *)
LEMMA PasteTyped ==
  ASSUME NEW t \in Texts, NEW p \in Cells, NEW clip \in Seq(Chars), clip # <<>>
  PROVE  paste_on_current_line(t, p, clip).t \in Texts /\ paste_on_current_line(t, p, clip).cur \in Cells
<1> DEFINE n == Min({Len(clip), Cols - p[2] + 1})
           e == Min({p[2] + n, Cols})
           u == [q \in Cells |-> IF q[1] = p[1] /\ q[2] \in p[2] .. p[2] + n - 1 THEN clip[q[2] - p[2] + 1] ELSE t[q]]
<1>1. paste_on_current_line(t, p, clip) = [t |-> u, cur |-> <<p[1], e>>]
  BY Zenon DEF paste_on_current_line
<1>2. p[1] \in 1 .. Rows /\ p[2] \in 1 .. Cols /\ Cols \in Nat /\ Cols - p[2] + 1 \in Nat /\ Len(clip) \in Nat
  BY GridAssumption DEF Cells
<1>3. n \in Nat /\ n <= Len(clip) /\ n <= Cols - p[2] + 1
  <2> DEFINE a == Len(clip)
             b == Cols - p[2] + 1
  <2>1. a \in Nat /\ b \in Nat
    BY <1>2, Zenon
  <2> HIDE DEF a, b
  <2>2. Min({a, b}) = IF a <= b THEN a ELSE b
    BY <2>1, MinOfTwo, Zenon
  <2>3. n = Min({a, b})
    BY Zenon DEF a, b
  <2>4. n \in Nat /\ n <= a /\ n <= b
    BY <2>1, <2>2, <2>3
  <2> QED BY <2>4, Zenon DEF a, b
<1> HIDE DEF n
<1>4. e \in 1 .. Cols
  <2> DEFINE a == p[2] + n
  <2>1. a \in Nat /\ a >= 1
    BY <1>2, <1>3
  <2>2. e = Min({a, Cols})
    BY Zenon
  <2> HIDE DEF a, e
  <2>3. e = IF a <= Cols THEN a ELSE Cols
    BY <1>2, <2>1, <2>2, MinOfTwo, Zenon
  <2> QED BY <1>2, <2>1, <2>3
<1>5. u \in Texts
  <2>1. ASSUME NEW q \in Cells, q[1] = p[1], q[2] \in p[2] .. p[2] + n - 1 PROVE clip[q[2] - p[2] + 1] \in Chars
    <3> DEFINE a == q[2]
               b == p[2]
               l == Len(clip)
    <3>1. a \in b .. b + n - 1 /\ b \in Nat /\ l \in Nat /\ n \in Nat /\ n <= l
      BY <1>2, <1>3, <2>1
    <3> HIDE DEF a, b, l
    <3>2. a - b + 1 \in 1 .. l
      BY <3>1
    <3> QED BY <3>2 DEF a, b, l
  <2>2. \A q \in Cells : t[q] \in Chars
    BY Zenon DEF Texts
  <2> QED BY <2>1, <2>2, Zenon DEF Texts
<1> HIDE DEF u, e
<1> QED BY <1>1, <1>2, <1>4, <1>5 DEF Cells

(* What replace_all_occurrences adds from column i of a row on; f is what it adds further on. *)
Scanned(row, find, new, f, i) ==
  IF i > line_used_len(row) THEN <<>>
  ELSE IF str_contains_at_ci(row, i, find)
       THEN new \o (IF i + Len(find) > line_used_len(row) THEN <<>> ELSE f[i + Len(find)])
       ELSE <<row[i]>> \o f[i + 1]

(* These are characters, if what is added further on is. *)
LEMMA ScannedTyped ==
  ASSUME NEW row \in [1 .. Cols -> Chars], NEW find \in Seq(Chars), find # <<>>, NEW new \in Seq(Chars),
         NEW i \in 1 .. Cols + 1, NEW f, \A j \in i + 1 .. Cols + 1 : f[j] \in Seq(Chars)
  PROVE  Scanned(row, find, new, f, i) \in Seq(Chars)
<1> DEFINE used == line_used_len(row)
           n == Len(find)
<1>1. used \in 0 .. Cols /\ Cols \in Nat /\ n \in Nat \ {0}
  BY UsedLen, GridAssumption
<1>2. <<>> \in Seq(Chars)
  OBVIOUS
<1>3. CASE i > used
  BY <1>2, <1>3, Zenon DEF Scanned
<1>4. CASE ~(i > used) /\ str_contains_at_ci(row, i, find)
  <2> DEFINE rest == IF i + n > used THEN <<>> ELSE f[i + n]
  <2>1. rest \in Seq(Chars)
    <3>1. CASE i + n > used
      BY <1>2, <3>1, Zenon
    <3>2. CASE ~(i + n > used)
      <4>1. i + n \in i + 1 .. Cols + 1
        BY <1>1, <3>2
      <4> QED BY <3>2, <4>1, Zenon
    <3> QED BY <3>1, <3>2, Zenon
  <2>2. Scanned(row, find, new, f, i) = new \o rest
    BY <1>4, Zenon DEF Scanned
  <2> HIDE DEF rest
  <2> QED BY <2>1, <2>2, ConcatIs
<1>5. CASE ~(i > used) /\ ~str_contains_at_ci(row, i, find)
  <2>1. i \in 1 .. Cols /\ i + 1 \in i + 1 .. Cols + 1
    BY <1>1, <1>5
  <2>2. <<row[i]>> \in Seq(Chars) /\ f[i + 1] \in Seq(Chars)
    BY <2>1
  <2>3. Scanned(row, find, new, f, i) = <<row[i]>> \o f[i + 1]
    BY <1>5, Zenon DEF Scanned
  <2> QED BY <2>2, <2>3, ConcatIs
<1> QED BY <1>3, <1>4, <1>5, Zenon

(* And depend on nothing else. *)
LEMMA ScannedSame ==
  ASSUME NEW row \in [1 .. Cols -> Chars], NEW find \in Seq(Chars), find # <<>>, NEW new,
         NEW i \in 1 .. Cols + 1, NEW f, NEW h, \A j \in i + 1 .. Cols + 1 : f[j] = h[j]
  PROVE  Scanned(row, find, new, f, i) = Scanned(row, find, new, h, i)
<1> DEFINE used == line_used_len(row)
           n == Len(find)
<1>1. used \in 0 .. Cols /\ Cols \in Nat /\ n \in Nat \ {0}
  BY UsedLen, GridAssumption
<1>2. ~(i > used) => i + 1 \in i + 1 .. Cols + 1
  BY <1>1
<1>3. ~(i + n > used) => i + n \in i + 1 .. Cols + 1
  BY <1>1
<1>4. ~(i > used) => f[i + 1] = h[i + 1]
  BY <1>2, Zenon
<1>5. ~(i + n > used) => f[i + n] = h[i + n]
  BY <1>3, Zenon
<1> QED BY <1>4, <1>5, Zenon DEF Scanned

(* A replacement leaves a row. *)
LEMMA ReplaceRowTyped ==
  ASSUME NEW row \in [1 .. Cols -> Chars], NEW find \in Seq(Chars), find # <<>>, NEW new \in Seq(Chars)
  PROVE  ReplaceRow(row, find, new) \in [1 .. Cols -> Chars]
<1> DEFINE B(f, i) == Scanned(row, find, new, f, i)
           E(f) == [i \in 1 .. Cols + 1 |-> B(f, i)]
           scan == CHOOSE f : f = E(f)
           Ok(k, f) == \A i \in (Cols + 1) - k .. Cols + 1 : f[i] \in Seq(Chars) /\ f[i] = B(f, i)
<1>1. ReplaceRow(row, find, new) = Pad(scan[1])
  BY Zenon DEF ReplaceRow, Scanned
<1>2. Cols \in Nat
  BY GridAssumption, Zenon
<1>3. \A k \in 0 .. Cols : \E f : Ok(k, f)
  <2> DEFINE Bad == {k \in 0 .. Cols : ~\E f : Ok(k, f)}
  <2>1. SUFFICES ASSUME Bad # {} PROVE FALSE
    BY Zenon
  <2>2. PICK m \in Bad : \A j \in Bad : m <= j
    <3>1. Bad \in SUBSET Nat
      BY <1>2
    <3> HIDE DEF Bad
    <3> QED BY <2>1, <3>1, Smallest, Zenon
  <2>3. m # 0
    <3> DEFINE f == [i \in 1 .. Cols + 1 |-> <<>>]
    <3>1. ASSUME NEW i \in (Cols + 1) - 0 .. Cols + 1 PROVE f[i] \in Seq(Chars) /\ f[i] = B(f, i)
      <4>1. i = Cols + 1 /\ i \in 1 .. Cols + 1 /\ line_used_len(row) \in 0 .. Cols
        BY <1>2, UsedLen
      <4>2. i > line_used_len(row)
        BY <1>2, <4>1
      <4>3. f[i] = <<>>
        BY <4>1, Zenon
      <4>4. B(f, i) = <<>>
        BY <4>2, Zenon DEF Scanned
      <4>5. <<>> \in Seq(Chars)
        OBVIOUS
      <4> HIDE DEF B, f
      <4> QED BY <4>3, <4>4, <4>5, Zenon
    <3>2. Ok(0, f)
      BY <3>1, Zenon
    <3> HIDE DEF Ok, f
    <3> QED BY <3>2, Zenon
  <2>4. m \in 1 .. Cols /\ m - 1 \in 0 .. Cols /\ m - 1 \notin Bad
    <3>1. m \in 0 .. Cols
      BY Zenon
    <3> HIDE DEF Bad
    <3> QED BY <1>2, <2>2, <2>3, <3>1
  <2>5. PICK f : Ok(m - 1, f)
    BY <2>4, Zenon
  <2> DEFINE lo == (Cols + 1) - m
             h == [i \in lo .. Cols + 1 |-> IF i = lo THEN B(f, lo) ELSE f[i]]
  <2>6. lo \in 1 .. Cols /\ lo + 1 = (Cols + 1) - (m - 1)
    BY <1>2, <2>4
  <2>7. \A i \in lo + 1 .. Cols + 1 : f[i] \in Seq(Chars) /\ f[i] = B(f, i)
    BY <2>5, <2>6, Zenon
  <2> HIDE DEF Ok, B
  <2>8. \A i \in lo + 1 .. Cols + 1 : h[i] = f[i]
    BY <2>6, <1>2
  <2>9. h[lo] = B(f, lo)
    BY <2>6, <1>2
  <2> HIDE DEF h, lo, Bad
  <2>10. ASSUME NEW i \in lo .. Cols + 1 PROVE h[i] \in Seq(Chars) /\ h[i] = B(h, i)
    <3>1. i \in 1 .. Cols + 1 /\ \A j \in i + 1 .. Cols + 1 : j \in lo + 1 .. Cols + 1
      BY <1>2, <2>6
    <3>2. \A j \in i + 1 .. Cols + 1 : f[j] = h[j] /\ f[j] \in Seq(Chars)
      BY <2>7, <2>8, <3>1, Zenon
    <3>3. B(f, i) = B(h, i)
      BY <3>1, <3>2, ScannedSame DEF B
    <3>4. B(f, i) \in Seq(Chars)
      BY <3>1, <3>2, ScannedTyped, Zenon DEF B
    <3>5. h[i] = B(f, i)
      <4>1. CASE i = lo
        BY <2>9, <4>1, Zenon
      <4>2. CASE i # lo
        <5>1. i \in lo + 1 .. Cols + 1
          BY <1>2, <2>6, <4>2
        <5> QED BY <2>7, <2>8, <5>1, Zenon
      <4> QED BY <4>1, <4>2, Zenon
    <3> QED BY <3>3, <3>4, <3>5, Zenon
  <2>11. Ok(m, h)
    BY <2>10, Zenon DEF Ok, lo
  <2> QED BY <2>11, Zenon DEF Bad
<1> HIDE DEF B
<1>4. scan = E(scan)
  <2>1. Cols \in 0 .. Cols /\ (Cols + 1) - Cols = 1
    BY <1>2
  <2>2. PICK f : Ok(Cols, f)
    BY <1>3, <2>1, Zenon
  <2>3. \A i \in 1 .. Cols + 1 : f[i] = B(f, i) /\ f[i] \in Seq(Chars)
    BY <2>1, <2>2, Zenon
  <2> DEFINE F == [i \in 1 .. Cols + 1 |-> f[i]]
  <2>4. ASSUME NEW i \in 1 .. Cols + 1 PROVE F[i] = B(F, i)
    <3>1. \A j \in i + 1 .. Cols + 1 : f[j] = F[j]
      BY <1>2
    <3>2. B(f, i) = B(F, i)
      <4> HIDE DEF F
      <4> QED BY <3>1, ScannedSame DEF B
    <3> QED BY <2>3, <3>2, Zenon
  <2>5. F = E(F)
    BY <2>4, Zenon
  <2> QED BY <2>5, Zenon
<1> HIDE DEF scan
<1>5. \A i \in 1 .. Cols + 1 : scan[i] = B(scan, i)
  BY <1>4, Zenon
<1> HIDE DEF E, Ok
<1>6. \A k \in 0 .. Cols : scan[(Cols + 1) - k] \in Seq(Chars)
  <2> DEFINE Bad == {k \in 0 .. Cols : scan[(Cols + 1) - k] \notin Seq(Chars)}
  <2>1. SUFFICES ASSUME Bad # {} PROVE FALSE
    BY Zenon
  <2>2. PICK m \in Bad : \A j \in Bad : m <= j
    <3>1. Bad \in SUBSET Nat
      BY <1>2
    <3> HIDE DEF Bad
    <3> QED BY <2>1, <3>1, Smallest, Zenon
  <2> DEFINE i == (Cols + 1) - m
  <2>3. i \in 1 .. Cols + 1 /\ m \in 0 .. Cols
    BY <1>2
  <2>4. ASSUME NEW j \in i + 1 .. Cols + 1 PROVE scan[j] \in Seq(Chars)
    <3> DEFINE k == (Cols + 1) - j
    <3>1. k \in 0 .. Cols /\ k < m /\ (Cols + 1) - k = j
      BY <1>2, <2>3
    <3>2. k \notin Bad
      <4> HIDE DEF k, Bad
      <4> QED BY <2>2, <2>3, <3>1
    <3> QED BY <3>1, <3>2, Zenon
  <2>5. B(scan, i) \in Seq(Chars)
    <3> HIDE DEF i, Bad
    <3> QED BY <2>3, <2>4, ScannedTyped, Zenon DEF B
  <2>6. scan[i] \in Seq(Chars)
    BY <1>5, <2>3, <2>5, Zenon
  <2> QED BY <2>6, Zenon
<1>7. scan[1] \in Seq(Chars)
  <2>1. Cols \in 0 .. Cols /\ (Cols + 1) - Cols = 1
    BY <1>2
  <2> QED BY <1>6, <2>1, Zenon
<1> QED BY <1>1, <1>7 DEF Pad, Chars

(* Replacements leave a text. *)
LEMMA ReplaceTyped ==
  ASSUME NEW t \in Texts, NEW find \in Seq(Chars), find # <<>>, NEW new \in Seq(Chars)
  PROVE  replace_all_occurrences(t, find, new) \in Texts
<1>1. ASSUME NEW p \in Cells PROVE ReplaceRow(Row(t, p[1]), find, new)[p[2]] \in Chars /\ t[p] \in Chars
  <2>1. p[1] \in 1 .. Rows /\ p[2] \in 1 .. Cols
    BY Zenon DEF Cells
  <2>2. ReplaceRow(Row(t, p[1]), find, new) \in [1 .. Cols -> Chars]
    BY <2>1, RowTyped, ReplaceRowTyped, Zenon
  <2> QED BY <2>1, <2>2, Zenon DEF Texts
<1> QED BY <1>1, Zenon DEF replace_all_occurrences, Texts
-----------------------------------------------------------------------------
(* The display. *)

(* d is s with the cell p as it is in t, and the highlighted cells l. *)
Updated(d, s, t, p, l) ==
  d \in Screens /\ d.text = [s.text EXCEPT ![p] = t[p]] /\ d.lit = l /\ d.over = s.over

(* draw_cell brings one cell up to date: with the cursor *)
LEMMA DrawOn ==
  ASSUME NEW s \in Screens, NEW t \in Texts, NEW p \in Cells
  PROVE  Updated(draw_cell(s, t, p, TRUE), s, t, p, s.lit \cup {p})
<1> DEFINE a == [s EXCEPT !.text[p] = t[p]]
           d == draw_cell(s, t, p, TRUE)
           u == [s.text EXCEPT ![p] = t[p]]
           l == s.lit \cup {p}
<1>1. d = [a EXCEPT !.lit = IF TRUE THEN @ \cup {p} ELSE @ \ {p}]
  BY Zenon DEF draw_cell
<1>2. s = [text |-> s.text, lit |-> s.lit, over |-> s.over] /\ s.text \in Texts /\ s.lit \in SUBSET Cells /\ s.over \in BOOLEAN
  BY Zenon DEF Screens
<1>3. a = [text |-> u, lit |-> s.lit, over |-> s.over]
  BY <1>2
<1>4. u \in Texts /\ l \in SUBSET Cells
  BY <1>2, Zenon DEF Texts
<1> HIDE DEF a, u
<1>5. d = [text |-> u, lit |-> l, over |-> s.over]
  BY <1>1, <1>3, Zenon
<1> HIDE DEF d, l
<1>6. d \in Screens /\ d.text = u /\ d.lit = l /\ d.over = s.over
  BY <1>2, <1>4, <1>5, Zenon DEF Screens
<1> QED BY <1>6, Zenon DEF d, u, l, Updated

(* and without it. *)
LEMMA DrawOff ==
  ASSUME NEW s \in Screens, NEW t \in Texts, NEW p \in Cells
  PROVE  Updated(draw_cell(s, t, p, FALSE), s, t, p, s.lit \ {p})
<1> DEFINE a == [s EXCEPT !.text[p] = t[p]]
           d == draw_cell(s, t, p, FALSE)
           u == [s.text EXCEPT ![p] = t[p]]
           l == s.lit \ {p}
<1>1. d = [a EXCEPT !.lit = IF FALSE THEN @ \cup {p} ELSE @ \ {p}]
  BY Zenon DEF draw_cell
<1>2. s = [text |-> s.text, lit |-> s.lit, over |-> s.over] /\ s.text \in Texts /\ s.lit \in SUBSET Cells /\ s.over \in BOOLEAN
  BY Zenon DEF Screens
<1>3. a = [text |-> u, lit |-> s.lit, over |-> s.over]
  BY <1>2
<1>4. u \in Texts /\ l \in SUBSET Cells
  BY <1>2, Zenon DEF Texts
<1> HIDE DEF a, u
<1>5. d = [text |-> u, lit |-> l, over |-> s.over]
  BY <1>1, <1>3, Zenon
<1> HIDE DEF d, l
<1>6. d \in Screens /\ d.text = u /\ d.lit = l /\ d.over = s.over
  BY <1>2, <1>4, <1>5, Zenon DEF Screens
<1> QED BY <1>6, Zenon DEF d, u, l, Updated

(* A full repaint shows the text and the cursor. *)
LEMMA Painted ==
  ASSUME NEW t \in Texts, NEW p \in Cells, NEW over \in BOOLEAN
  PROVE  LET s == draw_cell(draw_base_ui(t, over), t, p, TRUE) IN
           s \in Screens /\ s.text = t /\ s.lit = {p} /\ s.over = over
<1> DEFINE b == draw_base_ui(t, over)
<1>1. b \in Screens /\ b.text = t /\ b.lit = {} /\ b.over = over
  BY Zenon DEF draw_base_ui, Screens
<1>2. [t EXCEPT ![p] = t[p]] = t
  BY Zenon DEF Texts
<1> HIDE DEF b
<1> DEFINE s == draw_cell(b, t, p, TRUE)
<1>3. s \in Screens /\ s.text = [t EXCEPT ![p] = t[p]] /\ s.lit = {} \cup {p} /\ s.over = over
  <2>1. s \in Screens /\ s.text = [b.text EXCEPT ![p] = t[p]] /\ s.lit = b.lit \cup {p} /\ s.over = b.over
    <3>1. Updated(s, b, t, p, b.lit \cup {p})
      BY <1>1, DrawOn, Zenon
    <3> QED BY <3>1, Zenon DEF Updated
  <2> HIDE DEF s
  <2> QED BY <1>1, <2>1, Zenon
<1> HIDE DEF s
<1>4. s \in Screens /\ s.text = t /\ s.lit = {p} /\ s.over = over
  BY <1>2, <1>3, Zenon
<1> QED BY <1>4, Zenon DEF s, b

(* A menu or dialog comes over what there is. *)
LEMMA Covered ==
  ASSUME NEW s \in Screens
  PROVE  /\ draw_menu_overlay(s) \in Screens /\ draw_menu_overlay(s).over = TRUE
         /\ draw_dialog_frame(s) \in Screens /\ draw_dialog_frame(s).over = TRUE
BY Zenon DEF draw_menu_overlay, draw_dialog_frame, Screens
=============================================================================
