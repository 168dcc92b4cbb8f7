--------------------------- MODULE CJsonPrintProofs ---------------------------
(***************************************************************************)
(* Printing stays within its buffer, for every tree and every size.        *)
(***************************************************************************)
EXTENDS CJsonDocumentProofs

-----------------------------------------------------------------------------
(* The characters of a sequence of lexemes *)

\* The characters of the first i lexemes of xs, for each i.
WidthsUpTo(g, xs, n) == g[0] = 0 /\ \A i \in 0..n-1 : g[i + 1] = g[i] + Width(xs[i + 1])

\* A lexeme has a number of characters.
LEMMA WidthIsNat ==
    ASSUME NEW x \in Printable
    PROVE  Width(x) \in Nat
  <1>1. CASE x \in Strings
    <2>1. Length[x] \in Nat
      BY <1>1, PrintAssumption
    <2> QED
      BY <1>1, <2>1 DEF Width
  <1>2. CASE x \notin Strings /\ x \in NumberLexemes
    <2>1. Length[x] \in Nat
      BY <1>2, PrintAssumption
    <2> QED
      BY <1>2, <2>1 DEF Width
  <1>3. CASE x \notin Strings /\ x \notin NumberLexemes
    BY <1>3 DEF Width
  <1> QED
    BY <1>1, <1>2, <1>3

\* The lexemes of one character, and others that are printed as they are.
Characters == {"[", "]", "{", "}", ",", ":", "ws", "raw"}
Marks == Characters \cup {"empty", "null", "true", "false"}

\* The widths of single lexemes.
LEMMA FixedWidths ==
    /\ \A x \in Characters : Width(x) = 1
    /\ Width("empty") = 2
    /\ Width("null") = 4 /\ Width("true") = 4 /\ Width("false") = 5
    /\ \A s \in Strings : Width(s) = Length[s] + 2 /\ Length[s] \in Nat
  BY PrintAssumption DEF Width, Literals, Characters

\* Every sequence has such a function.
LEMMA WidthsExist ==
    ASSUME NEW xs, NEW n \in Nat
    PROVE  \E g : g \in [0..n -> {g[i] : i \in 0..n}] /\ WidthsUpTo(g, xs, n)
  <1> DEFINE Good == {m \in Nat : \E g : g = [i \in 0..m |-> g[i]] /\ WidthsUpTo(g, xs, m)}
  <1>1. 0 \in Good
    <2> DEFINE k == [i \in 0..0 |-> 0]
    <2>1. k = [i \in 0..0 |-> k[i]] /\ k[0] = 0 /\ 0..0-1 = {}
      OBVIOUS
    <2> HIDE DEF k
    <2>2. WidthsUpTo(k, xs, 0)
      BY <2>1 DEF WidthsUpTo
    <2> QED
      BY <2>1, <2>2
  <1>2. ASSUME NEW m \in Nat, m \in Good PROVE m + 1 \in Good
    <2>1. PICK g : WidthsUpTo(g, xs, m)
      BY <1>2
    <2> DEFINE next == g[m] + Width(xs[m + 1])
               k == [i \in 0..m+1 |-> IF i = m + 1 THEN next ELSE g[i]]
    <2>2. k[0] = 0
      BY <2>1 DEF WidthsUpTo
    <2>3. ASSUME NEW i \in 0..m PROVE k[i + 1] = k[i] + Width(xs[i + 1])
      <3>1. i \in 0..m+1 /\ i + 1 \in 0..m+1 /\ i # m + 1 /\ (i + 1 = m + 1 <=> i = m)
        OBVIOUS
      <3>2. k[i] = g[i] /\ k[i + 1] = IF i = m THEN next ELSE g[i + 1]
        BY <3>1
      <3>3. i # m => i \in 0..m-1
        OBVIOUS
      <3>4. i # m => g[i + 1] = g[i] + Width(xs[i + 1])
        BY <2>1, <3>3 DEF WidthsUpTo
      <3> HIDE DEF k
      <3> QED
        BY <3>2, <3>4
    <2>4. (m + 1) - 1 = m
      OBVIOUS
    <2>5. k = [i \in 0..m+1 |-> k[i]]
      OBVIOUS
    <2> HIDE DEF k
    <2>6. WidthsUpTo(k, xs, m + 1)
      BY <2>2, <2>3, <2>4 DEF WidthsUpTo
    <2> QED
      BY <2>5, <2>6
  <1> HIDE DEF Good
  <1>3. n \in Good
    BY <1>1, <1>2, UpTo
  <1>4. PICK g : g = [i \in 0..n |-> g[i]] /\ WidthsUpTo(g, xs, n)
    BY <1>3 DEF Good
  <1>5. g \in [0..n -> {g[i] : i \in 0..n}]
    BY <1>4
  <1> QED
    BY <1>4, <1>5

\* The definition of Widths, without its local function.
LEMMA WidthsOf ==
    ASSUME NEW xs, Len(xs) \in Nat
    PROVE  \E g : WidthsUpTo(g, xs, Len(xs)) /\ Widths(xs) = g[Len(xs)]
  <1> DEFINE n == Len(xs)
             Is(g) == g = [i \in 0..n |-> IF i = 0 THEN 0 ELSE g[i - 1] + Width(xs[i])]
             to == CHOOSE g : Is(g)
  <1>1. PICK g : g \in [0..n -> {g[i] : i \in 0..n}] /\ WidthsUpTo(g, xs, n)
    BY WidthsExist
  <1>2. Is(g)
    <2>1. ASSUME NEW i \in 0..n PROVE g[i] = IF i = 0 THEN 0 ELSE g[i - 1] + Width(xs[i])
      <3>1. i # 0 => i - 1 \in 0..n-1 /\ (i - 1) + 1 = i
        OBVIOUS
      <3> QED
        BY <1>1, <3>1 DEF WidthsUpTo
    <2>2. g = [i \in 0..n |-> g[i]]
      BY <1>1
    <2> QED
      BY <2>1, <2>2
  <1>3. Is(to)
    BY <1>2
  <1>4. Widths(xs) = to[n]
    BY DEF Widths
  <1> HIDE DEF to
  <1>5. WidthsUpTo(to, xs, n)
    <2>1. \A i \in 0..n : to[i] = IF i = 0 THEN 0 ELSE to[i - 1] + Width(xs[i])
      BY <1>3
    <2>2. to[0] = 0
      BY <2>1
    <2>3. ASSUME NEW i \in 0..n-1 PROVE to[i + 1] = to[i] + Width(xs[i + 1])
      <3>1. i + 1 \in 0..n /\ i + 1 # 0 /\ (i + 1) - 1 = i
        OBVIOUS
      <3> QED
        BY <2>1, <3>1
    <2> QED
      BY <2>2, <2>3 DEF WidthsUpTo
  <1> QED
    BY <1>4, <1>5

\* The characters of a sequence are counted in numbers.
LEMMA WidthsAreNat ==
    ASSUME NEW xs \in Seq(Printable), NEW g, WidthsUpTo(g, xs, Len(xs))
    PROVE  \A i \in 0..Len(xs) : g[i] \in Nat
  <1> DEFINE n == Len(xs)
             Good == {i \in 0..n : g[i] \in Nat}
  <1>1. n \in Nat /\ \A i \in 1..n : xs[i] \in Printable
    OBVIOUS
  <1>2. 0 \in Good
    BY <1>1 DEF WidthsUpTo
  <1>3. ASSUME NEW i \in 0..n-1, i \in Good PROVE i + 1 \in Good
    <2>1. i + 1 \in 0..n /\ Width(xs[i + 1]) \in Nat /\ g[i] \in Nat
      BY <1>1, <1>3, WidthIsNat
    <2>2. g[i + 1] = g[i] + Width(xs[i + 1])
      BY <1>3 DEF WidthsUpTo
    <2> QED
      BY <2>1, <2>2
  <1> HIDE DEF Good
  <1>4. 0..n \subseteq Good
    BY <1>1, <1>2, <1>3, UpTo
  <1> QED
    BY <1>4 DEF Good

\* What is printed behind something else adds its characters.
LEMMA WidthsAdd ==
    ASSUME NEW xs \in Seq(Printable), NEW ys \in Seq(Printable)
    PROVE  /\ Widths(xs) \in Nat /\ Widths(ys) \in Nat
           /\ Widths(xs \o ys) = Widths(xs) + Widths(ys)
  <1> DEFINE zs == xs \o ys
             m == Len(xs)
             n == Len(ys)
  <1>1. /\ m \in Nat /\ n \in Nat /\ zs \in Seq(Printable) /\ Len(zs) = m + n
        /\ \A i \in 1..m : zs[i] = xs[i]
        /\ \A i \in 1..n : zs[m + i] = ys[i]
    <2>1. m \in Nat /\ n \in Nat /\ zs \in Seq(Printable) /\ Len(zs) = m + n
      OBVIOUS
    <2>2. \A i \in 1..m : zs[i] = xs[i]
      OBVIOUS
    <2>3. \A i \in 1..n : zs[m + i] = ys[i]
      OBVIOUS
    <2> QED
      BY <2>1, <2>2, <2>3
  <1>2. PICK f : WidthsUpTo(f, xs, m) /\ Widths(xs) = f[m]
    BY <1>1, WidthsOf
  <1>3. PICK g : WidthsUpTo(g, ys, n) /\ Widths(ys) = g[n]
    BY <1>1, WidthsOf
  <1> HIDE DEF zs
  <1>4. \E k : WidthsUpTo(k, zs, m + n) /\ Widths(zs) = k[m + n]
    <2>1. Len(zs) \in Nat /\ Len(zs) = m + n
      BY <1>1
    <2>2. PICK k : WidthsUpTo(k, zs, Len(zs)) /\ Widths(zs) = k[Len(zs)]
      BY <2>1, WidthsOf
    <2>3. WidthsUpTo(k, zs, m + n) /\ Widths(zs) = k[m + n]
      BY <2>1, <2>2
    <2> QED
      BY <2>3
  <1>5. PICK k : WidthsUpTo(k, zs, m + n) /\ Widths(zs) = k[m + n]
    BY <1>4
  <1>6. (\A i \in 0..m : f[i] \in Nat) /\ (\A i \in 0..n : g[i] \in Nat)
    BY <1>2, <1>3, WidthsAreNat
  <1> HIDE DEF m, n
  <1>7. k[m] = f[m]
    <2> DEFINE Good == {i \in 0..m : k[i] = f[i]}
    <2>1. 0 \in Good
      BY <1>1, <1>2, <1>5 DEF WidthsUpTo
    <2>2. ASSUME NEW i \in 0..m-1, i \in Good PROVE i + 1 \in Good
      <3>1. i \in 0..(m + n)-1 /\ i + 1 \in 1..m /\ i + 1 \in 0..m
        BY <1>1
      <3>2. k[i + 1] = k[i] + Width(zs[i + 1]) /\ f[i + 1] = f[i] + Width(xs[i + 1])
        BY <1>2, <1>5, <2>2, <3>1 DEF WidthsUpTo
      <3> QED
        BY <1>1, <2>2, <3>1, <3>2
    <2> HIDE DEF Good
    <2>3. 0..m \subseteq Good
      BY <1>1, <2>1, <2>2, UpTo
    <2>4. m \in 0..m
      BY <1>1
    <2> QED
      BY <2>3, <2>4 DEF Good
  <1>8. k[m + n] = f[m] + g[n]
    <2> DEFINE Good == {i \in 0..n : k[m + i] = f[m] + g[i]}
    <2>1. 0 \in Good
      BY <1>1, <1>3, <1>6, <1>7 DEF WidthsUpTo
    <2>2. ASSUME NEW i \in 0..n-1, i \in Good PROVE i + 1 \in Good
      <3>1. m + i \in 0..(m + n)-1 /\ i + 1 \in 1..n /\ i + 1 \in 0..n /\ m + (i + 1) = (m + i) + 1
            /\ f[m] \in Nat /\ g[i] \in Nat
        BY <1>1, <1>6
      <3>2. k[m + i + 1] = k[m + i] + Width(zs[m + i + 1]) /\ g[i + 1] = g[i] + Width(ys[i + 1])
        BY <1>3, <1>5, <2>2, <3>1 DEF WidthsUpTo
      <3>3. zs[m + (i + 1)] = ys[i + 1] /\ ys[i + 1] \in Printable
        BY <1>1, <3>1, SMTT(30) DEF n
      <3>4. Width(ys[i + 1]) \in Nat
        BY <3>3, WidthIsNat
      <3>5. k[m + (i + 1)] = f[m] + g[i + 1]
        BY <2>2, <3>1, <3>2, <3>3, <3>4
      <3> QED
        BY <3>1, <3>5
    <2> HIDE DEF Good
    <2>3. 0..n \subseteq Good
      BY <1>1, <2>1, <2>2, UpTo
    <2>4. n \in 0..n
      BY <1>1
    <2> QED
      BY <2>3, <2>4 DEF Good
  <1>9. f[m] \in Nat /\ g[n] \in Nat
    BY <1>1, <1>6
  <1> QED
    BY <1>2, <1>3, <1>5, <1>8, <1>9 DEF zs

\* n characters that are all the same.
Repeated(x, n) == [i \in 1..n |-> x]

\* Nothing has no characters, a lexeme its own, n blanks have n.
LEMMA WidthsFew ==
    /\ Widths(<<>>) = 0
    /\ \A x \in Printable : Widths(<<x>>) = Width(x)
    /\ \A n \in Nat, x \in Characters :
         Repeated(x, n) \in Seq(Printable) /\ Widths(Repeated(x, n)) = n
    /\ \A n \in Nat : Blanks(n) \in Seq(Printable) /\ Widths(Blanks(n)) = n
  <1>1. Widths(<<>>) = 0
    <2>1. PICK g : WidthsUpTo(g, <<>>, 0) /\ Widths(<<>>) = g[0]
      BY WidthsOf
    <2> QED
      BY <2>1 DEF WidthsUpTo
  <1>2. ASSUME NEW x \in Printable PROVE Widths(<<x>>) = Width(x)
    <2>1. PICK g : WidthsUpTo(g, <<x>>, 1) /\ Widths(<<x>>) = g[1]
      <3>1. Len(<<x>>) = 1
        OBVIOUS
      <3> QED
        BY <3>1, WidthsOf
    <2>2. g[0] = 0 /\ g[0 + 1] = g[0] + Width(<<x>>[0 + 1])
      BY <2>1 DEF WidthsUpTo
    <2>3. Width(x) \in Nat
      BY WidthIsNat
    <2> QED
      BY <2>1, <2>2, <2>3
  <1>3. ASSUME NEW n \in Nat, NEW x \in Characters
        PROVE  Repeated(x, n) \in Seq(Printable) /\ Widths(Repeated(x, n)) = n
    <2> DEFINE xs == Repeated(x, n)
    <2>1. /\ xs \in Seq(Printable) /\ Len(xs) = n /\ \A i \in 1..n : xs[i] = x
      <3>1. x \in Printable
        BY DEF Printable, Lexemes, Characters
      <3>2. [i \in 1..n |-> x] \in Seq({x}) /\ Len([i \in 1..n |-> x]) = n
        OBVIOUS
      <3>3. Seq({x}) \subseteq Seq(Printable)
        BY <3>1
      <3> QED
        BY <3>2, <3>3 DEF Repeated
    <2> HIDE DEF xs
    <2>2. PICK g : WidthsUpTo(g, xs, n) /\ Widths(xs) = g[n]
      BY <2>1, WidthsOf
    <2> DEFINE Good == {i \in 0..n : g[i] = i}
    <2>3. 0 \in Good
      BY <2>2 DEF WidthsUpTo
    <2>4. ASSUME NEW i \in 0..n-1, i \in Good PROVE i + 1 \in Good
      <3>1. i + 1 \in 1..n /\ g[i + 1] = g[i] + Width(xs[i + 1])
        BY <2>2, <2>4 DEF WidthsUpTo
      <3>2. Width(xs[i + 1]) = 1
        <4>1. xs[i + 1] \in Characters
          BY <2>1, <3>1
        <4> QED
          BY <4>1, FixedWidths
      <3> QED
        BY <2>4, <3>1, <3>2
    <2> HIDE DEF Good
    <2>5. 0..n \subseteq Good
      BY <2>3, <2>4, UpTo
    <2>6. g[n] = n
      BY <2>5 DEF Good
    <2> QED
      BY <2>1, <2>2, <2>6 DEF xs
  <1>4. \A n : Blanks(n) = Repeated("ws", n) /\ "ws" \in Characters
    BY DEF Blanks, Repeated, Characters
  <1> QED
    BY <1>1, <1>2, <1>3, <1>4

-----------------------------------------------------------------------------
(* What is written into a buffer *)

\* The characters in a buffer, without the terminator.
Total(p) == p.offset + Widths(p.ahead)

\* Nothing was written past the end, the offset is where the text ends, and what
\* was written fits; a buffer of the call's own is counted until it is freed.
Safe(p) ==
    /\ p \in PrintBuffers /\ ~p.overrun
    /\ p.offset = Widths(p.text)
    /\ p.buffers = IF p.buffer /\ ~p.noalloc THEN 1 ELSE 0
    /\ p.ok => p.buffer /\ Total(p) + (IF p.nul THEN 1 ELSE 0) <= p.length

\* The offset has passed over what was written.
Clear(p) == p.ok => p.ahead = <<>>

\* Printing goes from p to r.
Prints(p, r) ==
    /\ Safe(r)
    /\ r.noalloc = p.noalloc /\ r.format = p.format /\ (r.noalloc => r.length = p.length)
    /\ r.ok => p.ok /\ r.depth = p.depth /\ p.offset <= Total(r)

\* What a safe buffer has.
LEMMA SafeFields ==
    ASSUME NEW p, Safe(p)
    PROVE  /\ p \in PrintBuffers /\ p.overrun = FALSE
           /\ p.text \in Seq(Printable) /\ p.ahead \in Seq(Printable)
           /\ p.offset \in Nat /\ p.length \in Nat /\ p.depth \in Int /\ p.mem \in Nat
           /\ p.nul \in BOOLEAN /\ p.noalloc \in BOOLEAN /\ p.format \in BOOLEAN
           /\ p.buffer \in BOOLEAN /\ p.ok \in BOOLEAN /\ p.buffers \in Int
           /\ p.offset = Widths(p.text)
           /\ Widths(p.ahead) \in Nat /\ Total(p) \in Nat /\ p.offset <= Total(p)
           /\ (p.ahead = <<>> => Total(p) = p.offset)
  <1>1. /\ p \in PrintBuffers /\ p.overrun = FALSE
        /\ p.text \in Seq(Printable) /\ p.ahead \in Seq(Printable)
        /\ p.offset \in Nat /\ p.length \in Nat /\ p.depth \in Int /\ p.mem \in Nat
        /\ p.nul \in BOOLEAN /\ p.noalloc \in BOOLEAN /\ p.format \in BOOLEAN
        /\ p.buffer \in BOOLEAN /\ p.ok \in BOOLEAN /\ p.buffers \in Int
        /\ p.offset = Widths(p.text)
    BY DEF Safe, PrintBuffers
  <1>2. Widths(p.ahead) \in Nat
    BY <1>1, WidthsAdd
  <1>3. p.ahead = <<>> => Widths(p.ahead) = 0
    BY WidthsFew
  <1> QED
    BY <1>1, <1>2, <1>3 DEF Total

\* Printing in two steps is printing.
LEMMA PrintsOn ==
    ASSUME NEW p, NEW q, NEW r, Safe(p), Prints(p, q), Clear(q), Prints(q, r)
    PROVE  Prints(p, r)
  <1>1. Safe(q) /\ Safe(r)
    BY DEF Prints
  <1>2. r.ok => p.offset <= Total(q) /\ Total(q) = q.offset /\ q.offset <= Total(r)
    BY <1>1, SafeFields DEF Prints, Clear
  <1>3. /\ p.offset \in Nat /\ q.offset \in Nat /\ Total(q) \in Nat
        /\ Total(r) \in Nat
    BY <1>1, SafeFields
  <1>4. r.ok => p.offset <= Total(r)
    BY <1>2, <1>3
  <1> QED
    BY <1>1, <1>4 DEF Prints

\* Printing nothing.
LEMMA PrintsNothing ==
    ASSUME NEW p, Safe(p)
    PROVE  Prints(p, p)
  BY SafeFields DEF Prints

\* A call that stops.
LEMMA PrintStops ==
    ASSUME NEW p, Safe(p)
    PROVE  Prints(p, Fail(p)) /\ Fail(p).ok = FALSE
  <1>1. /\ Fail(p) \in PrintBuffers /\ Fail(p).ok = FALSE
        /\ Fail(p).overrun = p.overrun /\ Fail(p).offset = p.offset /\ Fail(p).text = p.text
        /\ Fail(p).buffer = p.buffer /\ Fail(p).buffers = p.buffers /\ Fail(p).noalloc = p.noalloc
        /\ Fail(p).format = p.format /\ Fail(p).length = p.length
    BY DEF Safe, PrintBuffers, Fail
  <1> QED
    BY <1>1 DEF Prints, Safe

\* What ensure returns.
LEMMA Ensured ==
    ASSUME NEW p, Safe(p), NEW n, p.ok => n \in Nat
    PROVE  /\ Prints(p, ensure(p, n))
           /\ ensure(p, n).ok => /\ ensure(p, n).text = p.text /\ ensure(p, n).offset = p.offset
                                 /\ p.offset + n + 1 <= ensure(p, n).length
  <1> DEFINE r == ensure(p, n)
             all == n + p.offset + 1
  <1>0. /\ p \in PrintBuffers /\ p.overrun = FALSE /\ p.offset \in Nat /\ p.length \in Nat
        /\ p.noalloc \in BOOLEAN /\ p.ok \in BOOLEAN /\ p.buffer \in BOOLEAN /\ p.mem \in Nat
        /\ p.buffers \in Int /\ Total(p) \in Nat /\ p.offset <= Total(p)
    BY SafeFields
  <1>1. CASE ~p.ok \/ (p.length > 0 /\ p.offset >= p.length)
    <2>1. r = Fail(p)
      BY <1>1 DEF ensure, Fail
    <2> HIDE DEF r
    <2>2. Prints(p, r) /\ r.ok = FALSE
      BY <2>1, PrintStops
    <2> QED
      BY <2>2 DEF r
  <1> DEFINE Going == p.ok /\ ~(p.length > 0 /\ p.offset >= p.length)
  <1>2. CASE Going /\ all <= p.length
    <2>1. r = p /\ n \in Nat
      BY <1>2 DEF ensure
    <2> HIDE DEF r
    <2>2. Prints(p, r) /\ r.text = p.text /\ r.offset = p.offset /\ p.offset + n + 1 <= r.length
      BY <1>0, <1>2, <2>1, PrintsNothing
    <2> QED
      BY <2>2 DEF r
  <1>3. CASE Going /\ ~(all <= p.length) /\ p.noalloc
    <2>1. r = Fail(p)
      BY <1>3 DEF ensure, Fail
    <2> HIDE DEF r
    <2>2. Prints(p, r) /\ r.ok = FALSE
      BY <2>1, PrintStops
    <2> QED
      BY <2>2 DEF r
  <1>4. CASE Going /\ ~(all <= p.length) /\ ~p.noalloc /\ p.mem = 0
    <2>1. r = [p EXCEPT !.ok = FALSE, !.buffer = FALSE, !.length = 0, !.buffers = p.buffers - 1]
      BY <1>4 DEF ensure
    <2>0. p.buffers - 1 \in Int
      BY <1>0
    <2> HIDE DEF r
    <2>2. /\ r \in PrintBuffers /\ r.ok = FALSE /\ r.buffer = FALSE /\ r.buffers = p.buffers - 1
          /\ r.overrun = p.overrun /\ r.offset = p.offset /\ r.text = p.text
          /\ r.noalloc = p.noalloc /\ r.format = p.format
      BY <1>0, <2>0, <2>1 DEF PrintBuffers
    <2>3. p.buffers = 1
      BY <1>4 DEF Safe
    <2>4. Prints(p, r) /\ r.ok = FALSE
      BY <1>4, <2>2, <2>3 DEF Prints, Safe
    <2> QED
      BY <2>4 DEF r
  <1>5. CASE Going /\ ~(all <= p.length) /\ ~p.noalloc /\ p.mem # 0
    <2>1. r = [p EXCEPT !.mem = @ - 1, !.length = 2 * all]
      BY <1>5 DEF ensure
    <2>2. n \in Nat /\ all \in Nat /\ 2 * all \in Nat /\ p.mem - 1 \in Nat /\ all <= 2 * all
          /\ p.length <= 2 * all
      BY <1>0, <1>5
    <2> HIDE DEF r, all
    <2>3. /\ r \in PrintBuffers /\ r.ok = p.ok /\ r.buffer = p.buffer /\ r.buffers = p.buffers
          /\ r.overrun = p.overrun /\ r.offset = p.offset /\ r.text = p.text /\ r.ahead = p.ahead
          /\ r.noalloc = p.noalloc /\ r.format = p.format /\ r.nul = p.nul /\ r.depth = p.depth
          /\ r.length = 2 * all
      BY <1>0, <2>1, <2>2 DEF PrintBuffers
    <2>4. Total(r) = Total(p)
      BY <2>3 DEF Total
    <2>5. Total(p) + (IF p.nul THEN 1 ELSE 0) <= p.length
      BY <1>5 DEF Safe
    <2>6. Total(r) + (IF r.nul THEN 1 ELSE 0) <= r.length
      BY <1>0, <2>2, <2>3, <2>4, <2>5
    <2>7. Safe(r)
      BY <1>5, <2>3, <2>6 DEF Safe
    <2>8. Prints(p, r)
      BY <1>0, <1>5, <2>3, <2>4, <2>7 DEF Prints
    <2>9. p.offset + n + 1 <= r.length
      BY <1>0, <2>2, <2>3 DEF all
    <2> QED
      BY <2>3, <2>8, <2>9 DEF r
  <1> QED
    BY <1>1, <1>2, <1>3, <1>4, <1>5

\* The bytes written behind the offset were asked for.
Block(p, n, xs, nul) == Written(ensure(p, n), xs, nul)

\* What is asked for is enough for what is written, and at most five more.
Enough(n, xs) ==
    /\ n \in Nat /\ xs \in Seq(Printable) /\ Widths(xs) \in Nat
    /\ Widths(xs) <= n /\ n <= Widths(xs) + 5

\* Block writes within the buffer, where the room asked for is enough.
LEMMA BlockPrints ==
    ASSUME NEW p, Safe(p), NEW n, NEW xs, NEW nul \in BOOLEAN, p.ok => Enough(n, xs),
           NEW r, r = Block(p, n, xs, nul)
    PROVE  /\ Prints(p, r)
           /\ r.ok => r.offset = p.offset /\ r.ahead = xs /\ r.nul = nul
  <1> DEFINE e == ensure(p, n)
  <1>0. p.ok => /\ n \in Nat /\ xs \in Seq(Printable)
                /\ Widths(xs) + (IF nul THEN 1 ELSE 0) <= n + 1
    BY DEF Enough
  <1>1. /\ Prints(p, e)
        /\ e.ok => e.text = p.text /\ e.offset = p.offset /\ p.offset + n + 1 <= e.length
    BY <1>0, Ensured
  <1>2. r = Written(e, xs, nul)
    BY DEF Block
  <1> HIDE DEF e
  <1>3. CASE ~e.ok
    <2>1. r = e
      BY <1>2, <1>3 DEF Written
    <2> QED
      BY <1>1, <1>3, <2>1
  <1>4. CASE e.ok
    <2>0. /\ p.ok /\ Safe(e) /\ p.offset \in Nat /\ e.length \in Nat
          /\ e \in PrintBuffers /\ e.overrun = FALSE
          /\ n \in Nat /\ xs \in Seq(Printable) /\ Widths(xs) \in Nat
          /\ Widths(xs) + (IF nul THEN 1 ELSE 0) <= n + 1
      BY <1>0, <1>1, <1>4, SafeFields, WidthsAdd DEF Prints
    <2>1. e.offset = p.offset /\ e.offset + Widths(xs) + (IF nul THEN 1 ELSE 0) <= e.length
      BY <1>1, <1>4, <2>0
    <2>2. r = [e EXCEPT !.ahead = xs, !.nul = nul, !.overrun = FALSE]
      <3> DEFINE past == e.offset + Widths(xs) + (IF nul THEN 1 ELSE 0) > e.length
      <3>1. r = [e EXCEPT !.ahead = xs, !.nul = nul, !.overrun = e.overrun \/ past]
        BY <1>2, <1>4 DEF Written
      <3>2. (e.overrun \/ past) = FALSE
        BY <2>0, <2>1
      <3> HIDE DEF past
      <3> QED
        BY <3>1, <3>2
    <2>3. /\ r \in PrintBuffers /\ r.ok = e.ok /\ r.buffer = e.buffer /\ r.buffers = e.buffers
          /\ r.overrun = FALSE /\ r.offset = e.offset /\ r.text = e.text /\ r.ahead = xs
          /\ r.noalloc = e.noalloc /\ r.format = e.format /\ r.nul = nul /\ r.depth = e.depth
          /\ r.length = e.length
      BY <2>0, <2>2 DEF PrintBuffers
    <2>4. Total(r) = e.offset + Widths(xs)
      BY <2>3 DEF Total
    <2>5. Safe(r)
      BY <1>4, <2>0, <2>1, <2>3, <2>4 DEF Safe
    <2>6. p.offset <= Total(r)
      BY <2>0, <2>1, <2>4
    <2> QED
      BY <1>1, <1>4, <2>0, <2>1, <2>3, <2>5, <2>6 DEF Prints
  <1> QED
    BY <1>3, <1>4

\* The offset passes over what was written.
LEMMA PassedPrints ==
    ASSUME NEW p, Safe(p), NEW r, r = Passed(p)
    PROVE  /\ Prints(p, r) /\ Clear(r) /\ r.ok = p.ok
           /\ r.ok => r.offset = Total(p) /\ Total(r) = Total(p) /\ r.nul = p.nul
  <1>0. /\ p \in PrintBuffers /\ p.text \in Seq(Printable) /\ p.ahead \in Seq(Printable)
        /\ p.offset \in Nat /\ Widths(p.ahead) \in Nat /\ p.offset = Widths(p.text)
        /\ p.offset <= Total(p) /\ p.length \in Nat
    BY SafeFields
  <1>1. CASE ~p.ok
    <2>1. r = p
      BY <1>1 DEF Passed
    <2> QED
      BY <1>1, <2>1, PrintsNothing DEF Clear
  <1>2. CASE p.ok
    <2> DEFINE text2 == p.text \o p.ahead
    <2>1. text2 \in Seq(Printable) /\ Widths(text2) = p.offset + Widths(p.ahead)
      BY <1>0, WidthsAdd
    <2>2. r = [p EXCEPT !.text = text2, !.offset = p.offset + Widths(p.ahead), !.ahead = <<>>]
      BY <1>2 DEF Passed
    <2> HIDE DEF text2
    <2>3. /\ r \in PrintBuffers /\ r.ok = p.ok /\ r.buffer = p.buffer /\ r.buffers = p.buffers
          /\ r.overrun = p.overrun /\ r.offset = Total(p) /\ r.text = text2 /\ r.ahead = <<>>
          /\ r.noalloc = p.noalloc /\ r.format = p.format /\ r.nul = p.nul /\ r.depth = p.depth
          /\ r.length = p.length
      <3>1. <<>> \in Seq(Printable) /\ p.offset + Widths(p.ahead) \in Nat
        BY <1>0
      <3> QED
        BY <1>0, <2>1, <2>2, <3>1 DEF PrintBuffers, Total
    <2>4. Total(r) = Total(p)
      BY <1>0, <2>3, WidthsFew DEF Total
    <2>5. Safe(r)
      BY <1>2, <2>1, <2>3, <2>4 DEF Safe, Total
    <2> QED
      BY <1>0, <1>2, <2>3, <2>4, <2>5 DEF Prints, Clear
  <1> QED
    BY <1>1, <1>2

\* update_offset finds the terminator, so it only passes over the text.
LEMMA UpdatePasses ==
    ASSUME NEW p, Safe(p), p.ok => p.nul
    PROVE  update_offset(p) = Passed(p)
  <1>1. [p EXCEPT !.overrun = @ \/ (p.ok /\ ~p.nul)] = p
    <2>1. p \in PrintBuffers /\ p.overrun = FALSE /\ (p.overrun \/ (p.ok /\ ~p.nul)) = FALSE
      BY SafeFields
    <2>2. [p EXCEPT !.overrun = FALSE] = p
      BY <2>1 DEF PrintBuffers
    <2> QED
      BY <2>1, <2>2
  <1> QED
    BY <1>1 DEF update_offset

\* One level more, one level less.
Deeper(p) == [p EXCEPT !.depth = @ + 1]
Higher(p) == [p EXCEPT !.depth = @ - 1]

\* Only the depth is another one.
LEMMA DeeperPrints ==
    ASSUME NEW p, Safe(p), NEW d \in Int, NEW r, r = [p EXCEPT !.depth = d]
    PROVE  /\ Safe(r) /\ r.depth = d /\ r.ok = p.ok /\ r.noalloc = p.noalloc /\ r.format = p.format
           /\ r.length = p.length /\ r.offset = p.offset /\ r.ahead = p.ahead /\ r.nul = p.nul
           /\ Total(r) = Total(p)
  <1>1. /\ r \in PrintBuffers /\ r.ok = p.ok /\ r.buffer = p.buffer /\ r.buffers = p.buffers
        /\ r.overrun = p.overrun /\ r.offset = p.offset /\ r.text = p.text /\ r.ahead = p.ahead
        /\ r.noalloc = p.noalloc /\ r.format = p.format /\ r.nul = p.nul /\ r.depth = d
        /\ r.length = p.length
    BY DEF Safe, PrintBuffers
  <1>2. Total(r) = Total(p)
    BY <1>1 DEF Total
  <1> QED
    BY <1>1, <1>2 DEF Safe

-----------------------------------------------------------------------------
(* A buffer of the caller that is larger *)

\* The same buffer with L characters.
Larger(p, L) == [p EXCEPT !.length = L]

\* A buffer of the caller with L characters holds what was printed, the
\* terminator and five characters more.
Roomy(p, L) == p.noalloc /\ p.ok /\ Total(p) + 1 + 5 <= L

\* What a larger buffer has.
LEMMA LargerFields ==
    ASSUME NEW p, Safe(p), NEW L \in Nat, Roomy(p, L)
    PROVE  /\ Larger(p, L).text = p.text /\ Larger(p, L).offset = p.offset
           /\ Larger(p, L).ahead = p.ahead /\ Larger(p, L).nul = p.nul
           /\ Larger(p, L).length = L /\ Larger(p, L).depth = p.depth
           /\ Larger(p, L).noalloc = p.noalloc /\ Larger(p, L).format = p.format
           /\ Larger(p, L).ok = p.ok /\ Larger(p, L).overrun = p.overrun
           /\ Larger(p, L).buffer = p.buffer /\ Larger(p, L).buffers = p.buffers
           /\ Larger(p, L) \in PrintBuffers
           /\ Total(Larger(p, L)) = Total(p) /\ Safe(Larger(p, L))
  <1> DEFINE q == Larger(p, L)
  <1>1. /\ q \in PrintBuffers /\ q.text = p.text /\ q.offset = p.offset
        /\ q.ahead = p.ahead /\ q.nul = p.nul /\ q.length = L /\ q.depth = p.depth
        /\ q.noalloc = p.noalloc /\ q.format = p.format /\ q.ok = p.ok /\ q.overrun = p.overrun
        /\ q.buffer = p.buffer /\ q.buffers = p.buffers
    BY DEF Larger, Safe, PrintBuffers
  <1> HIDE DEF q
  <1>2. Total(q) = Total(p)
    BY <1>1 DEF Total
  <1>3. Total(p) \in Nat /\ Total(p) + 1 + 5 <= L
    BY SafeFields DEF Roomy
  <1>4. Total(q) + (IF q.nul THEN 1 ELSE 0) <= q.length
    <2>1. Total(p) + 1 <= L /\ Total(p) + 0 <= L
      BY <1>3
    <2> QED
      BY <1>1, <1>2, <2>1
  <1>5. Safe(q)
    BY <1>1, <1>4 DEF Safe
  <1> QED
    BY <1>1, <1>2, <1>5 DEF q

\* What fits at the end has always fitted.
LEMMA RoomyBefore ==
    ASSUME NEW p, NEW q, Safe(p), Clear(p), Prints(p, q), NEW L \in Nat, Roomy(q, L)
    PROVE  Roomy(p, L)
  <1>1. p.ok /\ p.noalloc /\ p.offset <= Total(q) /\ Total(p) = p.offset /\ Total(q) + 1 + 5 <= L
    BY SafeFields DEF Prints, Clear, Roomy
  <1>2. p.offset \in Nat /\ Total(q) \in Nat
    BY SafeFields DEF Prints
  <1> QED
    BY <1>1, <1>2 DEF Roomy

\* A block that asks for at most five characters more than it writes.
LEMMA BlockLarger ==
    ASSUME NEW p, Safe(p), NEW n, NEW xs, NEW nul \in BOOLEAN,
           p.ok => Enough(n, xs),
           NEW r, r = Block(p, n, xs, nul), NEW L \in Nat, Roomy(r, L)
    PROVE  Block(Larger(p, L), n, xs, nul) = Larger(r, L)
  <1>1. Prints(p, r) /\ r.ok /\ p.ok /\ r.offset = p.offset /\ r.ahead = xs /\ r.nul = nul
    <2>1. r.ok
      BY DEF Roomy
    <2>2. Prints(p, r) /\ (r.ok => r.offset = p.offset /\ r.ahead = xs /\ r.nul = nul)
      BY BlockPrints
    <2> QED
      BY <2>1, <2>2 DEF Prints
  <1>2. /\ p \in PrintBuffers /\ p.offset \in Nat /\ p.overrun = FALSE
        /\ n \in Nat /\ p.length \in Nat
        /\ Widths(xs) \in Nat /\ xs \in Seq(Printable) /\ p.noalloc /\ p.ok = TRUE
    BY <1>1, SafeFields, WidthsAdd DEF Prints, Roomy, Enough
  <1>3. p.offset + Widths(xs) + 1 + 5 <= L
    BY <1>1 DEF Roomy, Total
  <1> DEFINE q == Larger(p, L)
  <1>4. /\ q \in PrintBuffers /\ q.offset = p.offset /\ q.length = L /\ q.ok = TRUE
        /\ q.overrun = FALSE
    BY <1>2 DEF Larger, PrintBuffers
  <1>5. ensure(p, n) = p
    <2>1. ensure(p, n).ok
      <3> DEFINE e == ensure(p, n)
      <3>1. r = Written(e, xs, nul)
        BY DEF Block
      <3> HIDE DEF e
      <3>2. e.ok
        BY <1>1, <3>1 DEF Written
      <3> QED
        BY <3>2 DEF e
    <2>2. ensure(p, n) = p \/ ensure(p, n) = [p EXCEPT !.ok = FALSE]
      BY <1>2 DEF ensure
    <2>3. [p EXCEPT !.ok = FALSE].ok = FALSE
      BY <1>2 DEF PrintBuffers
    <2> QED
      BY <2>1, <2>2, <2>3
  <1> HIDE DEF q
  <1>6. ensure(q, n) = q
    <2>1. n <= Widths(xs) + 5
      BY <1>1 DEF Enough
    <2>2. n + p.offset + 1 <= L /\ p.offset < L
      BY <1>2, <1>3, <2>1
    <2>3. ~(q.length > 0 /\ q.offset >= q.length) /\ n + q.offset + 1 <= q.length
      BY <1>2, <1>4, <2>2
    <2> QED
      BY <1>4, <2>3 DEF ensure
  <1>7. r = [p EXCEPT !.ahead = xs, !.nul = nul, !.overrun = FALSE]
    <2> DEFINE past == p.offset + Widths(xs) + (IF nul THEN 1 ELSE 0) > p.length
    <2>1. r = [p EXCEPT !.ahead = xs, !.nul = nul, !.overrun = p.overrun \/ past]
      BY <1>1, <1>5 DEF Block, Written
    <2>2. r.overrun = (p.overrun \/ past) /\ past \in BOOLEAN
      <3>1. past \in BOOLEAN
        OBVIOUS
      <3> HIDE DEF past
      <3> QED
        BY <1>2, <2>1, <3>1 DEF PrintBuffers
    <2>3. r.overrun = FALSE
      BY <1>1, SafeFields DEF Prints
    <2> HIDE DEF past
    <2> QED
      BY <2>1, <2>2, <2>3
  <1>8. Block(q, n, xs, nul) = [q EXCEPT !.ahead = xs, !.nul = nul, !.overrun = FALSE]
    <2> DEFINE past == q.offset + Widths(xs) + (IF nul THEN 1 ELSE 0) > q.length
    <2>1. Block(q, n, xs, nul) = [q EXCEPT !.ahead = xs, !.nul = nul, !.overrun = q.overrun \/ past]
      BY <1>4, <1>6 DEF Block, Written
    <2>2. (q.overrun \/ past) = FALSE
      BY <1>2, <1>3, <1>4
    <2> HIDE DEF past
    <2> QED
      BY <2>1, <2>2
  <1>9. Block(q, n, xs, nul) = Larger(r, L)
    BY <1>2, <1>7, <1>8 DEF q, Larger, PrintBuffers
  <1> QED
    BY <1>9 DEF q

\* Passing over what was written does not depend on the size.
LEMMA PassedLarger ==
    ASSUME NEW p, Safe(p), NEW L \in Nat, Roomy(p, L)
    PROVE  Passed(Larger(p, L)) = Larger(Passed(p), L) /\ Roomy(Passed(p), L)
  <1>1. p \in PrintBuffers /\ p.ok
    BY DEF Safe, Roomy
  <1>2. Passed(Larger(p, L)) = Larger(Passed(p), L)
    BY <1>1 DEF Passed, Larger, PrintBuffers
  <1> DEFINE r == Passed(p)
  <1>3. Prints(p, r) /\ r.ok /\ Total(r) = Total(p)
    BY <1>1, PassedPrints
  <1> HIDE DEF r
  <1>4. Roomy(r, L)
    BY <1>3 DEF Roomy, Prints
  <1> QED
    BY <1>2, <1>4 DEF r

\* Lexemes that are written and passed over.
LEMMA PiecePrints ==
    ASSUME NEW p, Safe(p), NEW n, NEW xs, NEW nul \in BOOLEAN,
           p.ok => Enough(n, xs),
           NEW r, r = Passed(Block(p, n, xs, nul))
    PROVE  /\ Prints(p, r) /\ Clear(r) /\ (r.ok => r.nul = nul)
           /\ \A L \in Nat : Roomy(r, L) =>
                Passed(Block(Larger(p, L), n, xs, nul)) = Larger(r, L)
  <1> DEFINE b == Block(p, n, xs, nul)
  <1>1. Prints(p, b) /\ (b.ok => b.nul = nul)
    BY BlockPrints
  <1>2. ASSUME NEW L \in Nat, Roomy(b, L) PROVE Block(Larger(p, L), n, xs, nul) = Larger(b, L)
    BY <1>2, BlockLarger
  <1>3. r = Passed(b)
    OBVIOUS
  <1> HIDE DEF b
  <1>4. /\ Prints(b, r) /\ Clear(r) /\ r.ok = b.ok
        /\ r.ok => r.offset = Total(b) /\ Total(r) = Total(b) /\ r.nul = b.nul
    BY <1>1, <1>3, PassedPrints DEF Prints
  <1>5. Safe(b) /\ Safe(r)
    BY <1>1, <1>4 DEF Prints
  <1>6. Prints(p, r)
    <2>1. r.ok => p.offset <= Total(b) /\ Total(b) = Total(r)
      BY <1>1, <1>4 DEF Prints
    <2> QED
      BY <1>1, <1>4, <1>5, <2>1 DEF Prints
  <1>7. ASSUME NEW L \in Nat, Roomy(r, L)
        PROVE  Passed(Block(Larger(p, L), n, xs, nul)) = Larger(r, L)
    <2>1. Roomy(b, L)
      BY <1>4, <1>7 DEF Roomy, Prints
    <2> QED
      BY <1>2, <1>3, <1>5, <2>1, PassedLarger
  <1> QED
    BY <1>1, <1>4, <1>6, <1>7

\* Lexemes with a terminator behind them; lexemes passed over, without one or
\* with one.
Ended(p, n, xs) == Block(p, n, xs, TRUE)
Opened(p, n, xs) == Passed(Block(p, n, xs, FALSE))
Added(p, n, xs) == Passed(Block(p, n, xs, TRUE))

\* Lexemes with a terminator: within the buffer, whatever its size.
LEMMA EndedPrints ==
    ASSUME NEW p, Safe(p), NEW n, NEW xs, p.ok => Enough(n, xs), NEW r, r = Ended(p, n, xs)
    PROVE  /\ Prints(p, r) /\ (r.ok => r.nul)
           /\ \A L \in Nat : Roomy(r, L) => Ended(Larger(p, L), n, xs) = Larger(r, L)
  <1> DEFINE nul == TRUE
  <1>0. nul = TRUE
    OBVIOUS
  <1>1. nul \in BOOLEAN /\ \A q : Ended(q, n, xs) = Block(q, n, xs, nul)
    BY DEF Ended
  <1> HIDE DEF nul
  <1>2. r = Block(p, n, xs, nul)
    BY <1>1
  <1>3. Prints(p, r) /\ (r.ok => r.nul = nul)
    BY <1>1, <1>2, BlockPrints
  <1>4. ASSUME NEW L \in Nat, Roomy(r, L) PROVE Block(Larger(p, L), n, xs, nul) = Larger(r, L)
    BY <1>1, <1>2, <1>4, BlockLarger
  <1> QED
    BY <1>0, <1>1, <1>3, <1>4

\* The same for lexemes passed over.
LEMMA OpenedPrints ==
    ASSUME NEW p, Safe(p), NEW n, NEW xs, p.ok => Enough(n, xs), NEW r, r = Opened(p, n, xs)
    PROVE  /\ Prints(p, r) /\ Clear(r)
           /\ \A L \in Nat : Roomy(r, L) => Opened(Larger(p, L), n, xs) = Larger(r, L)
  <1> DEFINE nul == FALSE
  <1>1. nul \in BOOLEAN /\ \A q : Opened(q, n, xs) = Passed(Block(q, n, xs, nul))
    BY DEF Opened
  <1> HIDE DEF nul
  <1>2. r = Passed(Block(p, n, xs, nul))
    BY <1>1
  <1>3. /\ Prints(p, r) /\ Clear(r)
        /\ \A L \in Nat : Roomy(r, L) => Passed(Block(Larger(p, L), n, xs, nul)) = Larger(r, L)
    BY <1>1, <1>2, PiecePrints
  <1> QED
    BY <1>1, <1>3

\* And for lexemes with a terminator, passed over.
LEMMA AddedPrints ==
    ASSUME NEW p, Safe(p), NEW n, NEW xs, p.ok => Enough(n, xs), NEW r, r = Added(p, n, xs)
    PROVE  /\ Prints(p, r) /\ Clear(r) /\ (r.ok => r.nul)
           /\ \A L \in Nat : Roomy(r, L) => Added(Larger(p, L), n, xs) = Larger(r, L)
  <1> DEFINE nul == TRUE
  <1>0. nul = TRUE
    OBVIOUS
  <1>1. nul \in BOOLEAN /\ \A q : Added(q, n, xs) = Passed(Block(q, n, xs, nul))
    BY DEF Added
  <1> HIDE DEF nul
  <1>2. r = Passed(Block(p, n, xs, nul))
    BY <1>1
  <1>3. /\ Prints(p, r) /\ Clear(r) /\ (r.ok => r.nul = nul)
        /\ \A L \in Nat : Roomy(r, L) => Passed(Block(Larger(p, L), n, xs, nul)) = Larger(r, L)
    BY <1>1, <1>2, PiecePrints
  <1> QED
    BY <1>0, <1>1, <1>3

\* Passing over what was printed, where it has a terminator.
LEMMA UpdatePrints ==
    ASSUME NEW p, NEW b, Prints(p, b), b.ok => b.nul, NEW r, r = update_offset(b)
    PROVE  /\ Prints(p, r) /\ Clear(r)
           /\ \A L \in Nat : Roomy(r, L) =>
                Roomy(b, L) /\ update_offset(Larger(b, L)) = Larger(r, L)
  <1>1. Safe(b) /\ r = Passed(b)
    BY UpdatePasses DEF Prints
  <1>2. /\ Prints(b, r) /\ Clear(r) /\ r.ok = b.ok /\ (r.ok => Total(r) = Total(b))
    BY <1>1, PassedPrints
  <1>3. Prints(p, r)
    BY <1>2 DEF Prints
  <1>4. ASSUME NEW L \in Nat, Roomy(r, L)
        PROVE  Roomy(b, L) /\ update_offset(Larger(b, L)) = Larger(r, L)
    <2>1. Roomy(b, L)
      BY <1>2, <1>4 DEF Roomy, Prints
    <2> DEFINE q == Larger(b, L)
    <2>2. Safe(q) /\ q.nul = b.nul /\ b.nul
      BY <1>1, <2>1, LargerFields DEF Roomy
    <2> HIDE DEF q
    <2>3. update_offset(q) = Passed(q)
      BY <2>2, UpdatePasses
    <2>4. Passed(q) = Larger(r, L)
      BY <1>1, <2>1, PassedLarger DEF q
    <2> QED
      BY <2>1, <2>3, <2>4 DEF q
  <1> QED
    BY <1>2, <1>3, <1>4

\* Printing can begin: what is in the buffer has been passed over.
Started(p) == Safe(p) /\ Clear(p) /\ (p.ok => p.depth \in Nat)

\* What is printed next begins where the last print ended.
LEMMA StartedOn ==
    ASSUME NEW p, Started(p), NEW r, Prints(p, r), Clear(r)
    PROVE  Started(r)
  BY DEF Started, Prints

\* A list is opened one level deeper.
LEMMA NestedOpens ==
    ASSUME NEW p, NEW o, Started(p), Prints(p, o), Clear(o),
           NEW open, open = Deeper(o)
    PROVE  /\ Started(open) /\ open.ok = o.ok /\ open.depth = o.depth + 1
           /\ (open.ok => open.depth = p.depth + 1)
           /\ open.noalloc = o.noalloc /\ open.format = o.format /\ open.length = o.length
           /\ open.offset = o.offset /\ Total(open) = Total(o)
  <1>1. Safe(o)
    BY DEF Prints
  <1>2. o.depth \in Int /\ o.depth + 1 \in Int
    <2>1. o \in PrintBuffers
      BY <1>1 DEF Safe
    <2>2. o.depth \in Int
      BY <2>1 DEF PrintBuffers
    <2> QED
      BY <2>2
  <1>3. /\ Safe(open) /\ open.depth = o.depth + 1 /\ open.ok = o.ok /\ open.noalloc = o.noalloc
        /\ open.format = o.format /\ open.length = o.length /\ open.offset = o.offset
        /\ open.ahead = o.ahead /\ Total(open) = Total(o)
    BY <1>1, <1>2, DeeperPrints DEF Deeper
  <1>4. o.ok => o.depth = p.depth /\ p.depth \in Nat
    BY DEF Prints, Started
  <1> QED
    BY <1>3, <1>4 DEF Started, Clear

\* And closed again.
LEMMA NestedPrints ==
    ASSUME NEW p, NEW o, Started(p), Prints(p, o), Clear(o),
           NEW open, open = Deeper(o), NEW closed, Prints(open, closed),
           NEW r, r = Higher(closed)
    PROVE  /\ Prints(p, r) /\ r.ok = closed.ok /\ r.nul = closed.nul
           /\ \A L \in Nat : Roomy(r, L) =>
                /\ Roomy(closed, L) /\ Roomy(open, L) /\ Roomy(o, L)
                /\ Deeper(Larger(o, L)) = Larger(open, L)
                /\ Higher(Larger(closed, L)) = Larger(r, L)
  <1>1. Safe(o) /\ Safe(closed) /\ o \in PrintBuffers /\ closed \in PrintBuffers
    BY DEF Prints, Safe
  <1>2. o.depth \in Int /\ closed.depth \in Int /\ closed.depth - 1 \in Int
    BY <1>1 DEF PrintBuffers
  <1>3. /\ Started(open) /\ Safe(open) /\ Clear(open) /\ open.ok = o.ok /\ open.depth = o.depth + 1
        /\ open.noalloc = o.noalloc /\ open.format = o.format /\ open.length = o.length
        /\ open.offset = o.offset /\ Total(open) = Total(o)
    BY NestedOpens DEF Started
  <1>4. /\ Safe(r) /\ r.depth = closed.depth - 1 /\ r.ok = closed.ok /\ r.noalloc = closed.noalloc
        /\ r.format = closed.format /\ r.length = closed.length /\ r.offset = closed.offset
        /\ r.ahead = closed.ahead /\ r.nul = closed.nul /\ Total(r) = Total(closed)
    BY <1>1, <1>2, DeeperPrints DEF Higher
  <1>5. r.ok => closed.ok /\ open.ok /\ open.offset <= Total(r)
    BY <1>4 DEF Prints
  <1>6. r.ok => /\ o.ok /\ p.ok /\ o.depth = p.depth /\ closed.depth = o.depth + 1
                /\ p.offset <= Total(o)
    BY <1>3, <1>5 DEF Prints
  <1>7. o.ok => Total(o) = o.offset
    BY <1>1, SafeFields DEF Clear
  <1>8. /\ p.offset \in Nat /\ Total(o) \in Nat /\ Total(r) \in Nat
    <2>1. p.offset \in Nat
      BY SafeFields DEF Started
    <2>2. Total(o) \in Nat
      BY <1>1, SafeFields
    <2>3. Total(r) \in Nat
      BY <1>4, SafeFields
    <2> QED
      BY <2>1, <2>2, <2>3
  <1>9. r.ok => p.offset <= Total(r) /\ r.depth = p.depth
    BY <1>2, <1>3, <1>4, <1>5, <1>6, <1>7, <1>8
  <1>10. Prints(p, r)
    BY <1>3, <1>4, <1>6, <1>9 DEF Prints
  <1>11. ASSUME NEW L \in Nat, Roomy(r, L)
         PROVE  /\ Roomy(closed, L) /\ Roomy(open, L) /\ Roomy(o, L)
                /\ Deeper(Larger(o, L)) = Larger(open, L)
                /\ Higher(Larger(closed, L)) = Larger(r, L)
    <2>1. Roomy(closed, L)
      BY <1>4, <1>11 DEF Roomy
    <2>2. Roomy(open, L)
      BY <1>3, <2>1, RoomyBefore
    <2>3. Roomy(o, L)
      BY <1>3, <2>2 DEF Roomy
    <2>4. Deeper(Larger(o, L)) = Larger(open, L)
      BY <1>1 DEF Larger, PrintBuffers, Deeper
    <2>5. Higher(Larger(closed, L)) = Larger(r, L)
      BY <1>1 DEF Larger, PrintBuffers, Higher
    <2> QED
      BY <2>1, <2>2, <2>3, <2>4, <2>5
  <1> QED
    BY <1>4, <1>10, <1>11

-----------------------------------------------------------------------------
(* The functions that print *)

\* Single lexemes can be printed.
LEMMA Lexical ==
    /\ \A x \in Marks \cup Strings \cup NumberLexemes :
         x \in Printable /\ <<x>> \in Seq(Printable) /\ Widths(<<x>>) = Width(x)
    /\ <<>> \in Seq(Printable)
  <1>1. ASSUME NEW x \in Marks \cup Strings \cup NumberLexemes
        PROVE  x \in Printable /\ <<x>> \in Seq(Printable) /\ Widths(<<x>>) = Width(x)
    <2>1. x \in Marks => x \in Printable
      BY DEF Printable, Lexemes, Literals, Marks, Characters
    <2>2. x \in Strings \cup NumberLexemes => x \in Printable
      BY DEF Printable, Lexemes
    <2>3. x \in Printable
      BY <2>1, <2>2
    <2>4. <<x>> \in Seq(Printable)
      BY <2>3
    <2>5. Widths(<<x>>) = Width(x)
      BY <2>3, WidthsFew
    <2> QED
      BY <2>3, <2>4, <2>5
  <1> QED
    BY <1>1

\* A character, with the terminator that may follow it.
LEMMA EnoughMarks ==
    ASSUME NEW x \in Characters
    PROVE  /\ Enough(1, <<x>>) /\ Enough(2, <<x>>)
           /\ <<x>> \in Seq(Printable) /\ Widths(<<x>>) = 1
  <1> DEFINE xs == <<x>>
  <1>1. xs \in Seq(Printable) /\ Widths(xs) = 1
    BY Lexical, FixedWidths DEF Marks
  <1> HIDE DEF xs
  <1>2. Enough(1, xs) /\ Enough(2, xs)
    BY <1>1 DEF Enough
  <1> QED
    BY <1>1, <1>2 DEF xs

\* print_string_ptr reserves what it writes.
LEMMA StringPrints ==
    ASSUME NEW p, Safe(p), NEW s \in Strings \cup {NULL}, NEW r, r = print_string_ptr(p, s)
    PROVE  /\ Prints(p, r) /\ (r.ok => r.nul)
           /\ \A L \in Nat : Roomy(r, L) => print_string_ptr(Larger(p, L), s) = Larger(r, L)
  <1>1. CASE s = NULL
    <2>1. \A q : print_string_ptr(q, s) = Ended(q, 3, <<"empty">>)
      BY <1>1 DEF print_string_ptr, Block, Ended
    <2>2. "empty" \in Marks
      BY DEF Marks
    <2>3. Widths(<<"empty">>) = 2 /\ <<"empty">> \in Seq(Printable)
      BY <2>2, Lexical, FixedWidths
    <2> DEFINE xs == <<"empty">>
    <2>4. Enough(3, xs)
      BY <2>3 DEF Enough
    <2>5. \A q : print_string_ptr(q, s) = Ended(q, 3, xs)
      BY <2>1
    <2> HIDE DEF xs
    <2>6. /\ Prints(p, r) /\ (r.ok => r.nul)
          /\ \A L \in Nat : Roomy(r, L) => Ended(Larger(p, L), 3, xs) = Larger(r, L)
      BY <2>4, <2>5, EndedPrints
    <2> QED
      BY <2>5, <2>6
  <1>2. CASE s # NULL
    <2>1. \A q : print_string_ptr(q, s) = Ended(q, Length[s] + 3, <<s>>)
      BY <1>2 DEF print_string_ptr, Block, Ended
    <2>2. s \in Strings
      BY <1>2
    <2> DEFINE n == Length[s] + 3
               xs == <<s>>
    <2>3. Enough(n, xs)
      <3>1. Length[s] \in Nat /\ <<s>> \in Seq(Printable) /\ Widths(<<s>>) = Length[s] + 2
        BY <2>2, Lexical, FixedWidths
      <3> QED
        BY <3>1 DEF Enough
    <2>4. \A q : print_string_ptr(q, s) = Ended(q, n, xs)
      BY <2>1
    <2> HIDE DEF n, xs
    <2>5. /\ Prints(p, r) /\ (r.ok => r.nul)
          /\ \A L \in Nat : Roomy(r, L) => Ended(Larger(p, L), n, xs) = Larger(r, L)
      BY <2>3, <2>4, EndedPrints
    <2> QED
      BY <2>4, <2>5
  <1> QED
    BY <1>1, <1>2

\* print_value for a Raw item reserves what it writes.
RawPrinted(p, s) == Ended(p, Length[s] + 1, RawText(s))

LEMMA RawPrints ==
    ASSUME NEW p, Safe(p), NEW s \in Strings, NEW r, r = RawPrinted(p, s)
    PROVE  /\ Prints(p, r) /\ (r.ok => r.nul)
           /\ \A L \in Nat : Roomy(r, L) => RawPrinted(Larger(p, L), s) = Larger(r, L)
  <1> DEFINE n == Length[s]
             xs == RawText(s)
  <1>1. n \in Nat /\ "raw" \in Characters /\ xs = Repeated("raw", n)
    BY PrintAssumption DEF Characters, RawText, Repeated
  <1> HIDE DEF n, xs
  <1>2. xs \in Seq(Printable) /\ Widths(xs) = n
    BY <1>1, WidthsFew
  <1>3. Enough(n + 1, xs)
    BY <1>1, <1>2 DEF Enough
  <1>4. r = Ended(p, n + 1, xs)
    BY DEF RawPrinted, n, xs
  <1>5. /\ Prints(p, r) /\ (r.ok => r.nul)
        /\ \A L \in Nat : Roomy(r, L) => Ended(Larger(p, L), n + 1, xs) = Larger(r, L)
    BY <1>3, <1>4, EndedPrints
  <1> QED
    BY <1>5 DEF RawPrinted, n, xs

\* A round of a loop.
Round(loop, p, h, type, c) == loop[p, h, type, c]

\* The loop over the members prints them, also into a larger buffer.
PrintsMembers(loop) ==
    \A p \in PrintBuffers, h \in Heap, type \in {"Array", "Object"}, c \in Pointers :
        Started(p) /\ Numbered(h) =>
            /\ Prints(p, Round(loop, p, h, type, c)) /\ Clear(Round(loop, p, h, type, c))
            /\ \A L \in Nat :
                 Roomy(Round(loop, p, h, type, c), L) =>
                 Round(loop, Larger(p, L), h, type, c) = Larger(Round(loop, p, h, type, c), L)

ListTypes == {"Array", "Object"}

\* The use of a loop for one list.
LEMMA LoopPrints ==
    ASSUME NEW loop, PrintsMembers(loop), NEW p, Started(p), NEW h \in Heap, Numbered(h),
           NEW type \in ListTypes, NEW c \in Pointers, NEW r, r = Round(loop, p, h, type, c)
    PROVE  /\ Prints(p, r) /\ Clear(r) /\ Started(r)
           /\ \A L \in Nat : Roomy(r, L) => Round(loop, Larger(p, L), h, type, c) = Larger(r, L)
  <1>1. p \in PrintBuffers /\ type \in {"Array", "Object"}
    BY DEF Started, Safe, ListTypes
  <1>2. /\ Prints(p, r) /\ Clear(r)
        /\ \A L \in Nat : Roomy(r, L) => Round(loop, Larger(p, L), h, type, c) = Larger(r, L)
    BY <1>1 DEF PrintsMembers
  <1> QED
    BY <1>2, StartedOn

\* print_array.
LEMMA ArrayPrints ==
    ASSUME NEW loop, PrintsMembers(loop), NEW p, Started(p), NEW h \in Heap, Numbered(h),
           NEW item \in Items, NEW r, r = print_array(p, h, item, loop)
    PROVE  /\ Prints(p, r) /\ (r.ok => r.nul)
           /\ \A L \in Nat : Roomy(r, L) => print_array(Larger(p, L), h, item, loop) = Larger(r, L)
  <1> DEFINE opening == <<"[">>
             closing == <<"]">>
             c == h.child[item]
             type == "Array"
             o == Opened(p, 1, opening)
             open == Deeper(o)
             listed == Round(loop, open, h, type, c)
             closed == Ended(listed, 2, closing)
  <1>1. c \in Pointers /\ type \in ListTypes /\ Safe(p)
    BY DEF Heap, Pointers, Started, ListTypes
  <1>2. Enough(1, opening) /\ Enough(2, closing)
    <2>1. "[" \in Characters /\ "]" \in Characters
      BY DEF Characters
    <2> QED
      BY <2>1, EnoughMarks
  <1>3. \A q : print_array(q, h, item, loop) =
               Higher(Ended(Round(loop, Deeper(Opened(q, 1, opening)), h, type, c), 2, closing))
    BY DEF print_array, Round, Block, Higher, Deeper, Opened, Ended
  <1> HIDE DEF opening, closing, type, c
  <1>4. r = Higher(closed)
    BY <1>3
  <1>5. /\ Prints(p, o) /\ Clear(o)
        /\ \A L \in Nat : Roomy(o, L) => Opened(Larger(p, L), 1, opening) = Larger(o, L)
    BY <1>1, <1>2, OpenedPrints
  <1> HIDE DEF o
  <1>6. Started(open)
    BY <1>5, NestedOpens
  <1>7. /\ Prints(open, listed) /\ Clear(listed) /\ Started(listed)
        /\ \A L \in Nat : Roomy(listed, L) => Round(loop, Larger(open, L), h, type, c) = Larger(listed, L)
    BY <1>1, <1>6, LoopPrints
  <1> HIDE DEF listed
  <1>8. Safe(listed) /\ Safe(open)
    BY <1>6, <1>7 DEF Started
  <1>9. /\ Prints(listed, closed) /\ (closed.ok => closed.nul)
        /\ \A L \in Nat : Roomy(closed, L) => Ended(Larger(listed, L), 2, closing) = Larger(closed, L)
    BY <1>2, <1>8, EndedPrints
  <1> HIDE DEF closed
  <1>10. Prints(open, closed)
    BY <1>7, <1>8, <1>9, PrintsOn
  <1>11. /\ Prints(p, r) /\ r.ok = closed.ok /\ r.nul = closed.nul
         /\ \A L \in Nat : Roomy(r, L) =>
              /\ Roomy(closed, L) /\ Roomy(open, L) /\ Roomy(o, L)
              /\ Deeper(Larger(o, L)) = Larger(open, L)
              /\ Higher(Larger(closed, L)) = Larger(r, L)
    BY <1>4, <1>5, <1>10, NestedPrints
  <1>12. ASSUME NEW L \in Nat, Roomy(r, L)
         PROVE  print_array(Larger(p, L), h, item, loop) = Larger(r, L)
    <2>1. /\ Roomy(closed, L) /\ Roomy(o, L)
          /\ Deeper(Larger(o, L)) = Larger(open, L)
          /\ Higher(Larger(closed, L)) = Larger(r, L)
      BY <1>11, <1>12
    <2>2. Roomy(listed, L)
      BY <1>7, <1>8, <1>9, <2>1, RoomyBefore
    <2>3. Opened(Larger(p, L), 1, opening) = Larger(o, L)
      BY <1>5, <2>1
    <2>4. Round(loop, Larger(open, L), h, type, c) = Larger(listed, L)
      BY <1>7, <2>2
    <2>5. Ended(Larger(listed, L), 2, closing) = Larger(closed, L)
      BY <1>9, <2>1
    <2>6. print_array(Larger(p, L), h, item, loop) =
            Higher(Ended(Round(loop, Deeper(Opened(Larger(p, L), 1, opening)), h, type, c), 2, closing))
      BY <1>3
    <2> QED
      BY <2>1, <2>3, <2>4, <2>5, <2>6
  <1> QED
    BY <1>9, <1>11, <1>12

\* A mark and the blank behind it, when blanks are printed.
LEMMA MarkAndBlanks ==
    ASSUME NEW x \in Characters, NEW n \in {1, 2},
           NEW xs, xs = <<x>> \o Blanks(n - 1)
    PROVE  Enough(n, xs) /\ Enough(n + 1, xs) /\ Len(xs) = n
  <1>0. n \in Nat
    OBVIOUS
  <1>1. <<x>> \in Seq(Printable) /\ Widths(<<x>>) = 1
    BY EnoughMarks
  <1>2. n - 1 \in Nat
    OBVIOUS
  <1>3. Blanks(n - 1) \in Seq(Printable) /\ Widths(Blanks(n - 1)) = n - 1
    BY <1>2, WidthsFew
  <1>4. xs \in Seq(Printable) /\ Widths(xs) = n
    <2>1. xs \in Seq(Printable)
      BY <1>1, <1>3
    <2>2. Widths(xs) = 1 + (n - 1)
      BY <1>1, <1>3, WidthsAdd
    <2> QED
      BY <1>0, <2>1, <2>2
  <1>5. Len(xs) = n
    <2>1. Len(Blanks(n - 1)) = n - 1
      BY <1>2 DEF Blanks
    <2>2. Len(<<x>>) = 1 /\ Len(xs) = Len(<<x>>) + Len(Blanks(n - 1))
      BY <1>1, <1>3
    <2> QED
      BY <1>0, <2>1, <2>2
  <1>6. Enough(n, xs) /\ Enough(n + 1, xs)
    BY <1>0, <1>4 DEF Enough
  <1> QED
    BY <1>5, <1>6

\* A character with blanks before it.
LEMMA BlanksAndMark ==
    ASSUME NEW x \in Characters, NEW d \in Nat, NEW xs, xs = Append(Blanks(d), x)
    PROVE  Enough(d + 2, xs)
  <1>1. <<x>> \in Seq(Printable) /\ Widths(<<x>>) = 1 /\ x \in Printable
    BY EnoughMarks, Lexical DEF Marks
  <1>2. Blanks(d) \in Seq(Printable) /\ Widths(Blanks(d)) = d
    BY WidthsFew
  <1>3. xs = Blanks(d) \o <<x>>
    <2> DEFINE s == Blanks(d)
               P == Printable
    <2>1. s \in Seq(P) /\ x \in P /\ xs = Append(s, x)
      BY <1>1, <1>2
    <2> HIDE DEF s, P
    <2>2. Append(s, x) = s \o <<x>>
      BY <2>1
    <2> QED
      BY <2>1, <2>2 DEF s
  <1>4. xs \in Seq(Printable) /\ Widths(xs) = d + 1
    <2> DEFINE s == Blanks(d)
               t == <<x>>
    <2>1. s \in Seq(Printable) /\ t \in Seq(Printable) /\ xs = s \o t
          /\ Widths(s) = d /\ Widths(t) = 1
      BY <1>1, <1>2, <1>3
    <2> HIDE DEF s, t
    <2>2. Widths(s \o t) = d + 1
      BY <2>1, WidthsAdd
    <2>3. s \o t \in Seq(Printable)
      BY <2>1
    <2> QED
      BY <2>1, <2>2, <2>3
  <1> QED
    BY <1>4 DEF Enough

\* What ends the object whose members were printed into s.
BraceRoom(format, s) == IF format THEN s.depth + 1 ELSE 2
Brace(format, s) == IF format THEN Append(Blanks(s.depth - 1), "}") ELSE <<"}">>

\* Room for the brace and the blanks before it.
LEMMA BraceEnough ==
    ASSUME NEW format \in BOOLEAN, NEW s, s.depth \in Nat, s.depth > 0
    PROVE  Enough(BraceRoom(format, s), Brace(format, s))
  <1>1. CASE format
    <2>1. s.depth - 1 \in Nat /\ (s.depth - 1) + 2 = s.depth + 1
      OBVIOUS
    <2> DEFINE d == s.depth - 1
               xs == Append(Blanks(d), "}")
    <2>2. Enough(d + 2, xs)
      <3>1. "}" \in Characters
        BY DEF Characters
      <3> QED
        BY <2>1, <3>1, BlanksAndMark
    <2>3. BraceRoom(format, s) = d + 2 /\ Brace(format, s) = xs
      <3>1. Brace(format, s) = xs
        BY <1>1 DEF Brace
      <3>2. BraceRoom(format, s) = d + 2
        BY <1>1, <2>1 DEF BraceRoom
      <3> QED
        BY <3>1, <3>2
    <2> HIDE DEF d, xs
    <2> QED
      BY <2>2, <2>3
  <1>2. CASE ~format
    <2> DEFINE xs == <<"}">>
    <2>1. Enough(2, xs)
      <3>1. "}" \in Characters
        BY DEF Characters
      <3> QED
        BY <3>1, EnoughMarks
    <2>2. BraceRoom(format, s) = 2 /\ Brace(format, s) = xs
      BY <1>2 DEF BraceRoom, Brace
    <2> HIDE DEF xs
    <2> QED
      BY <2>1, <2>2
  <1> QED
    BY <1>1, <1>2

\* print_object.
LEMMA ObjectPrints ==
    ASSUME NEW loop, PrintsMembers(loop), NEW p, Started(p), NEW h \in Heap, Numbered(h),
           NEW item \in Items, NEW r, r = print_object(p, h, item, loop)
    PROVE  /\ Prints(p, r) /\ (r.ok => r.nul)
           /\ \A L \in Nat : Roomy(r, L) => print_object(Larger(p, L), h, item, loop) = Larger(r, L)
  <1> DEFINE format == p.format
             n == IF format THEN 2 ELSE 1
             opening == <<"{">> \o Blanks(n - 1)
             c == h.child[item]
             type == "Object"
             o == Opened(p, n + 1, opening)
             open == Deeper(o)
             listed == Round(loop, open, h, type, c)
             closed == Ended(listed, BraceRoom(format, listed), Brace(format, listed))
  <1>1. c \in Pointers /\ type \in ListTypes /\ Safe(p) /\ format \in BOOLEAN
    BY SafeFields DEF Heap, Pointers, Started, ListTypes
  <1>2. Enough(n + 1, opening)
    <2> DEFINE x == "{"
    <2>1. x \in Characters /\ n \in {1, 2} /\ opening = <<x>> \o Blanks(n - 1)
      BY DEF Characters
    <2> HIDE DEF x, n, opening
    <2> QED
      BY <2>1, MarkAndBlanks
  <1>3. ASSUME NEW q, q.format = format
        PROVE  print_object(q, h, item, loop) =
                 LET s == Round(loop, Deeper(Opened(q, n + 1, opening)), h, type, c)
                 IN  Higher(Ended(s, BraceRoom(format, s), Brace(format, s)))
    <2> DEFINE s == Round(loop, Deeper(Opened(q, n + 1, opening)), h, type, c)
    <2>1. print_object(q, h, item, loop) =
            Higher(IF format
                   THEN Written(ensure(s, s.depth + 1), Append(Blanks(s.depth - 1), "}"), TRUE)
                   ELSE Written(ensure(s, 2), <<"}">>, TRUE))
      BY <1>3, ZenonT(30) DEF print_object, Round, Block, Higher, Deeper, Opened
    <2> HIDE DEF s
    <2> QED
      BY <2>1 DEF s, Ended, Block, BraceRoom, Brace
  <1> HIDE DEF opening, n, type, c
  <1>4. r = Higher(closed)
    BY <1>3
  <1> HIDE DEF format
  <1>5. /\ Prints(p, o) /\ Clear(o)
        /\ \A L \in Nat : Roomy(o, L) => Opened(Larger(p, L), n + 1, opening) = Larger(o, L)
    BY <1>1, <1>2, OpenedPrints
  <1> HIDE DEF o
  <1>6. Started(open) /\ (open.ok => open.depth = p.depth + 1 /\ p.depth \in Nat)
    <2>1. Started(open) /\ open.ok = o.ok /\ (open.ok => open.depth = p.depth + 1)
      BY <1>5, NestedOpens
    <2>2. o.ok => p.depth \in Nat
      BY <1>5 DEF Prints, Started
    <2> QED
      BY <2>1, <2>2
  <1>7. /\ Prints(open, listed) /\ Clear(listed) /\ Started(listed)
        /\ \A L \in Nat : Roomy(listed, L) => Round(loop, Larger(open, L), h, type, c) = Larger(listed, L)
    BY <1>1, <1>6, LoopPrints
  <1> HIDE DEF listed
  <1>8. Safe(listed) /\ Safe(open)
    BY <1>6, <1>7 DEF Started
  <1>9. /\ Prints(listed, closed) /\ (closed.ok => closed.nul)
        /\ \A L \in Nat : Roomy(closed, L) =>
             Ended(Larger(listed, L), BraceRoom(format, listed), Brace(format, listed)) = Larger(closed, L)
    <2> DEFINE m == BraceRoom(format, listed)
               xs == Brace(format, listed)
    <2>1. listed.ok => listed.depth \in Nat /\ listed.depth > 0
      BY <1>6, <1>7 DEF Prints
    <2>2. listed.ok => Enough(m, xs)
      BY <1>1, <2>1, BraceEnough
    <2>3. closed = Ended(listed, m, xs)
      OBVIOUS
    <2> HIDE DEF m, xs, closed
    <2>4. /\ Prints(listed, closed) /\ (closed.ok => closed.nul)
          /\ \A L \in Nat : Roomy(closed, L) => Ended(Larger(listed, L), m, xs) = Larger(closed, L)
      BY <1>8, <2>2, <2>3, EndedPrints
    <2> QED
      BY <2>4 DEF m, xs
  <1> HIDE DEF closed
  <1>10. Prints(open, closed)
    BY <1>7, <1>8, <1>9, PrintsOn
  <1>11. /\ Prints(p, r) /\ r.ok = closed.ok /\ r.nul = closed.nul
         /\ \A L \in Nat : Roomy(r, L) =>
              /\ Roomy(closed, L) /\ Roomy(open, L) /\ Roomy(o, L)
              /\ Deeper(Larger(o, L)) = Larger(open, L)
              /\ Higher(Larger(closed, L)) = Larger(r, L)
    BY <1>4, <1>5, <1>10, NestedPrints
  <1>12. ASSUME NEW L \in Nat, Roomy(r, L)
         PROVE  print_object(Larger(p, L), h, item, loop) = Larger(r, L)
    <2> DEFINE s == Larger(listed, L)
               q == Larger(p, L)
    <2>1. /\ Roomy(closed, L) /\ Roomy(o, L)
          /\ Deeper(Larger(o, L)) = Larger(open, L)
          /\ Higher(Larger(closed, L)) = Larger(r, L)
      BY <1>11, <1>12
    <2>2. Roomy(listed, L) /\ Roomy(p, L)
      BY <1>1, <1>5, <1>7, <1>8, <1>9, <2>1, RoomyBefore DEF Started
    <2>3. Opened(q, n + 1, opening) = Larger(o, L)
      BY <1>5, <2>1
    <2>4. Round(loop, Larger(open, L), h, type, c) = s
      BY <1>7, <2>2
    <2>5. q.format = format
      BY <1>1, <2>2, LargerFields DEF format
    <2>6. s.depth = listed.depth
      BY <1>8, <2>2, LargerFields
    <2>7. Ended(s, BraceRoom(format, listed), Brace(format, listed)) = Larger(closed, L)
      BY <1>9, <2>1
    <2> HIDE DEF s, q
    <2>8. BraceRoom(format, s) = BraceRoom(format, listed) /\ Brace(format, s) = Brace(format, listed)
      BY <2>6 DEF BraceRoom, Brace
    <2>9. s = Round(loop, Deeper(Opened(q, n + 1, opening)), h, type, c)
      BY <2>1, <2>3, <2>4
    <2>10. print_object(q, h, item, loop) = Higher(Ended(s, BraceRoom(format, s), Brace(format, s)))
      BY <1>3, <2>5, <2>9
    <2> QED
      BY <2>1, <2>7, <2>8, <2>10 DEF q
  <1> QED
    BY <1>9, <1>11, <1>12

\* Printing a literal, and a number, of which the offset passes over the digits.
LiteralPrinted(p, x) == Ended(p, Width(x) + 1, <<x>>)
NumberPrinted(p, x) == Added(p, Width(x) + 1, <<x>>)

\* Room for a literal.
LEMMA LiteralEnough ==
    ASSUME NEW x \in Marks \cup Strings \cup NumberLexemes
    PROVE  Enough(Width(x) + 1, <<x>>)
  <1> DEFINE xs == <<x>>
             n == Width(x)
  <1>1. xs \in Seq(Printable) /\ Widths(xs) = n
    BY Lexical
  <1>2. n \in Nat
    BY Lexical, WidthIsNat
  <1> HIDE DEF xs, n
  <1>3. Enough(n + 1, xs)
    BY <1>1, <1>2 DEF Enough
  <1> QED
    BY <1>3 DEF xs, n

\* print_value for null, false and true reserves what it writes.
LEMMA LiteralPrints ==
    ASSUME NEW p, Safe(p), NEW x \in Marks \cup Strings \cup NumberLexemes,
           NEW r, r = LiteralPrinted(p, x)
    PROVE  /\ Prints(p, r) /\ (r.ok => r.nul)
           /\ \A L \in Nat : Roomy(r, L) => LiteralPrinted(Larger(p, L), x) = Larger(r, L)
  <1> DEFINE n == Width(x) + 1
             xs == <<x>>
  <1>1. Enough(n, xs) /\ r = Ended(p, n, xs)
    BY LiteralEnough DEF LiteralPrinted
  <1> HIDE DEF n, xs
  <1>2. /\ Prints(p, r) /\ (r.ok => r.nul)
        /\ \A L \in Nat : Roomy(r, L) => Ended(Larger(p, L), n, xs) = Larger(r, L)
    BY <1>1, EndedPrints
  <1> QED
    BY <1>2 DEF n, xs, LiteralPrinted

\* print_number.
LEMMA NumberPrints ==
    ASSUME NEW p, Safe(p), NEW x \in NumberLexemes, NEW r, r = NumberPrinted(p, x)
    PROVE  /\ Prints(p, r) /\ (r.ok => r.nul)
           /\ \A L \in Nat : Roomy(r, L) => NumberPrinted(Larger(p, L), x) = Larger(r, L)
  <1> DEFINE n == Width(x) + 1
             xs == <<x>>
  <1>1. Enough(n, xs) /\ r = Added(p, n, xs)
    BY LiteralEnough DEF NumberPrinted
  <1> HIDE DEF n, xs
  <1>2. /\ Prints(p, r) /\ Clear(r) /\ (r.ok => r.nul)
        /\ \A L \in Nat : Roomy(r, L) => Added(Larger(p, L), n, xs) = Larger(r, L)
    BY <1>1, AddedPrints
  <1> QED
    BY <1>2 DEF n, xs, NumberPrinted

\* print_value.
LEMMA ValuePrints ==
    ASSUME NEW loop, PrintsMembers(loop), NEW p, Started(p), NEW h \in Heap, Numbered(h),
           NEW item \in Items, NEW r, r = print_value(p, h, item, loop)
    PROVE  /\ Prints(p, r) /\ (r.ok => r.nul)
           /\ \A L \in Nat : Roomy(r, L) => print_value(Larger(p, L), h, item, loop) = Larger(r, L)
  <1> DEFINE type == h.type[item]
             Printed1(q) == print_value(q, h, item, loop)
  <1>0. Safe(p)
    BY DEF Started
  <1>1. CASE type \in {"NULL", "False", "True"}
    <2> DEFINE x == IF type = "NULL" THEN "null" ELSE IF type = "False" THEN "false" ELSE "true"
    <2>1. \A q : print_value(q, h, item, loop) = LiteralPrinted(q, x)
      BY <1>1 DEF print_value, LiteralPrinted, Ended, Block
    <2>2. x \in Marks
      BY DEF Marks
    <2> HIDE DEF x
    <2>3. /\ Prints(p, r) /\ (r.ok => r.nul)
          /\ \A L \in Nat : Roomy(r, L) => LiteralPrinted(Larger(p, L), x) = Larger(r, L)
      BY <1>0, <2>1, <2>2, LiteralPrints
    <2> QED
      BY <2>1, <2>3
  <1>2. CASE type = "Number"
    <2> DEFINE x == Lexeme[h.valueint[item]]
    <2>1. \A q : print_value(q, h, item, loop) = NumberPrinted(q, x)
      BY <1>2 DEF print_value, NumberPrinted, Added, Block
    <2>2. x \in NumberLexemes
      BY <1>2 DEF Numbered, NumberLexemes
    <2> HIDE DEF x
    <2>3. /\ Prints(p, r) /\ (r.ok => r.nul)
          /\ \A L \in Nat : Roomy(r, L) => NumberPrinted(Larger(p, L), x) = Larger(r, L)
      BY <1>0, <2>1, <2>2, NumberPrints
    <2> QED
      BY <2>1, <2>3
  <1>3. CASE type = "String"
    <2> DEFINE s == h.valuestring[item]
    <2>1. \A q : print_value(q, h, item, loop) = print_string_ptr(q, s)
      BY <1>3 DEF print_value
    <2>2. s \in Strings \cup {NULL}
      BY DEF Heap
    <2> HIDE DEF s
    <2>3. /\ Prints(p, r) /\ (r.ok => r.nul)
          /\ \A L \in Nat : Roomy(r, L) => print_string_ptr(Larger(p, L), s) = Larger(r, L)
      BY <1>0, <2>1, <2>2, StringPrints
    <2> QED
      BY <2>1, <2>3
  <1>4. CASE type = "Array"
    <2>1. \A q : print_value(q, h, item, loop) = print_array(q, h, item, loop)
      BY <1>4 DEF print_value
    <2> QED
      BY <2>1, ArrayPrints
  <1>5. CASE type = "Object"
    <2>1. \A q : print_value(q, h, item, loop) = print_object(q, h, item, loop)
      BY <1>5 DEF print_value
    <2> QED
      BY <2>1, ObjectPrints
  <1>6. CASE type = "Raw" /\ h.valuestring[item] # NULL
    <2> DEFINE s == h.valuestring[item]
    <2>1. \A q : print_value(q, h, item, loop) = RawPrinted(q, s)
      BY <1>6 DEF print_value, RawPrinted, Ended, Block
    <2>2. s \in Strings
      BY <1>6 DEF Heap
    <2> HIDE DEF s
    <2>3. /\ Prints(p, r) /\ (r.ok => r.nul)
          /\ \A L \in Nat : Roomy(r, L) => RawPrinted(Larger(p, L), s) = Larger(r, L)
      BY <1>0, <2>1, <2>2, RawPrints
    <2> QED
      BY <2>1, <2>3
  <1>7. CASE /\ type \notin {"NULL", "False", "True", "Number", "String", "Array", "Object"}
             /\ ~(type = "Raw" /\ h.valuestring[item] # NULL)
    <2>1. r = Fail(p)
      BY <1>7 DEF print_value, Fail
    <2>2. Prints(p, r) /\ ~r.ok
      BY <1>0, <2>1, PrintStops
    <2> QED
      BY <2>2 DEF Roomy
  <1> QED
    BY <1>1, <1>2, <1>3, <1>4, <1>5, <1>6, <1>7

\* A value and the update of the offset behind it.
Value(p, h, item, loop) == update_offset(print_value(p, h, item, loop))

\* It prints, and what was printed has been passed over.
LEMMA ValueUpdated ==
    ASSUME NEW loop, PrintsMembers(loop), NEW p, Started(p), NEW h \in Heap, Numbered(h),
           NEW item \in Items, NEW r, r = Value(p, h, item, loop)
    PROVE  /\ Prints(p, r) /\ Clear(r) /\ Started(r)
           /\ \A L \in Nat : Roomy(r, L) => Value(Larger(p, L), h, item, loop) = Larger(r, L)
  <1> DEFINE b == print_value(p, h, item, loop)
  <1>1. /\ Prints(p, b) /\ (b.ok => b.nul)
        /\ \A L \in Nat : Roomy(b, L) => print_value(Larger(p, L), h, item, loop) = Larger(b, L)
    BY ValuePrints
  <1>2. r = update_offset(b)
    BY DEF Value
  <1> HIDE DEF b
  <1>3. /\ Prints(p, r) /\ Clear(r)
        /\ \A L \in Nat : Roomy(r, L) => Roomy(b, L) /\ update_offset(Larger(b, L)) = Larger(r, L)
    BY <1>1, <1>2, UpdatePrints
  <1>4. Started(r)
    BY <1>3, StartedOn
  <1>5. ASSUME NEW L \in Nat, Roomy(r, L) PROVE Value(Larger(p, L), h, item, loop) = Larger(r, L)
    <2>1. Roomy(b, L) /\ update_offset(Larger(b, L)) = Larger(r, L)
      BY <1>3, <1>5
    <2>2. print_value(Larger(p, L), h, item, loop) = Larger(b, L)
      BY <1>1, <2>1
    <2> QED
      BY <2>1, <2>2 DEF Value
  <1> QED
    BY <1>3, <1>4, <1>5

\* A key and the update of the offset behind it.
Key(p, s) == update_offset(print_string_ptr(p, s))

\* So does a key.
LEMMA KeyUpdated ==
    ASSUME NEW p, Started(p), NEW s \in Strings \cup {NULL}, NEW r, r = Key(p, s)
    PROVE  /\ Prints(p, r) /\ Clear(r) /\ Started(r)
           /\ \A L \in Nat : Roomy(r, L) => Key(Larger(p, L), s) = Larger(r, L)
  <1> DEFINE b == print_string_ptr(p, s)
  <1>0. Safe(p)
    BY DEF Started
  <1>1. /\ Prints(p, b) /\ (b.ok => b.nul)
        /\ \A L \in Nat : Roomy(b, L) => print_string_ptr(Larger(p, L), s) = Larger(b, L)
    BY <1>0, StringPrints
  <1>2. r = update_offset(b)
    BY DEF Key
  <1> HIDE DEF b
  <1>3. /\ Prints(p, r) /\ Clear(r)
        /\ \A L \in Nat : Roomy(r, L) => Roomy(b, L) /\ update_offset(Larger(b, L)) = Larger(r, L)
    BY <1>1, <1>2, UpdatePrints
  <1>4. Started(r)
    BY <1>3, StartedOn
  <1>5. ASSUME NEW L \in Nat, Roomy(r, L) PROVE Key(Larger(p, L), s) = Larger(r, L)
    <2>1. Roomy(b, L) /\ update_offset(Larger(b, L)) = Larger(r, L)
      BY <1>3, <1>5
    <2>2. print_string_ptr(Larger(p, L), s) = Larger(b, L)
      BY <1>1, <2>1
    <2> QED
      BY <2>1, <2>2 DEF Key
  <1> QED
    BY <1>3, <1>4, <1>5

\* An element of an array, the comma behind it and those after it.
LEMMA ElementPrints ==
    ASSUME NEW loop, PrintsMembers(loop), NEW p, Started(p), NEW h \in Heap, Numbered(h),
           NEW c \in Items, NEW r, r = print_element(p, h, c, loop)
    PROVE  /\ Prints(p, r) /\ Clear(r)
           /\ \A L \in Nat : Roomy(r, L) => print_element(Larger(p, L), h, c, loop) = Larger(r, L)
  <1> DEFINE n == IF p.format THEN 2 ELSE 1
             comma == <<",">> \o Blanks(n - 1)
             type == "Array"
             next == h.next[c]
             printed == Value(p, h, c, loop)
             added == Added(printed, n + 1, comma)
  <1>0. Safe(p)
    BY DEF Started
  <1>1. /\ Prints(p, printed) /\ Clear(printed) /\ Started(printed)
        /\ \A L \in Nat : Roomy(printed, L) => Value(Larger(p, L), h, c, loop) = Larger(printed, L)
    BY ValueUpdated
  <1>2. CASE next = NULL
    <2>1. \A q : print_element(q, h, c, loop) = Value(q, h, c, loop)
      BY <1>2 DEF print_element, Value
    <2> HIDE DEF printed
    <2>2. r = printed
      BY <2>1 DEF printed
    <2> QED
      BY <1>1, <2>1, <2>2
  <1>3. CASE next # NULL
    <2>1. ASSUME NEW q, q.format = p.format
          PROVE  print_element(q, h, c, loop) =
                   Round(loop, Added(Value(q, h, c, loop), n + 1, comma), h, type, next)
      BY <1>3, <2>1 DEF print_element, Value, Round, Added, Block
    <2>2. n \in {1, 2} /\ type \in ListTypes /\ next \in Pointers
      BY DEF ListTypes, Heap, Pointers
    <2>3. Enough(n + 1, comma)
      <3> DEFINE x == ","
      <3>1. x \in Characters /\ comma = <<x>> \o Blanks(n - 1)
        BY DEF Characters
      <3> HIDE DEF x, n, comma
      <3> QED
        BY <2>2, <3>1, MarkAndBlanks
    <2> HIDE DEF comma, type, next, printed
    <2>4. r = Round(loop, added, h, type, next)
      BY <2>1 DEF printed
    <2> HIDE DEF n
    <2>5. /\ Prints(printed, added) /\ Clear(added)
          /\ \A L \in Nat : Roomy(added, L) =>
               Added(Larger(printed, L), n + 1, comma) = Larger(added, L)
      BY <1>1, <2>3, AddedPrints DEF Started
    <2> HIDE DEF added
    <2>6. Started(added)
      BY <1>1, <2>5, StartedOn
    <2>7. /\ Prints(added, r) /\ Clear(r)
          /\ \A L \in Nat : Roomy(r, L) => Round(loop, Larger(added, L), h, type, next) = Larger(r, L)
      BY <2>2, <2>4, <2>6, LoopPrints
    <2>8. Safe(printed) /\ Safe(added)
      BY <1>1, <2>6 DEF Started
    <2>9. Prints(p, r)
      <3>1. Prints(p, added)
        BY <1>0, <1>1, <2>5, PrintsOn
      <3> QED
        BY <1>0, <2>5, <2>7, <3>1, PrintsOn
    <2>10. ASSUME NEW L \in Nat, Roomy(r, L)
           PROVE  print_element(Larger(p, L), h, c, loop) = Larger(r, L)
      <3> DEFINE q == Larger(p, L)
      <3>1. Roomy(added, L)
        BY <2>5, <2>7, <2>8, <2>10, RoomyBefore
      <3>2. Roomy(printed, L)
        BY <1>1, <2>5, <2>8, <3>1, RoomyBefore
      <3>3. Roomy(p, L)
        BY <1>0, <1>1, <3>2, RoomyBefore DEF Started
      <3>4. q.format = p.format
        BY <1>0, <3>3, LargerFields
      <3>5. Value(q, h, c, loop) = Larger(printed, L)
        BY <1>1, <3>2
      <3>6. Added(Larger(printed, L), n + 1, comma) = Larger(added, L)
        BY <2>5, <3>1
      <3>7. Round(loop, Larger(added, L), h, type, next) = Larger(r, L)
        BY <2>7, <2>10
      <3> HIDE DEF q
      <3>8. print_element(q, h, c, loop) = Larger(r, L)
        BY <2>1, <3>4, <3>5, <3>6, <3>7
      <3> QED
        BY <3>8 DEF q
    <2> QED
      BY <2>7, <2>9, <2>10
  <1> QED
    BY <1>2, <1>3

\* The blanks before a member.
Indented(p) == IF p.format THEN Opened(p, p.depth, Blanks(p.depth)) ELSE p

\* The blanks are reserved before they are written.
LEMMA IndentedPrints ==
    ASSUME NEW p, Started(p), NEW r, r = Indented(p)
    PROVE  /\ Prints(p, r) /\ Clear(r) /\ Started(r)
           /\ \A L \in Nat : Roomy(r, L) => Indented(Larger(p, L)) = Larger(r, L)
  <1>0. Safe(p)
    BY DEF Started
  <1>1. CASE ~p.format
    <2>1. r = p
      BY <1>1 DEF Indented
    <2>2. ASSUME NEW L \in Nat, Roomy(p, L) PROVE Indented(Larger(p, L)) = Larger(p, L)
      <3> DEFINE q == Larger(p, L)
      <3>1. q.format = p.format
        BY <1>0, <2>2, LargerFields
      <3> HIDE DEF q
      <3>2. Indented(q) = q
        BY <1>1, <3>1 DEF Indented
      <3> QED
        BY <3>2 DEF q
    <2> QED
      BY <1>0, <2>1, <2>2, PrintsNothing DEF Started
  <1>2. CASE p.format
    <2> DEFINE n == p.depth
               xs == Blanks(n)
    <2>1. r = Opened(p, n, xs)
      BY <1>2 DEF Indented
    <2>2. p.ok => Enough(n, xs)
      BY WidthsFew DEF Started, Enough
    <2>3. ASSUME NEW q, q.format = p.format, q.depth = p.depth PROVE Indented(q) = Opened(q, n, xs)
      BY <1>2, <2>3 DEF Indented
    <2> HIDE DEF n, xs
    <2>4. /\ Prints(p, r) /\ Clear(r)
          /\ \A L \in Nat : Roomy(r, L) => Opened(Larger(p, L), n, xs) = Larger(r, L)
      BY <1>0, <2>1, <2>2, OpenedPrints
    <2>5. Started(r)
      BY <2>4, StartedOn
    <2>6. ASSUME NEW L \in Nat, Roomy(r, L) PROVE Indented(Larger(p, L)) = Larger(r, L)
      <3> DEFINE q == Larger(p, L)
      <3>1. Roomy(p, L)
        BY <2>4, <2>6, RoomyBefore DEF Started
      <3>2. q.format = p.format /\ q.depth = p.depth
        BY <1>0, <3>1, LargerFields
      <3>3. Opened(q, n, xs) = Larger(r, L)
        BY <2>4, <2>6
      <3> HIDE DEF q
      <3>4. Indented(q) = Larger(r, L)
        BY <2>3, <3>2, <3>3
      <3> QED
        BY <3>4 DEF q
    <2> QED
      BY <2>4, <2>5, <2>6
  <1> QED
    BY <1>1, <1>2

\* What ends a member: a comma, unless it is the last one, and perhaps a blank.
LEMMA CommaEnough ==
    ASSUME NEW h, NEW c, NEW n \in {1, 2}, NEW xs, xs = Comma(h, c) \o Blanks(n - 1)
    PROVE  Enough(Len(xs) + 1, xs)
  <1>1. CASE h.next[c] # NULL
    <2> DEFINE x == ","
    <2>1. x \in Characters /\ xs = <<x>> \o Blanks(n - 1)
      BY <1>1 DEF Comma, Characters
    <2> HIDE DEF x
    <2>2. Enough(n + 1, xs) /\ Len(xs) = n
      BY <2>1, MarkAndBlanks
    <2> QED
      BY <2>2
  <1>2. CASE h.next[c] = NULL
    <2> DEFINE s == Blanks(n - 1)
    <2>1. n - 1 \in Nat /\ n - 1 <= 5
      OBVIOUS
    <2>2. s \in Seq(Printable) /\ Widths(s) = n - 1
      BY <2>1, WidthsFew
    <2>3. Len(s) = n - 1
      BY <2>1 DEF Blanks
    <2>4. xs = <<>> \o s
      BY <1>2 DEF Comma
    <2> HIDE DEF s
    <2>5. xs = s
      BY <2>2, <2>4
    <2> DEFINE d == n - 1
    <2>6. d \in Nat /\ d <= 5 /\ xs \in Seq(Printable) /\ Widths(xs) = d /\ Len(xs) = d
      BY <2>1, <2>2, <2>3, <2>5
    <2> HIDE DEF d
    <2>7. Enough(d + 1, xs)
      BY <2>6 DEF Enough
    <2> QED
      BY <2>6, <2>7
  <1> QED
    BY <1>1, <1>2

\* A member of an object, and those after it.
LEMMA PairPrints ==
    ASSUME NEW loop, PrintsMembers(loop), NEW p, Started(p), NEW h \in Heap, Numbered(h),
           NEW c \in Items, NEW r, r = print_pair(p, h, c, loop)
    PROVE  /\ Prints(p, r) /\ Clear(r)
           /\ \A L \in Nat : Roomy(r, L) => print_pair(Larger(p, L), h, c, loop) = Larger(r, L)
  <1> DEFINE n == IF p.format THEN 2 ELSE 1
             colons == <<":">> \o Blanks(n - 1)
             comma == Comma(h, c) \o Blanks(n - 1)
             m == Len(comma) + 1
             type == "Object"
             s == h.string[c]
             next == h.next[c]
             indented == Indented(p)
             key == Key(indented, s)
             colon == Opened(key, n, colons)
             value == Value(colon, h, c, loop)
             ended == Added(value, m, comma)
  <1>0. Safe(p)
    BY DEF Started
  <1>1. n \in {1, 2} /\ type \in ListTypes /\ next \in Pointers /\ s \in Strings \cup {NULL}
    BY DEF ListTypes, Heap, Pointers
  <1>2. ASSUME NEW q, q.format = p.format
        PROVE  print_pair(q, h, c, loop) =
                 Round(loop, Added(Value(Opened(Key(Indented(q), s), n, colons), h, c, loop), m, comma),
                       h, type, next)
    <2> DEFINE k == Key(Indented(q), s)
    <2>1. print_pair(q, h, c, loop) =
            Round(loop, Passed(Written(ensure(
                update_offset(print_value(Passed(Written(ensure(k, n), colons, FALSE)), h, c, loop)),
                m), comma, TRUE)), h, type, next)
      BY <1>2 DEF print_pair, Key, Indented, Opened, Block, Round
    <2> HIDE DEF k
    <2> QED
      BY <2>1 DEF k, Opened, Block, Added, Value
  <1>3. Enough(n, colons)
    <2> DEFINE x == ":"
    <2>1. x \in Characters /\ colons = <<x>> \o Blanks(n - 1)
      BY DEF Characters
    <2> HIDE DEF x, n, colons
    <2> QED
      BY <1>1, <2>1, MarkAndBlanks
  <1>4. Enough(m, comma)
    <2> HIDE DEF n
    <2> QED
      BY <1>1, CommaEnough
  <1> HIDE DEF colons, comma, m, type, s, next
  <1>5. r = Round(loop, ended, h, type, next)
    BY <1>2
  <1> HIDE DEF n
  <1>6. /\ Prints(p, indented) /\ Clear(indented) /\ Started(indented)
        /\ \A L \in Nat : Roomy(indented, L) => Indented(Larger(p, L)) = Larger(indented, L)
    BY IndentedPrints
  <1> HIDE DEF indented
  <1>7. /\ Prints(indented, key) /\ Clear(key) /\ Started(key)
        /\ \A L \in Nat : Roomy(key, L) => Key(Larger(indented, L), s) = Larger(key, L)
    BY <1>1, <1>6, KeyUpdated
  <1> HIDE DEF key
  <1>8. /\ Prints(key, colon) /\ Clear(colon)
        /\ \A L \in Nat : Roomy(colon, L) => Opened(Larger(key, L), n, colons) = Larger(colon, L)
    BY <1>3, <1>7, OpenedPrints DEF Started
  <1> HIDE DEF colon
  <1>9. Started(colon)
    BY <1>7, <1>8, StartedOn
  <1>10. /\ Prints(colon, value) /\ Clear(value) /\ Started(value)
         /\ \A L \in Nat : Roomy(value, L) => Value(Larger(colon, L), h, c, loop) = Larger(value, L)
    BY <1>9, ValueUpdated
  <1> HIDE DEF value
  <1>11. /\ Prints(value, ended) /\ Clear(ended)
         /\ \A L \in Nat : Roomy(ended, L) => Added(Larger(value, L), m, comma) = Larger(ended, L)
    BY <1>4, <1>10, AddedPrints DEF Started
  <1> HIDE DEF ended
  <1>12. Started(ended)
    BY <1>10, <1>11, StartedOn
  <1>13. /\ Prints(ended, r) /\ Clear(r)
         /\ \A L \in Nat : Roomy(r, L) => Round(loop, Larger(ended, L), h, type, next) = Larger(r, L)
    BY <1>1, <1>5, <1>12, LoopPrints
  <1>14. Safe(indented) /\ Safe(key) /\ Safe(colon) /\ Safe(value) /\ Safe(ended)
    BY <1>6, <1>7, <1>9, <1>10, <1>12 DEF Started
  <1>15. Prints(p, r)
    <2>1. Prints(p, key)
      BY <1>0, <1>6, <1>7, PrintsOn
    <2>2. Prints(p, colon)
      BY <1>0, <1>7, <1>8, <2>1, PrintsOn
    <2>3. Prints(p, value)
      BY <1>0, <1>8, <1>10, <2>2, PrintsOn
    <2>4. Prints(p, ended)
      BY <1>0, <1>10, <1>11, <2>3, PrintsOn
    <2> QED
      BY <1>0, <1>11, <1>13, <2>4, PrintsOn
  <1>16. ASSUME NEW L \in Nat, Roomy(r, L)
         PROVE  print_pair(Larger(p, L), h, c, loop) = Larger(r, L)
    <2>1. Roomy(ended, L)
      BY <1>11, <1>13, <1>14, <1>16, RoomyBefore
    <2>2. Roomy(value, L)
      BY <1>10, <1>11, <1>14, <2>1, RoomyBefore
    <2>3. Roomy(colon, L)
      BY <1>8, <1>10, <1>14, <2>2, RoomyBefore
    <2>4. Roomy(key, L)
      BY <1>7, <1>8, <1>14, <2>3, RoomyBefore
    <2>5. Roomy(indented, L)
      BY <1>6, <1>7, <1>14, <2>4, RoomyBefore
    <2>6. Roomy(p, L)
      BY <1>0, <1>6, <2>5, RoomyBefore DEF Started
    <2> DEFINE q == Larger(p, L)
    <2>7. q.format = p.format
      BY <1>0, <2>6, LargerFields
    <2>8. /\ Indented(q) = Larger(indented, L)
          /\ Key(Larger(indented, L), s) = Larger(key, L)
          /\ Opened(Larger(key, L), n, colons) = Larger(colon, L)
          /\ Value(Larger(colon, L), h, c, loop) = Larger(value, L)
          /\ Added(Larger(value, L), m, comma) = Larger(ended, L)
          /\ Round(loop, Larger(ended, L), h, type, next) = Larger(r, L)
      BY <1>6, <1>7, <1>8, <1>10, <1>11, <1>13, <1>16, <2>1, <2>2, <2>3, <2>4, <2>5
    <2> HIDE DEF q
    <2>9. print_pair(q, h, c, loop) = Larger(r, L)
      BY <1>2, <2>7, <2>8
    <2> QED
      BY <2>9 DEF q
  <1> QED
    BY <1>13, <1>15, <1>16

-----------------------------------------------------------------------------
(* The loops *)

\* A round of a loop without rounds left, and of one with more.
LEMMA RoundOf ==
    ASSUME NEW loop, NEW p \in PrintBuffers, NEW h \in Heap, NEW type \in ListTypes, NEW c \in Pointers
    PROVE  /\ Round(NonePrinted, p, h, type, c) = IF c = NULL THEN p ELSE Fail(p)
           /\ Round(PrintedMembers(loop), p, h, type, c) =
                IF c = NULL \/ ~p.ok THEN p
                ELSE IF type = "Array" THEN print_element(p, h, c, loop)
                ELSE print_pair(p, h, c, loop)
  <1> DEFINE t == <<p, h, type, c>>
  <1>1. t \in PrintRounds /\ t[1] = p /\ t[2] = h /\ t[3] = type /\ t[4] = c
    BY DEF PrintRounds, ListTypes
  <1> HIDE DEF t
  <1>2. NonePrinted[t] = IF t[4] = NULL THEN t[1] ELSE Fail(t[1])
    BY <1>1 DEF NonePrinted
  <1>3. PrintedMembers(loop)[t] =
          IF t[4] = NULL \/ ~t[1].ok THEN t[1]
          ELSE IF t[3] = "Array" THEN print_element(t[1], t[2], t[4], loop)
          ELSE print_pair(t[1], t[2], t[4], loop)
    BY <1>1 DEF PrintedMembers
  <1> QED
    BY <1>1, <1>2, <1>3 DEF Round, t

\* Both print.
LEMMA RoundsPrint ==
    ASSUME NEW loop, loop = NonePrinted \/ \E l : PrintsMembers(l) /\ loop = PrintedMembers(l)
    PROVE  PrintsMembers(loop)
  <1> SUFFICES ASSUME NEW p \in PrintBuffers, NEW h \in Heap, NEW type \in ListTypes, NEW c \in Pointers,
                      Started(p), Numbered(h), NEW r, r = Round(loop, p, h, type, c)
               PROVE  /\ Prints(p, r) /\ Clear(r)
                      /\ \A L \in Nat : Roomy(r, L) => Round(loop, Larger(p, L), h, type, c) = Larger(r, L)
    BY DEF PrintsMembers, ListTypes
  <1>0. Safe(p) /\ Clear(p) /\ Prints(p, p)
    BY PrintsNothing DEF Started
  <1>1. ASSUME NEW L \in Nat, Roomy(p, L) PROVE Larger(p, L) \in PrintBuffers /\ Larger(p, L).ok
    BY <1>0, <1>1, LargerFields DEF Roomy
  <1>2. CASE c = NULL
    <2>1. \A q \in PrintBuffers : Round(loop, q, h, type, c) = q
      BY <1>2, RoundOf
    <2>2. r = p
      BY <2>1
    <2> QED
      BY <1>0, <1>1, <2>1, <2>2
  <1>3. CASE c # NULL /\ loop = NonePrinted
    <2>1. r = Fail(p)
      BY <1>3, RoundOf
    <2>2. Prints(p, r) /\ ~r.ok
      BY <1>0, <2>1, PrintStops
    <2> QED
      BY <2>2 DEF Clear, Roomy
  <1>4. CASE c # NULL /\ \E l : PrintsMembers(l) /\ loop = PrintedMembers(l)
    <2>1. PICK l : PrintsMembers(l) /\ loop = PrintedMembers(l)
      BY <1>4
    <2>2. c \in Items
      BY <1>4 DEF Pointers
    <2> DEFINE Member(q) == IF type = "Array" THEN print_element(q, h, c, l) ELSE print_pair(q, h, c, l)
    <2>3. ASSUME NEW q \in PrintBuffers
          PROVE  Round(loop, q, h, type, c) = IF ~q.ok THEN q ELSE Member(q)
      <3>1. Round(PrintedMembers(l), q, h, type, c) =
              IF c = NULL \/ ~q.ok THEN q
              ELSE IF type = "Array" THEN print_element(q, h, c, l)
              ELSE print_pair(q, h, c, l)
        BY RoundOf
      <3>2. loop = PrintedMembers(l) /\ c # NULL
        BY <1>4, <2>1
      <3> QED
        BY <3>1, <3>2
    <2>4. CASE ~p.ok
      <3>1. r = p
        BY <2>3, <2>4
      <3> QED
        BY <1>0, <2>4, <3>1 DEF Roomy
    <2>5. CASE p.ok
      <3>1. r = Member(p)
        BY <2>3, <2>5
      <3>2. /\ Prints(p, r) /\ Clear(r)
            /\ \A L \in Nat : Roomy(r, L) => Member(Larger(p, L)) = Larger(r, L)
        <4>1. CASE type = "Array"
          <5>1. \A q : Member(q) = print_element(q, h, c, l)
            BY <4>1
          <5> HIDE DEF Member
          <5>2. r = print_element(p, h, c, l)
            BY <3>1, <5>1
          <5> QED
            BY <2>1, <2>2, <5>1, <5>2, ElementPrints
        <4>2. CASE type # "Array"
          <5>1. \A q : Member(q) = print_pair(q, h, c, l)
            BY <4>2
          <5> HIDE DEF Member
          <5>2. r = print_pair(p, h, c, l)
            BY <3>1, <5>1
          <5> QED
            BY <2>1, <2>2, <5>1, <5>2, PairPrints
        <4> QED
          BY <4>1, <4>2
      <3> HIDE DEF Member
      <3>3. ASSUME NEW L \in Nat, Roomy(r, L)
            PROVE  Round(loop, Larger(p, L), h, type, c) = Larger(r, L)
        <4>1. Roomy(p, L)
          BY <1>0, <3>2, <3>3, RoomyBefore
        <4>2. Larger(p, L) \in PrintBuffers /\ Larger(p, L).ok
          BY <1>1, <4>1
        <4>3. Member(Larger(p, L)) = Larger(r, L)
          BY <3>2, <3>3
        <4> QED
          BY <2>3, <4>2, <4>3
      <3> QED
        BY <3>2, <3>3
    <2> QED
      BY <2>4, <2>5
  <1> QED
    BY <1>2, <1>3, <1>4

\* A sequence of n loops, each made of the one before.
PrintedUpTo(g, n) == g[0] = NonePrinted /\ \A i \in 0..n-1 : g[i + 1] = PrintedMembers(g[i])

\* There is a sequence of n loops, each made of the one before.
LEMMA PrintersExist ==
    ASSUME NEW n \in Nat
    PROVE  \E g : PrintedUpTo(g, n)
  <1> DEFINE Good == {m \in Nat : \E g : PrintedUpTo(g, m)}
  <1>1. 0 \in Good
    <2>1. PrintedUpTo([i \in 0..0 |-> NonePrinted], 0)
      BY DEF PrintedUpTo
    <2> QED
      BY <2>1
  <1>2. ASSUME NEW m \in Nat, m \in Good PROVE m + 1 \in Good
    <2>1. PICK g : PrintedUpTo(g, m)
      BY <1>2
    <2> DEFINE k == [i \in 0..m+1 |-> IF i = m + 1 THEN PrintedMembers(g[m]) ELSE g[i]]
    <2>2. k[0] = NonePrinted
      BY <2>1 DEF PrintedUpTo
    <2>3. ASSUME NEW i \in 0..m PROVE k[i + 1] = PrintedMembers(k[i])
      <3>1. i \in 0..m+1 /\ i + 1 \in 0..m+1 /\ i # m + 1 /\ (i + 1 = m + 1 <=> i = m)
        OBVIOUS
      <3>2. k[i] = g[i] /\ k[i + 1] = IF i = m THEN PrintedMembers(g[m]) ELSE g[i + 1]
        BY <3>1
      <3>3. i # m => i \in 0..m-1
        OBVIOUS
      <3>4. i # m => g[i + 1] = PrintedMembers(g[i])
        BY <2>1, <3>3 DEF PrintedUpTo
      <3> HIDE DEF k
      <3> QED
        BY <3>2, <3>4
    <2>4. (m + 1) - 1 = m
      OBVIOUS
    <2> HIDE DEF k
    <2>5. PrintedUpTo(k, m + 1)
      BY <2>2, <2>3, <2>4 DEF PrintedUpTo
    <2> QED
      BY <2>5
  <1> HIDE DEF Good
  <1>3. 0..n \subseteq Good
    BY <1>1, <1>2, UpTo
  <1> QED
    BY <1>3 DEF Good

\* Two such sequences agree.
LEMMA PrintersAgree ==
    ASSUME NEW n \in Nat, NEW m \in Nat, n <= m, NEW g, NEW k, PrintedUpTo(g, n), PrintedUpTo(k, m)
    PROVE  g[n] = k[n]
  <1> DEFINE Same == {i \in 0..n : g[i] = k[i]}
  <1>1. 0 \in Same
    BY DEF PrintedUpTo
  <1>2. ASSUME NEW i \in 0..n-1, i \in Same PROVE i + 1 \in Same
    <2>1. i \in 0..m-1 /\ i + 1 \in 0..n /\ g[i] = k[i]
      BY <1>2
    <2>2. g[i + 1] = PrintedMembers(g[i]) /\ k[i + 1] = PrintedMembers(k[i])
      BY <2>1 DEF PrintedUpTo
    <2> QED
      BY <2>1, <2>2
  <1> HIDE DEF Same
  <1>3. 0..n \subseteq Same
    BY <1>1, <1>2, UpTo
  <1> QED
    BY <1>3 DEF Same

\* The loop with no round left, and with one more.
LEMMA PrinterRounds ==
    /\ print_members[0] = NonePrinted
    /\ \A n \in Nat : print_members[n + 1] = PrintedMembers(print_members[n])
  <1> DEFINE G(n) == CHOOSE g : PrintedUpTo(g, n)
             f == [n \in Nat |-> G(n)[n]]
  <1>1. ASSUME NEW n \in Nat PROVE PrintedUpTo(G(n), n)
    BY PrintersExist
  <1> HIDE DEF G
  <1>2. f[0] = NonePrinted
    BY <1>1 DEF PrintedUpTo
  <1>3. ASSUME NEW n \in Nat PROVE f[n + 1] = PrintedMembers(f[n])
    <2>1. n + 1 \in Nat /\ n <= n + 1 /\ n \in 0..(n+1)-1
      OBVIOUS
    <2>2. G(n + 1)[n + 1] = PrintedMembers(G(n + 1)[n])
      BY <1>1, <2>1 DEF PrintedUpTo
    <2>3. PrintedUpTo(G(n), n) /\ PrintedUpTo(G(n + 1), n + 1)
      BY <1>1, <2>1
    <2>4. G(n)[n] = G(n + 1)[n]
      BY <2>1, <2>3, PrintersAgree
    <2> QED
      BY <2>1, <2>2, <2>4
  <1>4. f = [n \in Nat |-> IF n = 0 THEN NonePrinted ELSE PrintedMembers(f[n - 1])]
    <2>1. ASSUME NEW n \in Nat PROVE f[n] = IF n = 0 THEN NonePrinted ELSE PrintedMembers(f[n - 1])
      <3>1. n # 0 => n - 1 \in Nat /\ (n - 1) + 1 = n
        OBVIOUS
      <3> HIDE DEF f
      <3> QED
        BY <1>2, <1>3, <3>1
    <2>2. f = [n \in Nat |-> f[n]]
      OBVIOUS
    <2> HIDE DEF f
    <2> QED
      BY <2>1, <2>2
  <1> HIDE DEF f
  <1>5. print_members = [n \in Nat |-> IF n = 0 THEN NonePrinted ELSE PrintedMembers(print_members[n - 1])]
    BY <1>4 DEF print_members
  <1>6. \A n \in Nat : n + 1 \in Nat /\ n + 1 # 0 /\ (n + 1) - 1 = n
    OBVIOUS
  <1> QED
    BY <1>5, <1>6

\* The loop over the members prints them, whatever rounds it has left.
LEMMA PrintersPrint ==
    ASSUME NEW n \in Nat
    PROVE  PrintsMembers(print_members[n])
  <1> DEFINE Good == {m \in Nat : PrintsMembers(print_members[m])}
  <1>1. PrintsMembers(print_members[0])
    <2>1. print_members[0] = NonePrinted
      BY PrinterRounds
    <2> QED
      BY <2>1, RoundsPrint
  <1>2. ASSUME NEW m \in Nat, m \in Good PROVE m + 1 \in Good
    <2>1. print_members[m + 1] = PrintedMembers(print_members[m])
      BY PrinterRounds
    <2>2. PrintsMembers(print_members[m])
      BY <1>2
    <2>3. PrintsMembers(print_members[m + 1])
      <3> DEFINE less == print_members[m]
                 more == print_members[m + 1]
      <3>1. more = PrintedMembers(less) /\ PrintsMembers(less)
        BY <2>1, <2>2
      <3> HIDE DEF less, more
      <3>2. PrintsMembers(more)
        BY <3>1, RoundsPrint
      <3> QED
        BY <3>2 DEF more
    <2> QED
      BY <2>3
  <1> HIDE DEF Good
  <1>3. 0 \in Good
    BY <1>1 DEF Good
  <1>4. 0..n \subseteq Good
    BY <1>2, <1>3, UpTo
  <1> QED
    BY <1>4 DEF Good

-----------------------------------------------------------------------------
(* The calls *)

\* The value an item has.
LEMMA WholePrints ==
    ASSUME NEW p, Started(p), NEW h \in Heap, Numbered(h), NEW item \in Items,
           NEW r, r = printed_value(p, h, item)
    PROVE  /\ Prints(p, r) /\ (r.ok => r.nul)
           /\ \A L \in Nat : Roomy(r, L) => printed_value(Larger(p, L), h, item) = Larger(r, L)
  <1> DEFINE loop == print_members[Cardinality(Items)]
  <1>1. Cardinality(Items) \in Nat
    BY HeapAssumption, FS_CardinalityType
  <1>2. PrintsMembers(loop)
    BY <1>1, PrintersPrint
  <1>3. \A q : printed_value(q, h, item) = print_value(q, h, item, loop)
    BY DEF printed_value
  <1> HIDE DEF loop
  <1>4. r = print_value(p, h, item, loop)
    BY <1>3
  <1>5. /\ Prints(p, r) /\ (r.ok => r.nul)
        /\ \A L \in Nat : Roomy(r, L) => print_value(Larger(p, L), h, item, loop) = Larger(r, L)
    BY <1>2, <1>4, ValuePrints
  <1> QED
    BY <1>3, <1>5

\* An empty buffer.
LEMMA BufferStarts ==
    ASSUME NEW length \in Nat, NEW noalloc \in BOOLEAN, NEW format \in BOOLEAN, NEW mem \in Nat,
           NEW p, p = Buffer(length, noalloc, format, mem)
    PROVE  Started(p) /\ p.noalloc = noalloc
  <1>1. /\ p.text = <<>> /\ p.offset = 0 /\ p.ahead = <<>> /\ p.nul = FALSE /\ p.length = length
        /\ p.depth = 0 /\ p.noalloc = noalloc /\ p.format = format /\ p.mem = mem /\ p.buffer = TRUE
        /\ p.buffers = (IF noalloc THEN 0 ELSE 1) /\ p.ok = TRUE /\ p.overrun = FALSE
    BY DEF Buffer
  <1>2. p \in PrintBuffers
    <2>1. <<>> \in Seq(Printable) /\ (IF noalloc THEN 0 ELSE 1) \in Int
      OBVIOUS
    <2> QED
      BY <2>1 DEF Buffer, PrintBuffers
  <1>3. Total(p) = 0
    BY <1>1, WidthsFew DEF Total
  <1>4. Safe(p)
    <2>1. p.offset = Widths(p.text)
      BY <1>1, WidthsFew
    <2>2. Total(p) + (IF p.nul THEN 1 ELSE 0) <= p.length
      BY <1>1, <1>3
    <2> QED
      BY <1>1, <1>2, <2>1, <2>2 DEF Safe
  <1> QED
    BY <1>1, <1>4 DEF Started, Clear

\* And one of another size.
LEMMA BufferLarger ==
    ASSUME NEW length, NEW noalloc, NEW format, NEW mem, NEW L,
           NEW p, p = Buffer(length, noalloc, format, mem)
    PROVE  Larger(p, L) = Buffer(L, noalloc, format, mem)
  <1> DEFINE k == IF noalloc THEN 0 ELSE 1
             yes == TRUE
             no == FALSE
             none == <<>>
  <1>1. p = [text |-> none, offset |-> 0, ahead |-> none, nul |-> no, length |-> length,
             depth |-> 0, noalloc |-> noalloc, format |-> format, mem |-> mem,
             buffer |-> yes, buffers |-> k, ok |-> yes, overrun |-> no]
    BY DEF Buffer
  <1>2. Buffer(L, noalloc, format, mem) =
          [text |-> none, offset |-> 0, ahead |-> none, nul |-> no, length |-> L,
           depth |-> 0, noalloc |-> noalloc, format |-> format, mem |-> mem,
           buffer |-> yes, buffers |-> k, ok |-> yes, overrun |-> no]
    BY DEF Buffer
  <1> HIDE DEF k, yes, no, none
  <1> QED
    BY <1>1, <1>2 DEF Larger

\* What PrintFits says of one buffer.
Fits(p) ==
    /\ ~p.overrun
    /\ p.ok => Widths(Printed(p)) + 1 <= p.length
    /\ p.buffers = IF p.ok /\ ~p.noalloc THEN 1 ELSE 0

\* The characters of what is printed.
LEMMA PrintedTotal ==
    ASSUME NEW p, Safe(p)
    PROVE  Widths(Printed(p)) = Total(p)
  BY SafeFields, WidthsAdd DEF Printed, Total

\* A buffer with a terminator holds it, and is the only one.
LEMMA SafeFits ==
    ASSUME NEW p, Safe(p), p.ok => p.nul, p.ok \/ p.noalloc
    PROVE  Fits(p)
  <1>1. p.ok => Total(p) + 1 <= p.length
    BY DEF Safe
  <1> QED
    BY <1>1, PrintedTotal DEF Fits, Safe

\* A call that fails frees its buffer, if that is there still.
LEMMA FreedFits ==
    ASSUME NEW p, Safe(p), ~p.noalloc
    PROVE  Fits(Deallocated(p)) /\ ~Deallocated(p).noalloc
  <1> DEFINE d == Deallocated(p)
  <1>1. p \in PrintBuffers /\ p.overrun = FALSE /\ p.buffers = IF p.buffer THEN 1 ELSE 0
    BY SafeFields DEF Safe
  <1>2. /\ d.ok = FALSE /\ d.overrun = FALSE /\ d.noalloc = p.noalloc
        /\ d.buffers = IF p.buffer THEN p.buffers - 1 ELSE p.buffers
    BY <1>1 DEF Deallocated, PrintBuffers
  <1> HIDE DEF d
  <1>3. d.buffers = 0
    BY <1>1, <1>2
  <1>4. Fits(d) /\ ~d.noalloc
    BY <1>2, <1>3 DEF Fits
  <1> QED
    BY <1>4 DEF d

\* So does one that had no memory for a buffer.
LEMMA NothingFits == Fits(NoBuffer) /\ ~NoBuffer.noalloc
  <1>1. /\ NoBuffer.ok = FALSE /\ NoBuffer.overrun = FALSE /\ NoBuffer.noalloc = FALSE
        /\ NoBuffer.buffers = 0
    BY DEF NoBuffer, Buffer
  <1> QED
    BY <1>1 DEF Fits

\* cJSON_Print, cJSON_PrintUnformatted.
LEMMA PrintFitted ==
    ASSUME NEW h \in Heap, Numbered(h), NEW item \in Items, NEW size \in Nat,
           NEW format \in BOOLEAN, NEW mem \in Nat, NEW r, r = print(h, item, size, format, mem)
    PROVE  Fits(r) /\ ~r.noalloc
  <1>1. CASE mem = 0
    BY <1>1, NothingFits DEF print
  <1>2. CASE mem # 0
    <2> DEFINE noalloc == FALSE
               b == Buffer(size, noalloc, format, mem - 1)
               v == printed_value(b, h, item)
               p == update_offset(v)
    <2>1. noalloc \in BOOLEAN /\ mem - 1 \in Nat
      BY <1>2
    <2>2. r = IF ~p.ok \/ p.mem = 0 THEN Deallocated(p) ELSE [p EXCEPT !.length = p.offset + 1]
      BY <1>2 DEF print
    <2>3. Started(b) /\ ~b.noalloc
      <3> DEFINE m == mem - 1
      <3>1. ~noalloc /\ m \in Nat /\ b = Buffer(size, noalloc, format, m)
        BY <2>1
      <3> HIDE DEF noalloc, m, b
      <3> QED
        BY <2>1, <3>1, BufferStarts
    <2> HIDE DEF b
    <2>4. Prints(b, v) /\ (v.ok => v.nul)
      BY <2>3, WholePrints
    <2> HIDE DEF v
    <2>5. /\ Prints(v, p) /\ Clear(p) /\ (p.ok => p.nul = v.nul /\ v.ok)
      <3>1. Safe(v) /\ p = Passed(v)
        BY <2>4, UpdatePasses DEF Prints
      <3> HIDE DEF p
      <3>2. Prints(v, p) /\ Clear(p) /\ p.ok = v.ok /\ (p.ok => p.nul = v.nul)
        BY <3>1, PassedPrints
      <3> QED
        BY <3>2
    <2> HIDE DEF p
    <2>6. Safe(p) /\ ~p.noalloc
      BY <2>3, <2>4, <2>5 DEF Prints
    <2>7. CASE ~p.ok \/ p.mem = 0
      BY <2>2, <2>6, <2>7, FreedFits
    <2>8. CASE ~(~p.ok \/ p.mem = 0)
      <3>1. r = [p EXCEPT !.length = p.offset + 1]
        BY <2>2, <2>8
      <3>2. p \in PrintBuffers /\ p.overrun = FALSE /\ p.offset \in Nat /\ p.ok
        BY <2>6, <2>8, SafeFields
      <3>3. /\ r.length = p.offset + 1 /\ r.overrun = FALSE /\ r.ok /\ r.noalloc = p.noalloc
            /\ r.text = p.text /\ r.ahead = p.ahead /\ r.buffers = p.buffers
        BY <3>1, <3>2 DEF PrintBuffers
      <3>4. Widths(Printed(r)) = p.offset
        <4>1. Printed(r) = Printed(p)
          BY <3>3 DEF Printed
        <4>2. Total(p) = p.offset
          BY <2>5, <2>6, <3>2, SafeFields DEF Clear
        <4> QED
          BY <2>6, <4>1, <4>2, PrintedTotal
      <3>5. p.buffers = 1
        BY <2>6, <3>2 DEF Safe
      <3> QED
        BY <2>6, <3>2, <3>3, <3>4, <3>5 DEF Fits
    <2> QED
      BY <2>7, <2>8
  <1> QED
    BY <1>1, <1>2

\* cJSON_PrintBuffered.
LEMMA BufferedFits ==
    ASSUME NEW h \in Heap, Numbered(h), NEW item \in Items, NEW size \in Nat,
           NEW format \in BOOLEAN, NEW mem \in Nat, NEW r, r = cJSON_PrintBuffered(h, item, size, format, mem)
    PROVE  Fits(r) /\ ~r.noalloc
  <1>1. CASE mem = 0
    BY <1>1, NothingFits DEF cJSON_PrintBuffered
  <1>2. CASE mem # 0
    <2> DEFINE noalloc == FALSE
               b == Buffer(size, noalloc, format, mem - 1)
               p == printed_value(b, h, item)
    <2>1. noalloc \in BOOLEAN /\ mem - 1 \in Nat
      BY <1>2
    <2>2. r = IF ~p.ok THEN Deallocated(p) ELSE p
      BY <1>2 DEF cJSON_PrintBuffered
    <2>3. Started(b) /\ ~b.noalloc
      <3> DEFINE m == mem - 1
      <3>1. ~noalloc /\ m \in Nat /\ b = Buffer(size, noalloc, format, m)
        BY <2>1
      <3> HIDE DEF noalloc, m, b
      <3> QED
        BY <2>1, <3>1, BufferStarts
    <2> HIDE DEF b
    <2>4. Prints(b, p) /\ (p.ok => p.nul)
      BY <2>3, WholePrints
    <2> HIDE DEF p
    <2>5. Safe(p) /\ ~p.noalloc
      BY <2>3, <2>4 DEF Prints
    <2>6. ~p.ok => Fits(Deallocated(p)) /\ ~Deallocated(p).noalloc
      BY <2>5, FreedFits
    <2>7. p.ok => Fits(p)
      BY <2>4, <2>5, SafeFits
    <2> QED
      BY <2>2, <2>5, <2>6, <2>7
  <1> QED
    BY <1>1, <1>2

\* cJSON_PrintPreallocated, into a buffer of len characters; and if the text
\* fits one of size characters and len leaves five more, then it fits that.
LEMMA PreallocatedFits ==
    ASSUME NEW h \in Heap, Numbered(h), NEW item \in Items, NEW format \in BOOLEAN,
           NEW len \in Nat, NEW r, r = cJSON_PrintPreallocated(h, item, len, format)
    PROVE  /\ Fits(r) /\ r.noalloc /\ r.format = format /\ r.length = len
           /\ \A size \in Nat :
                LET p == cJSON_PrintPreallocated(h, item, size, format)
                IN  p.ok /\ Widths(Printed(p)) + 1 + 5 <= len => r.ok
  <1> DEFINE noalloc == TRUE
  <1>0. noalloc \in BOOLEAN
    OBVIOUS
  <1>1. /\ noalloc
        /\ \A n : cJSON_PrintPreallocated(h, item, n, format) =
                    printed_value(Buffer(n, noalloc, format, 0), h, item)
    BY DEF cJSON_PrintPreallocated
  <1> HIDE DEF noalloc
  <1>2. ASSUME NEW n \in Nat, NEW p, p = printed_value(Buffer(n, noalloc, format, 0), h, item)
        PROVE  /\ Safe(p) /\ (p.ok => p.nul) /\ p.noalloc /\ p.format = format /\ p.length = n
               /\ \A L \in Nat : Roomy(p, L) =>
                    printed_value(Buffer(L, noalloc, format, 0), h, item) = Larger(p, L)
    <2> DEFINE b == Buffer(n, noalloc, format, 0)
    <2>1. /\ Started(b) /\ b.noalloc = noalloc /\ b.format = format /\ b.length = n
          /\ \A L : Larger(b, L) = Buffer(L, noalloc, format, 0)
      <3> DEFINE zero == 0
      <3>1. b = Buffer(n, noalloc, format, zero) /\ zero \in Nat
        OBVIOUS
      <3> HIDE DEF b, zero
      <3>2. Started(b) /\ b.noalloc = noalloc
        BY <1>0, <3>1, BufferStarts
      <3>3. b.length = n /\ b.format = format
        BY <3>1 DEF Buffer
      <3>4. ASSUME NEW L PROVE Larger(b, L) = Buffer(L, noalloc, format, zero)
        BY <3>1, BufferLarger
      <3> QED
        BY <3>2, <3>3, <3>4 DEF zero
    <2>2. p = printed_value(b, h, item)
      BY <1>2
    <2> HIDE DEF b
    <2>3. /\ Prints(b, p) /\ (p.ok => p.nul)
          /\ \A L \in Nat : Roomy(p, L) => printed_value(Larger(b, L), h, item) = Larger(p, L)
      BY <2>1, <2>2, WholePrints
    <2> QED
      BY <1>1, <2>1, <2>3 DEF Prints
  <1>3. /\ Safe(r) /\ (r.ok => r.nul) /\ r.noalloc /\ r.format = format /\ r.length = len
    BY <1>1, <1>2, ZenonT(30)
  <1>4. Fits(r)
    BY <1>3, SafeFits
  <1>5. ASSUME NEW size \in Nat, NEW p, p = cJSON_PrintPreallocated(h, item, size, format),
               p.ok, Widths(Printed(p)) + 1 + 5 <= len
        PROVE  r.ok
    <2>1. p = printed_value(Buffer(size, noalloc, format, 0), h, item)
      BY <1>1, <1>5
    <2>2. /\ Safe(p) /\ p.noalloc
          /\ Roomy(p, len) => printed_value(Buffer(len, noalloc, format, 0), h, item) = Larger(p, len)
      BY <1>2, <2>1
    <2>3. Roomy(p, len)
      BY <1>5, <2>2, PrintedTotal DEF Roomy
    <2>4. r = Larger(p, len)
      BY <1>1, <2>2, <2>3
    <2> QED
      BY <1>5, <2>2, <2>3, <2>4, LargerFields
  <1> QED
    BY <1>3, <1>4, <1>5

-----------------------------------------------------------------------------
(* The program *)

\* A call that prints keeps to its buffer.
LEMMA PrintingFits == ASSUME Kept, PrintTree PROVE PrintFits'
  <1>1. Whole(heap, Held) /\ root \in Held
    BY DEF Kept, PrintTree, Held
  <1>2. heap \in Heap /\ Numbered(heap) /\ root \in Items
    BY <1>1, WholeHeap, HeapAssumption DEF Whole, Held
  <1>3. heap' = heap /\ root' = root /\ PrintSize \in Nat
    BY DocumentAssumption DEF PrintTree
  <1>4. \A n \in Memories \cup Sizes : n \in Nat
    BY DocumentAssumption
  <1>5. PICK format \in BOOLEAN :
            \/ \E mem \in Memories : out' = print(heap, root, PrintSize, format, mem)
            \/ \E mem \in Memories, size \in Sizes :
                 out' = cJSON_PrintBuffered(heap, root, size, format, mem)
            \/ \E size \in Sizes :
                 out' = cJSON_PrintPreallocated(heap, root, size, format)
    BY DEF PrintTree
  <1>6. /\ Fits(out')
        /\ out'.noalloc => \A size \in Sizes :
             LET p == cJSON_PrintPreallocated(heap, root, size, out'.format)
             IN  p.ok /\ Widths(Printed(p)) + 1 + 5 <= out'.length => out'.ok
    <2>1. CASE \E mem \in Memories : out' = print(heap, root, PrintSize, format, mem)
      <3>1. PICK mem \in Memories : out' = print(heap, root, PrintSize, format, mem)
        BY <2>1
      <3>2. Fits(out') /\ ~out'.noalloc
        BY <1>2, <1>3, <1>4, <3>1, PrintFitted
      <3> QED
        BY <3>2
    <2>2. CASE \E mem \in Memories, size \in Sizes :
                 out' = cJSON_PrintBuffered(heap, root, size, format, mem)
      <3>1. PICK mem \in Memories, size \in Sizes :
              out' = cJSON_PrintBuffered(heap, root, size, format, mem)
        BY <2>2
      <3>2. Fits(out') /\ ~out'.noalloc
        BY <1>2, <1>4, <3>1, BufferedFits
      <3> QED
        BY <3>2
    <2>3. CASE \E size \in Sizes : out' = cJSON_PrintPreallocated(heap, root, size, format)
      <3>1. PICK len \in Sizes : out' = cJSON_PrintPreallocated(heap, root, len, format)
        BY <2>3
      <3> DEFINE r == cJSON_PrintPreallocated(heap, root, len, format)
      <3>2. /\ Fits(r) /\ r.noalloc /\ r.format = format /\ r.length = len
            /\ \A size \in Nat :
                 LET p == cJSON_PrintPreallocated(heap, root, size, format)
                 IN  p.ok /\ Widths(Printed(p)) + 1 + 5 <= len => r.ok
        BY <1>2, <1>4, PreallocatedFits
      <3>3. out' = r
        BY <3>1
      <3> HIDE DEF r
      <3> QED
        BY <1>4, <3>2, <3>3
    <2> QED
      BY <1>5, <2>1, <2>2, <2>3
  <1> QED
    BY <1>3, <1>6 DEF PrintFits, Fits

\* Every other call leaves nothing printed, or what was printed as it is.
LEMMA PrintFitsNext == ASSUME Kept, PrintFits, [Next]_vars PROVE PrintFits'
  <1>1. \A name, h : Called(name, h).name = name
    BY DEF Called
  <1>2. CASE PrintTree
    BY <1>2, PrintingFits
  <1>3. CASE Receive \/ ReceiveUnit
    <2>1. call'.name = "none"
      BY <1>3 DEF Receive, ReceiveUnit, Idle
    <2> QED
      BY <2>1 DEF PrintFits
  <1>4. CASE ParseText
    <2>1. call'.name \in {"whole", "parse"}
      BY <1>1, <1>4 DEF ParseText
    <2> QED
      BY <2>1 DEF PrintFits
  <1>5. CASE CreateArray
    <2>1. call'.name = "create"
      BY <1>1, <1>5 DEF CreateArray
    <2> QED
      BY <2>1 DEF PrintFits
  <1>6. CASE Duplicate
    <2>1. call'.name \in {"duplicate", "shallow"}
      BY <1>1, <1>6 DEF Duplicate
    <2> QED
      BY <2>1 DEF PrintFits
  <1>7. CASE Alter \/ Finish
    <2>1. call'.name \in {"alter", "none"}
      BY <1>1, <1>7 DEF Alter, Finish
    <2> QED
      BY <2>1 DEF PrintFits
  <1>8. CASE UNCHANGED vars
    BY <1>8 DEF vars, PrintFits
  <1> QED
    BY <1>2, <1>3, <1>4, <1>5, <1>6, <1>7, <1>8 DEF Next

\* No call writes past the end of a buffer, a call that fails has freed its own
\* and one that succeeds has one; and a buffer of the caller that is five
\* characters larger than the text is enough.
THEOREM PrintAlwaysFits == Spec => []PrintFits
  <1>1. Init => PrintFits
    BY DEF Init, PrintFits, Called
  <1>2. Kept /\ PrintFits /\ [Next]_vars => PrintFits'
    BY PrintFitsNext
  <1> QED
    BY <1>1, <1>2, DocumentsKept, PTL DEF Spec
=============================================================================
