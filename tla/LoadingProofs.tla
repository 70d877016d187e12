--------------------------- MODULE LoadingProofs ---------------------------
(***************************************************************************)
(* Every load() leaves its files and memory as Loading asks, whatever the  *)
(* list of players and the extension.  A path is shown careful by an       *)
(* outline: what is held before each step of it and at its end.  A song    *)
(* that has been rewound is "ready", and counts among what is held.        *)
(***************************************************************************)
EXTENDS Loading, TLAPS

Ready == {"ready"}

(* Holding a, load() may take the step s and then holds b; where it may    *)
(* refuse the file, it gives back all but members of m.                    *)
Moves(s, a, b, m) ==
  /\ s.gives \subseteq a
  /\ s.does \in {"open", "take"} => s.thing \notin a \union Ready /\ b = a \union {s.thing}
  /\ s.does = "give" => s.thing # "ready" /\ b = a \ {s.thing}
  /\ s.does = "rewind" => b = a \union Ready
  /\ s.does \in {"check", "name"} => b = a
  /\ s.does \in {"open", "check", "name"} => a \ s.gives \subseteq m
  /\ s.does \in {"open", "take", "give", "rewind", "check", "name"}
  /\ "ready" \notin s.gives

Outline(p, h, m) == \A k \in 1 .. Len(p) : Moves(p[k], h[k], h[k + 1], m)

(* Along p what is held goes from a to b.                                  *)
Brings(p, a, b, m) ==
  /\ DOMAIN p = 1 .. Len(p) /\ Len(p) \in Nat
  /\ \E h : h[1] = a /\ h[Len(p) + 1] = b /\ Outline(p, h, m)

(* On every path of l only members are left, and, if r = Ready, a song     *)
(* that has been rewound.                                                  *)
Careful(l, r) ==
  /\ "ready" \notin l.frees
  /\ \A p \in l.paths : \E b \in SUBSET l.frees : Brings(p, {}, b \union r, l.frees)

(***************************************************************************)
(* Outlines of paths of a given length.                                    *)
(***************************************************************************)
LEMMA Path1 ==
  ASSUME NEW m, NEW s1, NEW a0, NEW a1, Moves(s1, a0, a1, m)
  PROVE  Brings(<<s1>>, a0, a1, m)
<1>1. PICK p, h : p = <<s1>> /\ h = <<a0, a1>>
  OBVIOUS
<1>2. Len(p) = 1 /\ DOMAIN p = 1 .. 1 /\ h[1] = a0 /\ h[2] = a1
  BY <1>1
<1>3. /\ Moves(p[1], h[1], h[2], m)
  BY <1>1
<1>4. Outline(p, h, m)
  BY <1>2, <1>3 DEF Outline
<1> QED
  BY <1>1, <1>2, <1>4 DEF Brings

LEMMA Path2 ==
  ASSUME NEW m, NEW s1, NEW s2, NEW a0, NEW a1, NEW a2, Moves(s1, a0, a1, m),
         Moves(s2, a1, a2, m)
  PROVE  Brings(<<s1, s2>>, a0, a2, m)
<1>1. PICK p, h : p = <<s1, s2>> /\ h = <<a0, a1, a2>>
  OBVIOUS
<1>2. Len(p) = 2 /\ DOMAIN p = 1 .. 2 /\ h[1] = a0 /\ h[3] = a2
  BY <1>1
<1>3. /\ Moves(p[1], h[1], h[2], m)
      /\ Moves(p[2], h[2], h[3], m)
  BY <1>1
<1>4. Outline(p, h, m)
  BY <1>2, <1>3 DEF Outline
<1> QED
  BY <1>1, <1>2, <1>4 DEF Brings

LEMMA Path3 ==
  ASSUME NEW m, NEW s1, NEW s2, NEW s3, NEW a0, NEW a1, NEW a2, NEW a3, Moves(s1, a0, a1, m),
         Moves(s2, a1, a2, m), Moves(s3, a2, a3, m)
  PROVE  Brings(<<s1, s2, s3>>, a0, a3, m)
<1>1. PICK p, h : p = <<s1, s2, s3>> /\ h = <<a0, a1, a2, a3>>
  OBVIOUS
<1>2. Len(p) = 3 /\ DOMAIN p = 1 .. 3 /\ h[1] = a0 /\ h[4] = a3
  BY <1>1
<1>3. /\ Moves(p[1], h[1], h[2], m)
      /\ Moves(p[2], h[2], h[3], m)
      /\ Moves(p[3], h[3], h[4], m)
  BY <1>1
<1>4. Outline(p, h, m)
  BY <1>2, <1>3 DEF Outline
<1> QED
  BY <1>1, <1>2, <1>4 DEF Brings

LEMMA Path4 ==
  ASSUME NEW m, NEW s1, NEW s2, NEW s3, NEW s4, NEW a0, NEW a1, NEW a2, NEW a3, NEW a4,
         Moves(s1, a0, a1, m), Moves(s2, a1, a2, m), Moves(s3, a2, a3, m), Moves(s4, a3, a4, m)
  PROVE  Brings(<<s1, s2, s3, s4>>, a0, a4, m)
<1>1. PICK p, h : p = <<s1, s2, s3, s4>> /\ h = <<a0, a1, a2, a3, a4>>
  OBVIOUS
<1>2. Len(p) = 4 /\ DOMAIN p = 1 .. 4 /\ h[1] = a0 /\ h[5] = a4
  BY <1>1
<1>3. /\ Moves(p[1], h[1], h[2], m)
      /\ Moves(p[2], h[2], h[3], m)
      /\ Moves(p[3], h[3], h[4], m)
      /\ Moves(p[4], h[4], h[5], m)
  BY <1>1
<1>4. Outline(p, h, m)
  BY <1>2, <1>3 DEF Outline
<1> QED
  BY <1>1, <1>2, <1>4 DEF Brings

LEMMA Path5 ==
  ASSUME NEW m, NEW s1, NEW s2, NEW s3, NEW s4, NEW s5, NEW a0, NEW a1, NEW a2, NEW a3, NEW a4,
         NEW a5, Moves(s1, a0, a1, m), Moves(s2, a1, a2, m), Moves(s3, a2, a3, m),
         Moves(s4, a3, a4, m), Moves(s5, a4, a5, m)
  PROVE  Brings(<<s1, s2, s3, s4, s5>>, a0, a5, m)
<1>1. PICK p, h : p = <<s1, s2, s3, s4, s5>> /\ h = <<a0, a1, a2, a3, a4, a5>>
  OBVIOUS
<1>2. Len(p) = 5 /\ DOMAIN p = 1 .. 5 /\ h[1] = a0 /\ h[6] = a5
  BY <1>1
<1>3. /\ Moves(p[1], h[1], h[2], m)
      /\ Moves(p[2], h[2], h[3], m)
      /\ Moves(p[3], h[3], h[4], m)
      /\ Moves(p[4], h[4], h[5], m)
      /\ Moves(p[5], h[5], h[6], m)
  BY <1>1
<1>4. Outline(p, h, m)
  BY <1>2, <1>3 DEF Outline
<1> QED
  BY <1>1, <1>2, <1>4 DEF Brings

LEMMA Path6 ==
  ASSUME NEW m, NEW s1, NEW s2, NEW s3, NEW s4, NEW s5, NEW s6, NEW a0, NEW a1, NEW a2, NEW a3,
         NEW a4, NEW a5, NEW a6, Moves(s1, a0, a1, m), Moves(s2, a1, a2, m),
         Moves(s3, a2, a3, m), Moves(s4, a3, a4, m), Moves(s5, a4, a5, m), Moves(s6, a5, a6, m)
  PROVE  Brings(<<s1, s2, s3, s4, s5, s6>>, a0, a6, m)
<1>1. PICK p, h : p = <<s1, s2, s3, s4, s5, s6>> /\ h = <<a0, a1, a2, a3, a4, a5, a6>>
  OBVIOUS
<1>2. Len(p) = 6 /\ DOMAIN p = 1 .. 6 /\ h[1] = a0 /\ h[7] = a6
  BY <1>1
<1>3. /\ Moves(p[1], h[1], h[2], m)
      /\ Moves(p[2], h[2], h[3], m)
      /\ Moves(p[3], h[3], h[4], m)
      /\ Moves(p[4], h[4], h[5], m)
      /\ Moves(p[5], h[5], h[6], m)
      /\ Moves(p[6], h[6], h[7], m)
  BY <1>1
<1>4. Outline(p, h, m)
  BY <1>2, <1>3 DEF Outline
<1> QED
  BY <1>1, <1>2, <1>4 DEF Brings

LEMMA Path7 ==
  ASSUME NEW m, NEW s1, NEW s2, NEW s3, NEW s4, NEW s5, NEW s6, NEW s7, NEW a0, NEW a1, NEW a2,
         NEW a3, NEW a4, NEW a5, NEW a6, NEW a7, Moves(s1, a0, a1, m), Moves(s2, a1, a2, m),
         Moves(s3, a2, a3, m), Moves(s4, a3, a4, m), Moves(s5, a4, a5, m),
         Moves(s6, a5, a6, m), Moves(s7, a6, a7, m)
  PROVE  Brings(<<s1, s2, s3, s4, s5, s6, s7>>, a0, a7, m)
<1>1. PICK p, h : p = <<s1, s2, s3, s4, s5, s6, s7>> /\ h = <<a0, a1, a2, a3, a4, a5, a6, a7>>
  OBVIOUS
<1>2. Len(p) = 7 /\ DOMAIN p = 1 .. 7 /\ h[1] = a0 /\ h[8] = a7
  BY <1>1
<1>3. /\ Moves(p[1], h[1], h[2], m)
      /\ Moves(p[2], h[2], h[3], m)
      /\ Moves(p[3], h[3], h[4], m)
      /\ Moves(p[4], h[4], h[5], m)
      /\ Moves(p[5], h[5], h[6], m)
      /\ Moves(p[6], h[6], h[7], m)
      /\ Moves(p[7], h[7], h[8], m)
  BY <1>1
<1>4. Outline(p, h, m)
  BY <1>2, <1>3 DEF Outline
<1> QED
  BY <1>1, <1>2, <1>4 DEF Brings

LEMMA Path8 ==
  ASSUME NEW m, NEW s1, NEW s2, NEW s3, NEW s4, NEW s5, NEW s6, NEW s7, NEW s8, NEW a0, NEW a1,
         NEW a2, NEW a3, NEW a4, NEW a5, NEW a6, NEW a7, NEW a8, Moves(s1, a0, a1, m),
         Moves(s2, a1, a2, m), Moves(s3, a2, a3, m), Moves(s4, a3, a4, m),
         Moves(s5, a4, a5, m), Moves(s6, a5, a6, m), Moves(s7, a6, a7, m), Moves(s8, a7, a8, m)
  PROVE  Brings(<<s1, s2, s3, s4, s5, s6, s7, s8>>, a0, a8, m)
<1>1. PICK p, h : /\ p = <<s1, s2, s3, s4, s5, s6, s7, s8>>
                  /\ h = <<a0, a1, a2, a3, a4, a5, a6, a7, a8>>
  OBVIOUS
<1>2. Len(p) = 8 /\ DOMAIN p = 1 .. 8 /\ h[1] = a0 /\ h[9] = a8
  BY <1>1
<1>3. /\ Moves(p[1], h[1], h[2], m)
      /\ Moves(p[2], h[2], h[3], m)
      /\ Moves(p[3], h[3], h[4], m)
      /\ Moves(p[4], h[4], h[5], m)
      /\ Moves(p[5], h[5], h[6], m)
      /\ Moves(p[6], h[6], h[7], m)
      /\ Moves(p[7], h[7], h[8], m)
      /\ Moves(p[8], h[8], h[9], m)
  BY <1>1
<1>4. Outline(p, h, m)
  BY <1>2, <1>3 DEF Outline
<1> QED
  BY <1>1, <1>2, <1>4 DEF Brings

LEMMA Path9 ==
  ASSUME NEW m, NEW s1, NEW s2, NEW s3, NEW s4, NEW s5, NEW s6, NEW s7, NEW s8, NEW s9, NEW a0,
         NEW a1, NEW a2, NEW a3, NEW a4, NEW a5, NEW a6, NEW a7, NEW a8, NEW a9,
         Moves(s1, a0, a1, m), Moves(s2, a1, a2, m), Moves(s3, a2, a3, m),
         Moves(s4, a3, a4, m), Moves(s5, a4, a5, m), Moves(s6, a5, a6, m),
         Moves(s7, a6, a7, m), Moves(s8, a7, a8, m), Moves(s9, a8, a9, m)
  PROVE  Brings(<<s1, s2, s3, s4, s5, s6, s7, s8, s9>>, a0, a9, m)
<1>1. PICK p, h : /\ p = <<s1, s2, s3, s4, s5, s6, s7, s8, s9>>
                  /\ h = <<a0, a1, a2, a3, a4, a5, a6, a7, a8, a9>>
  OBVIOUS
<1>2. Len(p) = 9 /\ DOMAIN p = 1 .. 9 /\ h[1] = a0 /\ h[10] = a9
  BY <1>1
<1>3. /\ Moves(p[1], h[1], h[2], m)
      /\ Moves(p[2], h[2], h[3], m)
      /\ Moves(p[3], h[3], h[4], m)
      /\ Moves(p[4], h[4], h[5], m)
      /\ Moves(p[5], h[5], h[6], m)
      /\ Moves(p[6], h[6], h[7], m)
      /\ Moves(p[7], h[7], h[8], m)
      /\ Moves(p[8], h[8], h[9], m)
      /\ Moves(p[9], h[9], h[10], m)
  BY <1>1
<1>4. Outline(p, h, m)
  BY <1>2, <1>3 DEF Outline
<1> QED
  BY <1>1, <1>2, <1>4 DEF Brings

LEMMA Path10 ==
  ASSUME NEW m, NEW s1, NEW s2, NEW s3, NEW s4, NEW s5, NEW s6, NEW s7, NEW s8, NEW s9,
         NEW s10, NEW a0, NEW a1, NEW a2, NEW a3, NEW a4, NEW a5, NEW a6, NEW a7, NEW a8,
         NEW a9, NEW a10, Moves(s1, a0, a1, m), Moves(s2, a1, a2, m), Moves(s3, a2, a3, m),
         Moves(s4, a3, a4, m), Moves(s5, a4, a5, m), Moves(s6, a5, a6, m),
         Moves(s7, a6, a7, m), Moves(s8, a7, a8, m), Moves(s9, a8, a9, m),
         Moves(s10, a9, a10, m)
  PROVE  Brings(<<s1, s2, s3, s4, s5, s6, s7, s8, s9, s10>>, a0, a10, m)
<1>1. PICK p, h : /\ p = <<s1, s2, s3, s4, s5, s6, s7, s8, s9, s10>>
                  /\ h = <<a0, a1, a2, a3, a4, a5, a6, a7, a8, a9, a10>>
  OBVIOUS
<1>2. Len(p) = 10 /\ DOMAIN p = 1 .. 10 /\ h[1] = a0 /\ h[11] = a10
  BY <1>1
<1>3. /\ Moves(p[1], h[1], h[2], m)
      /\ Moves(p[2], h[2], h[3], m)
      /\ Moves(p[3], h[3], h[4], m)
      /\ Moves(p[4], h[4], h[5], m)
      /\ Moves(p[5], h[5], h[6], m)
      /\ Moves(p[6], h[6], h[7], m)
      /\ Moves(p[7], h[7], h[8], m)
      /\ Moves(p[8], h[8], h[9], m)
      /\ Moves(p[9], h[9], h[10], m)
      /\ Moves(p[10], h[10], h[11], m)
  BY <1>1
<1>4. Outline(p, h, m)
  BY <1>2, <1>3 DEF Outline
<1> QED
  BY <1>1, <1>2, <1>4 DEF Brings

LEMMA Path11 ==
  ASSUME NEW m, NEW s1, NEW s2, NEW s3, NEW s4, NEW s5, NEW s6, NEW s7, NEW s8, NEW s9,
         NEW s10, NEW s11, NEW a0, NEW a1, NEW a2, NEW a3, NEW a4, NEW a5, NEW a6, NEW a7,
         NEW a8, NEW a9, NEW a10, NEW a11, Moves(s1, a0, a1, m), Moves(s2, a1, a2, m),
         Moves(s3, a2, a3, m), Moves(s4, a3, a4, m), Moves(s5, a4, a5, m),
         Moves(s6, a5, a6, m), Moves(s7, a6, a7, m), Moves(s8, a7, a8, m),
         Moves(s9, a8, a9, m), Moves(s10, a9, a10, m), Moves(s11, a10, a11, m)
  PROVE  Brings(<<s1, s2, s3, s4, s5, s6, s7, s8, s9, s10, s11>>, a0, a11, m)
<1>1. PICK p, h : /\ p = <<s1, s2, s3, s4, s5, s6, s7, s8, s9, s10, s11>>
                  /\ h = <<a0, a1, a2, a3, a4, a5, a6, a7, a8, a9, a10, a11>>
  OBVIOUS
<1>2. Len(p) = 11 /\ DOMAIN p = 1 .. 11 /\ h[1] = a0 /\ h[12] = a11
  BY <1>1
<1>3. /\ Moves(p[1], h[1], h[2], m)
      /\ Moves(p[2], h[2], h[3], m)
      /\ Moves(p[3], h[3], h[4], m)
      /\ Moves(p[4], h[4], h[5], m)
      /\ Moves(p[5], h[5], h[6], m)
      /\ Moves(p[6], h[6], h[7], m)
      /\ Moves(p[7], h[7], h[8], m)
      /\ Moves(p[8], h[8], h[9], m)
      /\ Moves(p[9], h[9], h[10], m)
      /\ Moves(p[10], h[10], h[11], m)
      /\ Moves(p[11], h[11], h[12], m)
  BY <1>1
<1>4. Outline(p, h, m)
  BY <1>2, <1>3 DEF Outline
<1> QED
  BY <1>1, <1>2, <1>4 DEF Brings

LEMMA Path0 ==
  ASSUME NEW m, NEW a
  PROVE  Brings(<<>>, a, a, m)
<1>1. PICK h : h = <<a>>
  OBVIOUS
<1>2. h[1] = a /\ Outline(<<>>, h, m)
  BY <1>1 DEF Outline
<1> QED
  BY <1>2 DEF Brings

(* One path after the other.                                               *)
LEMMA Then ==
  ASSUME NEW m, NEW p, NEW q, NEW a, NEW b, NEW c, Brings(p, a, b, m), Brings(q, b, c, m)
  PROVE  Brings(p \o q, a, c, m)
<1>1. PICK g : g[1] = a /\ g[Len(p) + 1] = b /\ Outline(p, g, m)
  BY DEF Brings
<1>2. PICK h : h[1] = b /\ h[Len(q) + 1] = c /\ Outline(q, h, m)
  BY DEF Brings
<1>3. PICK n, l : n = Len(p) /\ l = Len(q) /\ n \in Nat /\ l \in Nat
  BY DEF Brings
<1>4. /\ DOMAIN (p \o q) = 1 .. (n + l) /\ Len(p \o q) = n + l
      /\ \A k \in 1 .. (n + l) : (p \o q)[k] = IF k <= n THEN p[k] ELSE q[k - n]
  BY <1>3
<1>5. PICK f : f = [k \in 1 .. (n + l + 1) |-> IF k <= n THEN g[k] ELSE h[k - n]]
  OBVIOUS
<1>6. f[1] = a /\ f[n + l + 1] = c
  BY <1>1, <1>2, <1>3, <1>5
<1>7. ASSUME NEW k \in 1 .. (n + l) PROVE Moves((p \o q)[k], f[k], f[k + 1], m)
  <2>1. CASE k < n
    BY <1>1, <1>3, <1>4, <1>5, <2>1 DEF Outline
  <2>2. CASE k = n
    <3>1. f[k] = g[n] /\ f[k + 1] = g[n + 1] /\ (p \o q)[k] = p[n] /\ n \in 1 .. Len(p)
      BY <1>1, <1>2, <1>3, <1>4, <1>5, <2>2
    <3> QED
      BY <1>1, <3>1 DEF Outline
  <2>3. CASE n < k
    <3>1. /\ f[k] = h[k - n] /\ f[k + 1] = h[(k - n) + 1] /\ (p \o q)[k] = q[k - n]
          /\ k - n \in 1 .. Len(q)
      BY <1>3, <1>4, <1>5, <2>3
    <3> QED
      BY <1>2, <3>1 DEF Outline
  <2> QED
    BY <1>3, <2>1, <2>2, <2>3
<1> QED
  BY <1>3, <1>4, <1>6, <1>7 DEF Brings, Outline

-----------------------------------------------------------------------------
(***************************************************************************)
(* The loaders with one path.                                              *)
(***************************************************************************)
LEMMA SimpleCareful ==
  /\ Careful(AmdLoad, Ready)
  /\ Careful(DfmLoad, Ready)
  /\ Careful(MadLoad, Ready)
  /\ Careful(MtrLoad, Ready)
  /\ Careful(Sa2Load, Ready)
  /\ Careful(S3mLoad, Ready)
<1>1. /\ Moves(Opens, {}, F, {})
      /\ Moves(Checks(F), F, F, {})
      /\ Moves(Closes, F, {}, {})
      /\ Moves(Rewinds, {}, {} \union Ready, {})
  BY DEF Moves, Opens, OpensOr, Checks, Gives, Closes, Rewinds, Step, F, Ready
<1>2. Brings(<<Opens, Checks(F), Closes, Rewinds>>, {}, {} \union Ready, {})
  BY <1>1, Path4
<1> QED
  BY <1>2 DEF Careful, AmdLoad, DfmLoad, MadLoad, MtrLoad, Sa2Load, S3mLoad, Loader, Ready

LEMMA CheckedCareful ==
  /\ Careful(DtmLoad, Ready)
  /\ Careful(FmcLoad, Ready)
<1>1. /\ Moves(Opens, {}, F, {})
      /\ Moves(Checks(F), F, F, {})
      /\ Moves(Closes, F, {}, {})
      /\ Moves(Checks({}), {}, {}, {})
      /\ Moves(Rewinds, {}, {} \union Ready, {})
  BY DEF Moves, Opens, OpensOr, Checks, Gives, Closes, Rewinds, Step, F, Ready
<1>2. Brings(<<Opens, Checks(F), Closes, Checks({}), Rewinds>>, {}, {} \union Ready, {})
  BY <1>1, Path5
<1> QED
  BY <1>2 DEF Careful, DtmLoad, FmcLoad, Loader, Ready

LEMMA AdtrackCareful == Careful(AdtrackLoad, Ready)
<1>1. /\ Moves(Opens, {}, F, {})
      /\ Moves(Named({"sng"}, F), F, F, {})
      /\ Moves(Checks(F), F, F, {})
      /\ Moves(OpensOr("instf", F), F, {"f", "instf"}, {})
      /\ Moves(Checks({"instf", "f"}), {"f", "instf"}, {"f", "instf"}, {})
      /\ Moves(Gives("instf"), {"f", "instf"}, F, {})
      /\ Moves(Checks(F), F, F, {})
      /\ Moves(Closes, F, {}, {})
      /\ Moves(Rewinds, {}, {} \union Ready, {})
  BY DEF Moves, Opens, OpensOr, Named, Checks, Gives, Closes, Rewinds, Step, F, Ready
<1>2. Brings(<<Opens, Named({"sng"}, F), Checks(F), OpensOr("instf", F),
                Checks({"instf", "f"}), Gives("instf"), Checks(F), Closes, Rewinds>>,
              {}, {} \union Ready, {})
  BY <1>1, Path9
<1> QED
  BY <1>2 DEF Careful, AdtrackLoad, Loader, Ready

LEMMA HspCareful == Careful(HspLoad, Ready)
<1>1. /\ Moves(Opens, {}, F, {})
      /\ Moves(Named({"hsp"}, F), F, F, {})
      /\ Moves(Checks(F), F, F, {})
      /\ Moves(Takes("cmp"), F, {"f", "cmp"}, {})
      /\ Moves(Closes, {"f", "cmp"}, {"cmp"}, {})
      /\ Moves(Takes("org"), {"cmp"}, {"cmp", "org"}, {})
      /\ Moves(Gives("cmp"), {"cmp", "org"}, {"org"}, {})
      /\ Moves(Checks({"org"}), {"org"}, {"org"}, {})
      /\ Moves(Gives("org"), {"org"}, {}, {})
      /\ Moves(Rewinds, {}, {} \union Ready, {})
  BY DEF Moves, Opens, OpensOr, Named, Checks, Takes, Gives, Closes, Rewinds, Step, F, Ready
<1>2. Brings(<<Opens, Named({"hsp"}, F), Checks(F), Takes("cmp"), Closes, Takes("org"),
                Gives("cmp"), Checks({"org"}), Gives("org"), Rewinds>>,
              {}, {} \union Ready, {})
  BY <1>1, Path10
<1> QED
  BY <1>2 DEF Careful, HspLoad, Loader, Ready

LEMMA MtkCareful == Careful(MtkLoad, Ready)
<1>1. /\ Moves(Opens, {}, F, {})
      /\ Moves(Checks(F), F, F, {})
      /\ Moves(Takes("org"), F, {"f", "org"}, {})
      /\ Moves(Checks({"f", "org"}), {"f", "org"}, {"f", "org"}, {})
      /\ Moves(Closes, {"f", "org"}, {"org"}, {})
      /\ Moves(Gives("org"), {"org"}, {}, {})
      /\ Moves(Rewinds, {}, {} \union Ready, {})
  BY DEF Moves, Opens, OpensOr, Checks, Takes, Gives, Closes, Rewinds, Step, F, Ready
<1>2. Brings(<<Opens, Checks(F), Takes("org"), Checks({"f", "org"}), Closes, Gives("org"),
                Rewinds>>, {}, {} \union Ready, {})
  BY <1>1, Path7
<1> QED
  BY <1>2 DEF Careful, MtkLoad, Loader, Ready

LEMMA DmoCareful == Careful(DmoLoad, Ready)
<1>1. /\ Moves(Opens, {}, F, {})
      /\ Moves(Checks(F), F, F, {})
      /\ Moves(Takes("packed_module"), F, {"f", "packed_module"}, {})
      /\ Moves(Closes, {"f", "packed_module"}, {"packed_module"}, {})
      /\ Moves(Takes("module"), {"packed_module"}, {"packed_module", "module"}, {})
      /\ Moves(Checks({"packed_module", "module"}), {"packed_module", "module"},
               {"packed_module", "module"}, {})
      /\ Moves(Gives("packed_module"), {"packed_module", "module"}, {"module"}, {})
      /\ Moves(Checks({"module"}), {"module"}, {"module"}, {})
      /\ Moves(Gives("module"), {"module"}, {}, {})
      /\ Moves(Rewinds, {}, {} \union Ready, {})
  BY DEF Moves, Opens, OpensOr, Checks, Takes, Gives, Closes, Rewinds, Step, F, Ready
<1>2. Brings(<<Opens, Checks(F), Takes("packed_module"), Closes, Takes("module"),
                Checks({"packed_module", "module"}), Gives("packed_module"),
                Checks({"module"}), Gives("module"), Rewinds>>, {}, {} \union Ready, {})
  BY <1>1, Path10
<1> QED
  BY <1>2 DEF Careful, DmoLoad, Loader, Ready

LEMMA HscCareful == Careful(HscLoad, Ready)
<1>1. /\ Moves(Opens, {}, F, {})
      /\ Moves(Named({"hsc"}, F), F, F, {})
      /\ Moves(Checks(F), F, F, {})
      /\ Moves(Closes, F, {}, {})
      /\ Moves(Rewinds, {}, {} \union Ready, {})
  BY DEF Moves, Opens, OpensOr, Named, Checks, Gives, Closes, Rewinds, Step, F, Ready
<1>2. Brings(<<Opens, Named({"hsc"}, F), Checks(F), Closes, Rewinds>>,
              {}, {} \union Ready, {})
  BY <1>1, Path5
<1> QED
  BY <1>2 DEF Careful, HscLoad, Loader, Ready

LEMMA LdsCareful == Careful(LdsLoad, Ready)
<1> DEFINE m == {"soundbank", "positions", "patterns"}
<1>1. /\ Moves(Named({"lds", "ld0"}, {}), {}, {}, m)
      /\ Moves(Opens, {}, F, m)
      /\ Moves(Checks(F), F, F, m)
      /\ Moves(Takes("soundbank"), F, {"f", "soundbank"}, m)
      /\ Moves(Takes("positions"), {"f", "soundbank"}, {"f", "soundbank", "positions"}, m)
      /\ Moves(Takes("patterns"), {"f", "soundbank", "positions"}, {"f", "soundbank",
               "positions", "patterns"}, m)
      /\ Moves(Closes, {"f", "soundbank", "positions", "patterns"}, {"soundbank",
               "positions", "patterns"}, m)
      /\ Moves(Rewinds, {"soundbank", "positions", "patterns"}, {"soundbank", "positions",
               "patterns"} \union Ready, m)
  BY DEF Moves, Opens, OpensOr, Named, Checks, Takes, Gives, Closes, Rewinds, Step, F, Ready
<1>2. Brings(<<Named({"lds", "ld0"}, {}), Opens, Checks(F), Takes("soundbank"),
                Takes("positions"), Takes("patterns"), Closes, Rewinds>>,
              {}, {"soundbank", "positions", "patterns"} \union Ready, m)
  BY <1>1, Path8
<1> QED
  BY <1>2 DEF Careful, LdsLoad, Loader, Ready

LEMMA PlxCareful == Careful(PlxLoad, Ready)
<1> DEFINE m == {"songdata", "song"}
<1>1. /\ Moves(Opens, {}, F, m)
      /\ Moves(Checks(F), F, F, m)
      /\ Moves(Takes("songdata"), F, {"f", "songdata"}, m)
      /\ Moves(Takes("song"), {"f", "songdata"}, {"f", "songdata", "song"}, m)
      /\ Moves(Closes, {"f", "songdata", "song"}, {"songdata", "song"}, m)
      /\ Moves(Rewinds, {"songdata", "song"}, {"songdata", "song"} \union Ready, m)
  BY DEF Moves, Opens, OpensOr, Checks, Takes, Gives, Closes, Rewinds, Step, F, Ready
<1>2. Brings(<<Opens, Checks(F), Takes("songdata"), Takes("song"), Closes, Rewinds>>,
              {}, {"songdata", "song"} \union Ready, m)
  BY <1>1, Path6
<1> QED
  BY <1>2 DEF Careful, PlxLoad, Loader, Ready

LEMMA PisCareful == Careful(PisLoad, Ready)
<1>1. /\ Moves(Opens, {}, F, {})
      /\ Moves(Named({"pis"}, F), F, F, {})
      /\ Moves(Closes, F, {}, {})
      /\ Moves(Rewinds, {}, {} \union Ready, {})
  BY DEF Moves, Opens, OpensOr, Named, Gives, Closes, Rewinds, Step, F, Ready
<1>2. Brings(<<Opens, Named({"pis"}, F), Closes, Rewinds>>, {}, {} \union Ready, {})
  BY <1>1, Path4
<1> QED
  BY <1>2 DEF Careful, PisLoad, Loader, Ready

LEMMA Rad2Careful == Careful(Rad2Load, {})
<1> DEFINE m == {"newdata"}
<1>1. /\ Moves(Opens, {}, F, m)
      /\ Moves(Checks(F), F, F, m)
      /\ Moves(Takes("newdata"), F, {"f", "newdata"}, m)
      /\ Moves(Closes, {"f", "newdata"}, {"newdata"}, m)
      /\ Moves(Checks({"newdata"}), {"newdata"}, {"newdata"}, m)
  BY DEF Moves, Opens, OpensOr, Checks, Takes, Gives, Closes, Step, F, Ready
<1>2. Brings(<<Opens, Checks(F), Takes("newdata"), Closes, Checks({"newdata"})>>,
              {}, {"newdata"}, m)
  BY <1>1, Path5
<1> QED
  BY <1>2 DEF Careful, Rad2Load, Loader, Ready

LEMMA A2mv2Careful == Careful(A2mv2Load, Ready)
<1>1. /\ Moves(Opens, {}, F, {})
      /\ Moves(Named({"a2m", "a2t"}, F), F, F, {})
      /\ Moves(Takes("tune"), F, {"f", "tune"}, {})
      /\ Moves(Closes, {"f", "tune"}, {"tune"}, {})
      /\ Moves(Gives("tune"), {"tune"}, {}, {})
      /\ Moves(Checks({}), {}, {}, {})
      /\ Moves(Rewinds, {}, {} \union Ready, {})
  BY DEF Moves, Opens, OpensOr, Named, Checks, Takes, Gives, Closes, Rewinds, Step, F, Ready
<1>2. Brings(<<Opens, Named({"a2m", "a2t"}, F), Takes("tune"), Closes, Gives("tune"),
                Checks({}), Rewinds>>, {}, {} \union Ready, {})
  BY <1>1, Path7
<1> QED
  BY <1>2 DEF Careful, A2mv2Load, Loader, Ready

LEMMA FmkCareful == Careful(FmkLoad, Ready)
<1> DEFINE m == {"m_data"}
<1>1. /\ Moves(Opens, {}, F, m)
      /\ Moves(Named({"fmk"}, F), F, F, m)
      /\ Moves(Checks(F), F, F, m)
      /\ Moves(Takes("m_data"), F, {"f", "m_data"}, m)
      /\ Moves(Closes, {"f", "m_data"}, {"m_data"}, m)
      /\ Moves(Checks({"m_data"}), {"m_data"}, {"m_data"}, m)
      /\ Moves(Rewinds, {"m_data"}, {"m_data"} \union Ready, m)
  BY DEF Moves, Opens, OpensOr, Named, Checks, Takes, Gives, Closes, Rewinds, Step, F, Ready
<1>2. Brings(<<Opens, Named({"fmk"}, F), Checks(F), Takes("m_data"), Closes,
                Checks({"m_data"}), Rewinds>>, {}, {"m_data"} \union Ready, m)
  BY <1>1, Path7
<1> QED
  BY <1>2 DEF Careful, FmkLoad, Loader, Ready

LEMMA SopCareful == Careful(SopLoad, Ready)
<1> DEFINE m == {"chanMode", "inst", "track", "drv"}
<1>1. /\ Moves(Opens, {}, F, m)
      /\ Moves(Named({"sop"}, F), F, F, m)
      /\ Moves(Checks(F), F, F, m)
      /\ Moves(Takes("chanMode"), F, {"f", "chanMode"}, m)
      /\ Moves(Takes("inst"), {"f", "chanMode"}, {"f", "chanMode", "inst"}, m)
      /\ Moves(Checks(F), {"f", "chanMode", "inst"}, {"f", "chanMode", "inst"}, m)
      /\ Moves(Takes("track"), {"f", "chanMode", "inst"}, {"f", "chanMode", "inst", "track"}, m)
      /\ Moves(Checks(F), {"f", "chanMode", "inst", "track"}, {"f", "chanMode", "inst",
               "track"}, m)
      /\ Moves(Closes, {"f", "chanMode", "inst", "track"}, {"chanMode", "inst", "track"}, m)
      /\ Moves(Takes("drv"), {"chanMode", "inst", "track"}, {"chanMode", "inst", "track",
               "drv"}, m)
      /\ Moves(Rewinds, {"chanMode", "inst", "track", "drv"}, {"chanMode", "inst", "track",
               "drv"} \union Ready, m)
  BY DEF Moves, Opens, OpensOr, Named, Checks, Takes, Gives, Closes, Rewinds, Step, F, Ready
<1>2. Brings(<<Opens, Named({"sop"}, F), Checks(F), Takes("chanMode"), Takes("inst"),
                Checks(F), Takes("track"), Checks(F), Closes, Takes("drv"), Rewinds>>,
              {}, {"chanMode", "inst", "track", "drv"} \union Ready, m)
  BY <1>1, Path11
<1> QED
  BY <1>2 DEF Careful, SopLoad, Loader, Ready

LEMMA CmfmcsopCareful == Careful(CmfmcsopLoad, Ready)
<1>1. /\ Moves(Named({"cmf"}, {}), {}, {}, {})
      /\ Moves(Opens, {}, F, {})
      /\ Moves(Checks(F), F, F, {})
      /\ Moves(Rewinds, F, F \union Ready, {})
      /\ Moves(Closes, F \union Ready, {} \union Ready, {})
  BY DEF Moves, Opens, OpensOr, Named, Checks, Gives, Closes, Rewinds, Step, F, Ready
<1>2. Brings(<<Named({"cmf"}, {}), Opens, Checks(F), Rewinds, Closes>>,
              {}, {} \union Ready, {})
  BY <1>1, Path5
<1> QED
  BY <1>2 DEF Careful, CmfmcsopLoad, Loader, Ready

LEMMA SngCareful == Careful(SngLoad, Ready)
<1>1. /\ Moves(Opens, {}, F, {"data"})
      /\ Moves(Checks(F), F, F, {"data"})
      /\ Moves(Takes("data"), F, {"f", "data"}, {"data"})
      /\ Moves(Rewinds, {"f", "data"}, {"f", "data"} \union Ready, {"data"})
      /\ Moves(Closes, {"f", "data"} \union Ready, {"data"} \union Ready, {"data"})
  BY DEF Moves, Opens, OpensOr, Checks, Takes, Gives, Closes, Rewinds, Step, F, Ready
<1>2. Brings(<<Opens, Checks(F), Takes("data"), Rewinds, Closes>>,
              {}, {"data"} \union Ready, {"data"})
  BY <1>1, Path5
<1> QED
  BY <1>2 DEF Careful, SngLoad, Loader, Ready

LEMMA BamCareful == Careful(BamLoad, Ready)
<1>1. /\ Moves(Opens, {}, F, {"song"})
      /\ Moves(Checks(F), F, F, {"song"})
      /\ Moves(Takes("song"), F, {"f", "song"}, {"song"})
      /\ Moves(Closes, {"f", "song"}, {"song"}, {"song"})
      /\ Moves(Rewinds, {"song"}, {"song"} \union Ready, {"song"})
  BY DEF Moves, Opens, OpensOr, Checks, Takes, Gives, Closes, Rewinds, Step, F, Ready
<1>2. Brings(<<Opens, Checks(F), Takes("song"), Closes, Rewinds>>,
              {}, {"song"} \union Ready, {"song"})
  BY <1>1, Path5
<1> QED
  BY <1>2 DEF Careful, BamLoad, Loader, Ready

LEMMA DataCareful ==
  /\ Careful(RawLoad, Ready)
  /\ Careful(DroLoad, Ready)
<1>1. /\ Moves(Opens, {}, F, {"data"})
      /\ Moves(Checks(F), F, F, {"data"})
      /\ Moves(Takes("data"), F, {"f", "data"}, {"data"})
      /\ Moves(Closes, {"f", "data"}, {"data"}, {"data"})
      /\ Moves(Rewinds, {"data"}, {"data"} \union Ready, {"data"})
  BY DEF Moves, Opens, OpensOr, Checks, Takes, Gives, Closes, Rewinds, Step, F, Ready
<1>2. Brings(<<Opens, Checks(F), Takes("data"), Closes, Rewinds>>,
              {}, {"data"} \union Ready, {"data"})
  BY <1>1, Path5
<1> QED
  BY <1>2 DEF Careful, RawLoad, DroLoad, Loader, Ready

LEMMA XsmCareful == Careful(XsmLoad, Ready)
<1> DEFINE m == {"music"}
<1>1. /\ Moves(Opens, {}, F, m)
      /\ Moves(Checks(F), F, F, m)
      /\ Moves(Takes("music"), F, {"f", "music"}, m)
      /\ Moves(Closes, {"f", "music"}, {"music"}, m)
      /\ Moves(Rewinds, {"music"}, {"music"} \union Ready, m)
  BY DEF Moves, Opens, OpensOr, Checks, Takes, Gives, Closes, Rewinds, Step, F, Ready
<1>2. Brings(<<Opens, Checks(F), Takes("music"), Closes, Rewinds>>,
              {}, {"music"} \union Ready, m)
  BY <1>1, Path5
<1> QED
  BY <1>2 DEF Careful, XsmLoad, Loader, Ready

LEMMA RixCareful == Careful(RixLoad, Ready)
<1> DEFINE m == {"file_buffer"}
<1>1. /\ Moves(Opens, {}, F, m)
      /\ Moves(Checks(F), F, F, m)
      /\ Moves(Takes("file_buffer"), F, {"f", "file_buffer"}, m)
      /\ Moves(Closes, {"f", "file_buffer"}, {"file_buffer"}, m)
      /\ Moves(Rewinds, {"file_buffer"}, {"file_buffer"} \union Ready, m)
  BY DEF Moves, Opens, OpensOr, Checks, Takes, Gives, Closes, Rewinds, Step, F, Ready
<1>2. Brings(<<Opens, Checks(F), Takes("file_buffer"), Closes, Rewinds>>,
              {}, {"file_buffer"} \union Ready, m)
  BY <1>1, Path5
<1> QED
  BY <1>2 DEF Careful, RixLoad, Loader, Ready

LEMMA Dro2Careful == Careful(Dro2Load, Ready)
<1> DEFINE m == {"piConvTable", "data"}
<1>1. /\ Moves(Opens, {}, F, m)
      /\ Moves(Checks(F), F, F, m)
      /\ Moves(Takes("piConvTable"), F, {"f", "piConvTable"}, m)
      /\ Moves(Takes("data"), {"f", "piConvTable"}, {"f", "piConvTable", "data"}, m)
      /\ Moves(Closes, {"f", "piConvTable", "data"}, {"piConvTable", "data"}, m)
      /\ Moves(Rewinds, {"piConvTable", "data"}, {"piConvTable", "data"} \union Ready, m)
  BY DEF Moves, Opens, OpensOr, Checks, Takes, Gives, Closes, Rewinds, Step, F, Ready
<1>2. Brings(<<Opens, Checks(F), Takes("piConvTable"), Takes("data"), Closes, Rewinds>>,
              {}, {"piConvTable", "data"} \union Ready, m)
  BY <1>1, Path6
<1> QED
  BY <1>2 DEF Careful, Dro2Load, Loader, Ready

LEMMA MscCareful == Careful(MscLoad, Ready)
<1> DEFINE m == {"msc_data", "raw_data"}
<1>1. /\ Moves(Opens, {}, F, m)
      /\ Moves(Checks(F), F, F, m)
      /\ Moves(Takes("msc_data"), F, {"f", "msc_data"}, m)
      /\ Moves(Takes("raw_data"), {"f", "msc_data"}, {"f", "msc_data", "raw_data"}, m)
      /\ Moves(Closes, {"f", "msc_data", "raw_data"}, {"msc_data", "raw_data"}, m)
      /\ Moves(Rewinds, {"msc_data", "raw_data"}, {"msc_data", "raw_data"} \union Ready, m)
  BY DEF Moves, Opens, OpensOr, Checks, Takes, Gives, Closes, Rewinds, Step, F, Ready
<1>2. Brings(<<Opens, Checks(F), Takes("msc_data"), Takes("raw_data"), Closes, Rewinds>>,
              {}, {"msc_data", "raw_data"} \union Ready, m)
  BY <1>1, Path6
<1> QED
  BY <1>2 DEF Careful, MscLoad, Loader, Ready

LEMMA GotCareful == Careful(GotLoad, Ready)
<1>1. /\ Moves(Opens, {}, F, {"data"})
      /\ Moves(Named({"got"}, F), F, F, {"data"})
      /\ Moves(Checks(F), F, F, {"data"})
      /\ Moves(Takes("data"), F, {"f", "data"}, {"data"})
      /\ Moves(Closes, {"f", "data"}, {"data"}, {"data"})
      /\ Moves(Rewinds, {"data"}, {"data"} \union Ready, {"data"})
  BY DEF Moves, Opens, OpensOr, Named, Checks, Takes, Gives, Closes, Rewinds, Step, F, Ready
<1>2. Brings(<<Opens, Named({"got"}, F), Checks(F), Takes("data"), Closes, Rewinds>>,
              {}, {"data"} \union Ready, {"data"})
  BY <1>1, Path6
<1> QED
  BY <1>2 DEF Careful, GotLoad, Loader, Ready

LEMMA MdiCareful == Careful(MdiLoad, Ready)
<1>1. /\ Moves(Opens, {}, F, {"data"})
      /\ Moves(Named({"mdi"}, F), F, F, {"data"})
      /\ Moves(Checks(F), F, F, {"data"})
      /\ Moves(Takes("data"), F, {"f", "data"}, {"data"})
      /\ Moves(Closes, {"f", "data"}, {"data"}, {"data"})
      /\ Moves(Rewinds, {"data"}, {"data"} \union Ready, {"data"})
  BY DEF Moves, Opens, OpensOr, Named, Checks, Takes, Gives, Closes, Rewinds, Step, F, Ready
<1>2. Brings(<<Opens, Named({"mdi"}, F), Checks(F), Takes("data"), Closes, Rewinds>>,
              {}, {"data"} \union Ready, {"data"})
  BY <1>1, Path6
<1> QED
  BY <1>2 DEF Careful, MdiLoad, Loader, Ready

LEMMA JbmCareful == Careful(JbmLoad, Ready)
<1> DEFINE m == {"m", "sequences"}
<1>1. /\ Moves(Opens, {}, F, m)
      /\ Moves(Named({"jbm"}, F), F, F, m)
      /\ Moves(Checks(F), F, F, m)
      /\ Moves(Takes("m"), F, {"f", "m"}, m)
      /\ Moves(Checks(F), {"f", "m"}, {"f", "m"}, m)
      /\ Moves(Closes, {"f", "m"}, {"m"}, m)
      /\ Moves(Checks({}), {"m"}, {"m"}, m)
      /\ Moves(Takes("sequences"), {"m"}, {"m", "sequences"}, m)
      /\ Moves(Rewinds, {"m", "sequences"}, {"m", "sequences"} \union Ready, m)
  BY DEF Moves, Opens, OpensOr, Named, Checks, Takes, Gives, Closes, Rewinds, Step, F, Ready
<1>2. Brings(<<Opens, Named({"jbm"}, F), Checks(F), Takes("m"), Checks(F), Closes,
                Checks({}), Takes("sequences"), Rewinds>>,
              {}, {"m", "sequences"} \union Ready, m)
  BY <1>1, Path9
<1> QED
  BY <1>2 DEF Careful, JbmLoad, Loader, Ready

LEMMA MkjCareful == Careful(MkjLoad, Ready)
<1> DEFINE m == {"songbuf"}
<1>1. /\ Moves(Opens, {}, F, m)
      /\ Moves(Checks(F), F, F, m)
      /\ Moves(Takes("songbuf"), F, {"f", "songbuf"}, m)
      /\ Moves(Checks(F), {"f", "songbuf"}, {"f", "songbuf"}, m)
      /\ Moves(Closes, {"f", "songbuf"}, {"songbuf"}, m)
      /\ Moves(Rewinds, {"songbuf"}, {"songbuf"} \union Ready, m)
  BY DEF Moves, Opens, OpensOr, Checks, Takes, Gives, Closes, Rewinds, Step, F, Ready
<1>2. Brings(<<Opens, Checks(F), Takes("songbuf"), Checks(F), Closes, Rewinds>>,
              {}, {"songbuf"} \union Ready, m)
  BY <1>1, Path6
<1> QED
  BY <1>2 DEF Careful, MkjLoad, Loader, Ready

LEMMA KsmCareful == Careful(KsmLoad, Ready)
<1>1. /\ Moves(Takes("fn"), {}, {"fn"}, {"note"})
      /\ Moves(Named({"ksm"}, {"fn"}), {"fn"}, {"fn"}, {"note"})
      /\ Moves(OpensOr("f", {"fn"}), {"fn"}, {"fn", "f"}, {"note"})
      /\ Moves(Gives("fn"), {"fn", "f"}, F, {"note"})
      /\ Moves(Closes, F, {}, {"note"})
      /\ Moves(Opens, {}, F, {"note"})
      /\ Moves(Takes("note"), F, {"f", "note"}, {"note"})
      /\ Moves(Closes, {"f", "note"}, {"note"}, {"note"})
      /\ Moves(Rewinds, {"note"}, {"note"} \union Ready, {"note"})
  BY DEF Moves, Opens, OpensOr, Named, Takes, Gives, Closes, Rewinds, Step, F, Ready
<1>2. Brings(<<Takes("fn"), Named({"ksm"}, {"fn"}), OpensOr("f", {"fn"}), Gives("fn"),
                Closes, Opens, Takes("note"), Closes, Rewinds>>,
              {}, {"note"} \union Ready, {"note"})
  BY <1>1, Path9
<1> QED
  BY <1>2 DEF Careful, KsmLoad, Loader, Ready

LEMMA U6mCareful == Careful(U6mLoad, Ready)
<1> DEFINE m == {"song_data"}
<1>1. /\ Moves(Opens, {}, F, m)
      /\ Moves(Checks(F), F, F, m)
      /\ Moves(Takes("song_data"), F, {"f", "song_data"}, m)
      /\ Moves(Takes("compressed_song_data"), {"f", "song_data"}, {"f", "song_data",
               "compressed_song_data"}, m)
      /\ Moves(Closes, {"f", "song_data", "compressed_song_data"}, {"song_data",
               "compressed_song_data"}, m)
      /\ Moves(Checks({"compressed_song_data"}), {"song_data", "compressed_song_data"},
               {"song_data", "compressed_song_data"}, m)
      /\ Moves(Gives("compressed_song_data"), {"song_data", "compressed_song_data"},
               {"song_data"}, m)
      /\ Moves(Rewinds, {"song_data"}, {"song_data"} \union Ready, m)
  BY DEF Moves, Opens, OpensOr, Checks, Takes, Gives, Closes, Rewinds, Step, F, Ready
<1>2. Brings(<<Opens, Checks(F), Takes("song_data"), Takes("compressed_song_data"), Closes,
                Checks({"compressed_song_data"}), Gives("compressed_song_data"), Rewinds>>,
              {}, {"song_data"} \union Ready, m)
  BY <1>1, Path8
<1> QED
  BY <1>2 DEF Careful, U6mLoad, Loader, Ready

LEMMA CmfCareful == Careful(CmfLoad, Ready)
<1> DEFINE m == {"pInstruments", "data"}
<1>1. /\ Moves(Opens, {}, F, m)
      /\ Moves(Checks(F), F, F, m)
      /\ Moves(Takes("pInstruments"), F, {"f", "pInstruments"}, m)
      /\ Moves(Checks(F), {"f", "pInstruments"}, {"f", "pInstruments"}, m)
      /\ Moves(Takes("data"), {"f", "pInstruments"}, {"f", "pInstruments", "data"}, m)
      /\ Moves(Closes, {"f", "pInstruments", "data"}, {"pInstruments", "data"}, m)
      /\ Moves(Rewinds, {"pInstruments", "data"}, {"pInstruments", "data"} \union Ready, m)
  BY DEF Moves, Opens, OpensOr, Checks, Takes, Gives, Closes, Rewinds, Step, F, Ready
<1>2. Brings(<<Opens, Checks(F), Takes("pInstruments"), Checks(F), Takes("data"), Closes,
                Rewinds>>, {}, {"pInstruments", "data"} \union Ready, m)
  BY <1>1, Path7
<1> QED
  BY <1>2 DEF Careful, CmfLoad, Loader, Ready

LEMMA CoktelCareful == Careful(CoktelLoad, Ready)
<1> DEFINE m == {"insts", "data"}
<1>1. /\ Moves(Opens, {}, F, m)
      /\ Moves(Named({"adl"}, F), F, F, m)
      /\ Moves(Checks(F), F, F, m)
      /\ Moves(Takes("insts"), F, {"f", "insts"}, m)
      /\ Moves(Takes("data"), {"f", "insts"}, {"f", "insts", "data"}, m)
      /\ Moves(Closes, {"f", "insts", "data"}, {"insts", "data"}, m)
      /\ Moves(Rewinds, {"insts", "data"}, {"insts", "data"} \union Ready, m)
  BY DEF Moves, Opens, OpensOr, Named, Checks, Takes, Gives, Closes, Rewinds, Step, F, Ready
<1>2. Brings(<<Opens, Named({"adl"}, F), Checks(F), Takes("insts"), Takes("data"), Closes,
                Rewinds>>, {}, {"insts", "data"} \union Ready, m)
  BY <1>1, Path7
<1> QED
  BY <1>2 DEF Careful, CoktelLoad, Loader, Ready

LEMMA AdlCareful == Careful(AdlLoad, Ready)
<1> DEFINE m == {"_soundDataPtr"}
<1>1. /\ Moves(Named({"adl"}, {}), {}, {}, m)
      /\ Moves(Opens, {}, F, m)
      /\ Moves(Checks(F), F, F, m)
      /\ Moves(Takes("_soundDataPtr"), F, {"f", "_soundDataPtr"}, m)
      /\ Moves(Closes, {"f", "_soundDataPtr"}, {"_soundDataPtr"}, m)
      /\ Moves(Checks({"_soundDataPtr"}), {"_soundDataPtr"}, {"_soundDataPtr"}, m)
      /\ Moves(Rewinds, {"_soundDataPtr"}, {"_soundDataPtr"} \union Ready, m)
  BY DEF Moves, Opens, OpensOr, Named, Checks, Takes, Gives, Closes, Rewinds, Step, F, Ready
<1>2. Brings(<<Named({"adl"}, {}), Opens, Checks(F), Takes("_soundDataPtr"), Closes,
                Checks({"_soundDataPtr"}), Rewinds>>, {}, {"_soundDataPtr"} \union Ready, m)
  BY <1>1, Path7
<1> QED
  BY <1>2 DEF Careful, AdlLoad, Loader, Ready

-----------------------------------------------------------------------------
(***************************************************************************)
(* The loaders with several paths.                                         *)
(***************************************************************************)
LEMMA A2mCareful == Careful(A2mLoad, Ready)
<1> DEFINE m == {}
<1>1. /\ Moves(Opens, {}, F, m)
      /\ Moves(Checks(F), F, F, m)
      /\ Moves(Takes("org"), F, {"f", "org"}, m)
      /\ Moves(Takes("secdata"), {"f", "org"}, {"f", "org", "secdata"}, m)
      /\ Moves(Gives("secdata"), {"f", "org", "secdata"}, {"f", "org"}, m)
      /\ Moves(Checks({"org", "f"}), {"f", "org"}, {"f", "org"}, m)
      /\ Moves(Gives("org"), {"f", "org"}, F, m)
      /\ Moves(Closes, F, {}, m)
      /\ Moves(Rewinds, {}, {} \union Ready, m)
  BY DEF Moves, Opens, OpensOr, Checks, Takes, Gives, Closes, Rewinds, Step, F, Ready
<1>2. /\ Brings(<<Opens, Checks(F)>>, {}, F, m)
      /\ Brings(<<Takes("org"), Takes("secdata"), Gives("secdata"), Checks({"org", "f"}),
                Gives("org")>>,
                F, F, m)
      /\ Brings(<<Takes("org"), Checks({"org", "f"}), Gives("org")>>, F, F, m)
      /\ Brings(<<Closes, Rewinds>>, F, {} \union Ready, m)
  BY <1>1, Path2, Path3, Path5
<1>3. ASSUME NEW s \in A2mSections
      PROVE  Brings(<<Opens, Checks(F)>> \o s \o s \o <<Closes, Rewinds>>, {},
                    {} \union Ready, m)
  <2>1. Brings(s, F, F, m)
    BY <1>2 DEF A2mSections
  <2> QED
    BY <1>2, <2>1, Then
<1> QED
  BY <1>3 DEF Careful, A2mLoad, Loader, Ready

LEMMA CffCareful == Careful(CffLoad, Ready)
<1> DEFINE m == {}
<1>1. /\ Moves(Opens, {}, F, m)
      /\ Moves(Checks(F), F, F, m)
      /\ Moves(Takes("module"), F, {"f", "module"}, m)
      /\ Moves(Closes, {"f", "module"}, {"module"}, m)
      /\ Moves(Takes("packed_module"), F, {"f", "packed_module"}, m)
      /\ Moves(Closes, {"f", "packed_module"}, {"packed_module"}, m)
      /\ Moves(Takes("module"), {"packed_module"}, {"packed_module", "module"}, m)
      /\ Moves(Takes("unpacker"), {"packed_module", "module"}, {"packed_module", "module",
               "unpacker"}, m)
      /\ Moves(Gives("unpacker"), {"packed_module", "module", "unpacker"}, {"packed_module",
               "module"}, m)
      /\ Moves(Gives("packed_module"), {"packed_module", "module"}, {"module"}, m)
      /\ Moves(Checks({"module"}), {"module"}, {"module"}, m)
      /\ Moves(Gives("module"), {"module"}, {}, m)
      /\ Moves(Checks({}), {}, {}, m)
      /\ Moves(Rewinds, {}, {} \union Ready, m)
  BY DEF Moves, Opens, OpensOr, Checks, Takes, Gives, Closes, Rewinds, Step, F, Ready
<1>2. /\ Brings(<<Opens, Checks(F), Takes("module"), Closes>>, {}, {"module"}, m)
      /\ Brings(<<Opens, Checks(F), Takes("packed_module"), Closes, Takes("module"),
                Takes("unpacker"), Gives("unpacker"), Gives("packed_module")>>,
                {}, {"module"}, m)
      /\ Brings(<<Checks({"module"}), Gives("module"), Checks({}), Rewinds>>,
                {"module"}, {} \union Ready, m)
  BY <1>1, Path4, Path8
<1>3. Brings(<<Opens, Checks(F), Takes("module"), Closes>> \o CffModule("module"), {},
             {} \union Ready, m)
  BY <1>2, Then DEF CffModule
<1>4. Brings(<<Opens, Checks(F), Takes("packed_module"), Closes, Takes("module"),
               Takes("unpacker"), Gives("unpacker"), Gives("packed_module")>>
               \o CffModule("module"), {}, {} \union Ready, m)
  BY <1>2, Then DEF CffModule
<1> QED
  BY <1>3, <1>4 DEF Careful, CffLoad, Loader, Ready

LEMMA D00Careful == Careful(D00Load, Ready)
<1> DEFINE m == {"filedata"}
<1>1. /\ Moves(Opens, {}, F, m)
      /\ Moves(Takes("checkhead"), F, {"f", "checkhead"}, m)
      /\ Moves(Gives("checkhead"), {"f", "checkhead"}, F, m)
      /\ Moves(Named({"d00"}, F), F, F, m)
      /\ Moves(Takes("ch"), F, {"f", "ch"}, m)
      /\ Moves(Checks({"ch", "f"}), {"f", "ch"}, {"f", "ch"}, m)
      /\ Moves(Gives("ch"), {"f", "ch"}, F, m)
      /\ Moves(Takes("filedata"), F, {"f", "filedata"}, m)
      /\ Moves(Closes, {"f", "filedata"}, {"filedata"}, m)
      /\ Moves(Checks({}), {"filedata"}, {"filedata"}, m)
      /\ Moves(Rewinds, {"filedata"}, {"filedata"} \union Ready, m)
  BY DEF Moves, Opens, OpensOr, Named, Checks, Takes, Gives, Closes, Rewinds, Step, F, Ready
<1>2. /\ Brings(<<Opens, Takes("checkhead"), Gives("checkhead"), Named({"d00"}, F),
                Takes("ch"), Checks({"ch", "f"}), Gives("ch")>>,
                {}, F, m)
      /\ Brings(<<Opens, Takes("checkhead"), Gives("checkhead")>>, {}, F, m)
      /\ Brings(<<Takes("filedata"), Closes, Checks({}), Rewinds>>,
                F, {"filedata"} \union Ready, m)
  BY <1>1, Path3, Path4, Path7
<1>3. ASSUME NEW head \in {D00Old, D00New}
      PROVE  Brings(head \o <<Takes("filedata"), Closes, Checks({}), Rewinds>>, {},
                    {"filedata"} \union Ready, m)
  <2>1. Brings(head, {}, F, m)
    BY <1>2 DEF D00Old, D00New
  <2> QED
    BY <1>2, <2>1, Then
<1> QED
  BY <1>3 DEF Careful, D00Load, Loader, Ready

LEMMA XadCareful == Careful(XadLoad(<<Checks({})>>), Ready)
<1> DEFINE m == {"tune"}
<1>1. /\ Moves(Opens, {}, F, m)
      /\ Moves(Checks(F), F, F, m)
      /\ Moves(Takes("tune"), F, {"f", "tune"}, m)
      /\ Moves(Closes, {"f", "tune"}, {"tune"}, m)
      /\ Moves(Checks({}), {"tune"}, {"tune"}, m)
      /\ Moves(Rewinds, {"tune"}, {"tune"} \union Ready, m)
  BY DEF Moves, Opens, OpensOr, Checks, Takes, Gives, Closes, Rewinds, Step, F, Ready
<1>2. /\ Brings(<<Opens, Checks(F), Takes("tune"), Closes>>, {}, {"tune"}, m)
      /\ Brings(<<Checks({})>>, {"tune"}, {"tune"}, m)
      /\ Brings(<<Rewinds>>, {"tune"}, {"tune"} \union Ready, m)
  BY <1>1, Path1, Path4
<1>3. Brings(<<Opens, Checks(F), Takes("tune"), Closes>> \o <<Checks({})>> \o <<Rewinds>>, {},
             {"tune"} \union Ready, m)
  BY <1>2, Then
<1> QED
  BY <1>3 DEF Careful, XadLoad, Loader, Ready

LEMMA ImfCareful == Careful(ImfLoad, Ready)
<1> DEFINE m == {"data", "footer"}
<1>1. /\ Moves(Opens, {}, F, m)
      /\ Moves(Named({"imf", "wlf"}, F), F, F, m)
      /\ Moves(Checks(F), F, F, m)
      /\ Moves(Takes("data"), F, {"f", "data"}, m)
      /\ Moves(Takes("footer"), {"f", "data"}, {"f", "data", "footer"}, m)
      /\ Moves(Gives("footer"), {"f", "data", "footer"}, {"f", "data"}, m)
      /\ Moves(Closes, {"f", "data"}, {"data"}, m)
      /\ Moves(Rewinds, {"data"}, {"data"} \union Ready, m)
      /\ Moves(Closes, {"f", "data", "footer"}, {"data", "footer"}, m)
      /\ Moves(Rewinds, {"data", "footer"}, {"data", "footer"} \union Ready, m)
  BY DEF Moves, Opens, OpensOr, Named, Checks, Takes, Gives, Closes, Rewinds, Step, F, Ready
<1>2. /\ Brings(<<Opens>>, {}, F, m)
      /\ Brings(<<Named({"imf", "wlf"}, F)>>, F, F, m)
      /\ Brings(<<Checks(F), Takes("data")>>, F, {"f", "data"}, m)
      /\ Brings(<<Takes("footer")>>, {"f", "data"}, {"f", "data", "footer"}, m)
      /\ Brings(<<Takes("footer"), Gives("footer")>>, {"f", "data"}, {"f", "data"}, m)
      /\ Brings(<<Closes, Rewinds>>, {"f", "data"}, {"data"} \union Ready, m)
      /\ Brings(<<Closes, Rewinds>>, {"f", "data", "footer"}, {"data",
                "footer"} \union Ready, m)
  BY <1>1, Path1, Path2
<1>3. ASSUME NEW head \in Maybe(<<ImfNoHeader>>),
             NEW foot \in Maybe(<<Takes("footer")>>)
                            \union {<<Takes("footer"), Gives("footer")>>}
      PROVE  \E b \in SUBSET m :
               Brings(<<Opens>> \o head \o <<Checks(F), Takes("data")>> \o foot
                        \o <<Closes, Rewinds>>, {}, b \union Ready, m)
  <2>1. Brings(head, F, F, m)
    BY <1>2, Path0 DEF Maybe, ImfNoHeader
  <2>2. Brings(<<Opens>> \o head \o <<Checks(F), Takes("data")>>, {}, {"f", "data"}, m)
    BY <1>2, <2>1, Then
  <2>3. CASE Brings(foot, {"f", "data"}, {"f", "data"}, m)
    <3>1. Brings(<<Opens>> \o head \o <<Checks(F), Takes("data")>> \o foot \o <<Closes,
                 Rewinds>>,
                 {}, {"data"} \union Ready, m)
      BY <1>2, <2>2, <2>3, Then
    <3> QED
      BY <3>1
  <2>4. CASE Brings(foot, {"f", "data"}, {"f", "data", "footer"}, m)
    <3>1. Brings(<<Opens>> \o head \o <<Checks(F), Takes("data")>> \o foot \o <<Closes,
                 Rewinds>>,
                 {}, {"data", "footer"} \union Ready, m)
      BY <1>2, <2>2, <2>4, Then
    <3> QED
      BY <3>1
  <2> QED
    BY <1>2, <2>3, <2>4, Path0 DEF Maybe
<1>4. ASSUME NEW head \in Maybe(<<ImfNoHeader>>), NEW p \in ImfPaths(head)
      PROVE  \E b \in SUBSET m : Brings(p, {}, b \union Ready, m)
  BY <1>3 DEF ImfPaths
<1> QED
  BY <1>4 DEF Careful, ImfLoad, Loader, Ready

LEMMA MidCareful == Careful(MidLoad, Ready)
<1> DEFINE m == {"data"}
<1>1. /\ Moves(Opens, {}, F, m)
      /\ Moves(Checks(F), F, F, m)
      /\ Moves(Takes("pfilename"), F, {"f", "pfilename"}, m)
      /\ Moves(OpensOr("bank", {"pfilename", "f"}), {"f", "pfilename"}, {"f", "pfilename",
               "bank"}, m)
      /\ Moves(Gives("pfilename"), {"f", "pfilename", "bank"}, {"f", "bank"}, m)
      /\ Moves(Gives("bank"), {"f", "bank"}, F, m)
      /\ Moves(Takes("data"), F, {"f", "data"}, m)
      /\ Moves(Closes, {"f", "data"}, {"data"}, m)
      /\ Moves(Rewinds, {"data"}, {"data"} \union Ready, m)
  BY DEF Moves, Opens, OpensOr, Checks, Takes, Gives, Closes, Rewinds, Step, F, Ready
<1>2. /\ Brings(<<Opens>>, {}, F, m)
      /\ Brings(<<Checks(F)>>, F, F, m)
      /\ Brings(<<Takes("pfilename"), OpensOr("bank", {"pfilename", "f"}),
                Gives("pfilename"), Gives("bank")>>,
                F, F, m)
      /\ Brings(<<Takes("data"), Closes, Rewinds>>, F, {"data"} \union Ready, m)
  BY <1>1, Path1, Path3, Path4
<1>3. ASSUME NEW head \in {<<Checks(F)>>, MidSierra}
      PROVE  Brings(<<Opens>> \o head \o <<Takes("data"), Closes, Rewinds>>, {},
                    {"data"} \union Ready, m)
  <2>1. Brings(head, F, F, m)
    BY <1>2 DEF MidSierra
  <2> QED
    BY <1>2, <2>1, Then
<1> QED
  BY <1>3 DEF Careful, MidLoad, Loader, Ready

LEMMA VgmCareful == Careful(VgmLoad, Ready)
<1> DEFINE m == {"vgmData"}
<1>1. /\ Moves(Opens, {}, F, m)
      /\ Moves(Named({"vgm", "vgz"}, F), F, F, m)
      /\ Moves(Checks(F), F, F, m)
      /\ Moves(Takes("buf"), F, {"f", "buf"}, m)
      /\ Moves(Closes, {"f", "buf"}, {"buf"}, m)
      /\ Moves(Checks({"buf"}), {"buf"}, {"buf"}, m)
      /\ Moves(Takes("decomp"), {"buf"}, {"buf", "decomp"}, m)
      /\ Moves(Gives("buf"), {"buf", "decomp"}, {"decomp"}, m)
      /\ Moves(Checks({"decomp"}), {"decomp"}, {"decomp"}, m)
      /\ Moves(Takes("vgmData"), {"buf"}, {"buf", "vgmData"}, m)
      /\ Moves(Gives("buf"), {"buf", "vgmData"}, {"vgmData"}, m)
      /\ Moves(Rewinds, {"vgmData"}, {"vgmData"} \union Ready, m)
      /\ Moves(Takes("vgmData"), {"decomp"}, {"decomp", "vgmData"}, m)
      /\ Moves(Gives("decomp"), {"decomp", "vgmData"}, {"vgmData"}, m)
  BY DEF Moves, Opens, OpensOr, Named, Checks, Takes, Gives, Closes, Rewinds, Step, F, Ready
<1>2. /\ Brings(<<Opens, Named({"vgm", "vgz"}, F), Checks(F), Takes("buf"), Closes>>,
                {}, {"buf"}, m)
      /\ Brings(<<Checks({"buf"}), Takes("decomp"), Gives("buf"), Checks({"decomp"})>>,
                {"buf"}, {"decomp"}, m)
      /\ Brings(<<Checks({"buf"}), Takes("vgmData"), Gives("buf"), Rewinds>>,
                {"buf"}, {"vgmData"} \union Ready, m)
      /\ Brings(<<Checks({"decomp"}), Takes("vgmData"), Gives("decomp"), Rewinds>>,
                {"decomp"}, {"vgmData"} \union Ready, m)
  BY <1>1, Path4, Path5
<1>3. Brings(VgmHead \o VgmTune("buf"), {}, {"vgmData"} \union Ready, m)
  BY <1>2, Then DEF VgmHead, VgmTune
<1>4. Brings(VgmHead \o VgmGzip \o VgmTune("decomp"), {}, {"vgmData"} \union Ready, m)
  BY <1>2, Then DEF VgmHead, VgmGzip, VgmTune
<1> QED
  BY <1>3, <1>4 DEF Careful, VgmLoad, Loader, Ready

LEMMA WmCareful == Careful(WmLoad, Ready)
<1> DEFINE m == {"data", "insts", "work"}
<1>1. /\ Moves(Opens, {}, F, m)
      /\ Moves(Checks(F), F, F, m)
      /\ Moves(Takes("data"), F, {"f", "data"}, m)
      /\ Moves(Checks({"f", "data"}), {"f", "data"}, {"f", "data"}, m)
      /\ Moves(Closes, {"f", "data"}, {"data"}, m)
      /\ Moves(Takes("insts"), {"data"}, {"data", "insts"}, m)
      /\ Moves(Takes("work"), {"data"}, {"data", "work"}, m)
      /\ Moves(Rewinds, {"data", "work"}, {"data", "work"} \union Ready, m)
      /\ Moves(Takes("work"), {"data", "insts"}, {"data", "insts", "work"}, m)
      /\ Moves(Rewinds, {"data", "insts", "work"}, {"data", "insts", "work"} \union Ready, m)
  BY DEF Moves, Opens, OpensOr, Checks, Takes, Gives, Closes, Rewinds, Step, F, Ready
<1>2. /\ Brings(<<Opens, Checks(F), Takes("data"), Checks({"f", "data"}), Closes>>,
                {}, {"data"}, m)
      /\ Brings(<<Takes("insts")>>, {"data"}, {"data", "insts"}, m)
      /\ Brings(<<Takes("work"), Rewinds>>, {"data"}, {"data", "work"} \union Ready, m)
      /\ Brings(<<Takes("work"), Rewinds>>,
                {"data", "insts"}, {"data", "insts", "work"} \union Ready, m)
  BY <1>1, Path1, Path2, Path5
<1>3. ASSUME NEW insts \in Maybe(<<Takes("insts")>>)
      PROVE  \E b \in SUBSET m :
               Brings(<<Opens, Checks(F), Takes("data"), Checks({"f", "data"}),
                      Closes>> \o insts
                        \o <<Takes("work"), Rewinds>>, {}, b \union Ready, m)
  <2>1. CASE insts = <<>>
    <3>1. Brings(<<Opens, Checks(F), Takes("data"), Checks({"f", "data"}), Closes>> \o insts
                   \o <<Takes("work"), Rewinds>>, {}, {"data", "work"} \union Ready, m)
      BY <1>2, <2>1, Path0, Then
    <3> QED
      BY <3>1
  <2>2. CASE insts = <<Takes("insts")>>
    <3>1. Brings(<<Opens, Checks(F), Takes("data"), Checks({"f", "data"}), Closes>> \o insts
                   \o <<Takes("work"), Rewinds>>, {}, {"data", "insts", "work"} \union Ready, m)
      BY <1>2, <2>2, Then
    <3> QED
      BY <3>1
  <2> QED
    BY <2>1, <2>2 DEF Maybe
<1> QED
  BY <1>3 DEF Careful, WmLoad, Loader, Ready

LEMMA RolCareful == Careful(RolLoad, Ready)
<1> DEFINE m == {"mpROLHeader"}
<1>1. /\ Moves(Opens, {}, F, m)
      /\ Moves(Takes("fn"), F, {"f", "fn"}, m)
      /\ Moves(Takes("probe"), {"f", "fn"}, {"f", "fn", "probe"}, m)
      /\ Moves(Gives("probe"), {"f", "fn", "probe"}, {"f", "fn"}, m)
      /\ Moves(Gives("fn"), {"f", "fn"}, F, m)
      /\ Moves(Takes("mpROLHeader"), F, {"f", "mpROLHeader"}, m)
      /\ Moves(Checks(F), {"f", "mpROLHeader"}, {"f", "mpROLHeader"}, m)
      /\ Moves(OpensOr("bnk_file", F), {"f", "mpROLHeader"}, {"f", "mpROLHeader",
               "bnk_file"}, m)
      /\ Moves(Gives("bnk_file"), {"f", "mpROLHeader", "bnk_file"}, {"f", "mpROLHeader"}, m)
      /\ Moves(Closes, {"f", "mpROLHeader"}, {"mpROLHeader"}, m)
      /\ Moves(Rewinds, {"mpROLHeader"}, {"mpROLHeader"} \union Ready, m)
  BY DEF Moves, Opens, OpensOr, Checks, Takes, Gives, Closes, Rewinds, Step, F, Ready
<1>2. /\ Brings(<<Opens, Takes("fn")>>, {}, {"f", "fn"}, m)
      /\ Brings(<<Takes("probe"), Gives("probe")>>, {"f", "fn"}, {"f", "fn"}, m)
      /\ Brings(<<Gives("fn"), Takes("mpROLHeader"), Checks(F)>>,
                {"f", "fn"}, {"f", "mpROLHeader"}, m)
      /\ Brings(<<OpensOr("bnk_file", F), Gives("bnk_file")>>,
                {"f", "mpROLHeader"}, {"f", "mpROLHeader"}, m)
      /\ Brings(<<Closes, Rewinds>>, {"f", "mpROLHeader"}, {"mpROLHeader"} \union Ready, m)
  BY <1>1, Path2, Path3
<1>3. ASSUME NEW probe \in Maybe(<<Takes("probe"), Gives("probe")>>)
      PROVE  Brings(<<Opens, Takes("fn")>> \o probe
                      \o <<Gives("fn"), Takes("mpROLHeader"), Checks(F)>>
                      \o RolVoices \o <<Closes, Rewinds>>, {}, {"mpROLHeader"} \union Ready, m)
  <2>1. Brings(probe, {"f", "fn"}, {"f", "fn"}, m)
    BY <1>2, Path0 DEF Maybe
  <2>2. Brings(RolVoices, {"f", "mpROLHeader"}, {"f", "mpROLHeader"}, m)
    BY <1>2 DEF RolVoices
  <2> QED
    BY <1>2, <2>1, <2>2, Then
<1> QED
  BY <1>3 DEF Careful, RolLoad, Loader, Ready

LEMMA HeradCareful == Careful(HeradLoad, Ready)
<1> DEFINE m == {"track", "chn", "inst"}
<1>1. /\ Moves(Opens, {}, F, m)
      /\ Moves(Named({"hsq", "sqx", "sdb", "agd", "ha2"}, F), F, F, m)
      /\ Moves(Checks(F), F, F, m)
      /\ Moves(Takes("data"), F, {"f", "data"}, m)
      /\ Moves(Closes, {"f", "data"}, {"data"}, m)
      /\ Moves(Takes("out"), {"data"}, {"data", "out"}, m)
      /\ Moves(Gives("data"), {"data", "out"}, {"out"}, m)
      /\ Moves(Takes("data"), {"out"}, {"out", "data"}, m)
      /\ Moves(Gives("out"), {"out", "data"}, {"data"}, m)
      /\ Moves(Checks({"data"}), {"data"}, {"data"}, m)
      /\ Moves(Takes("track"), {"data"}, {"data", "track"}, m)
      /\ Moves(Takes("chn"), {"data", "track"}, {"data", "track", "chn"}, m)
      /\ Moves(Takes("inst"), {"data", "track", "chn"}, {"data", "track", "chn", "inst"}, m)
      /\ Moves(Gives("data"), {"data", "track", "chn", "inst"}, {"track", "chn", "inst"}, m)
      /\ Moves(Rewinds, {"track", "chn", "inst"}, {"track", "chn", "inst"} \union Ready, m)
  BY DEF Moves, Opens, OpensOr, Named, Checks, Takes, Gives, Closes, Rewinds, Step, F, Ready
<1>2. /\ Brings(<<Opens, Named({"hsq", "sqx", "sdb", "agd", "ha2"}, F), Checks(F),
                Takes("data"), Closes>>,
                {}, {"data"}, m)
      /\ Brings(<<Takes("out"), Gives("data"), Takes("data"), Gives("out")>>,
                {"data"}, {"data"}, m)
      /\ Brings(<<Checks({"data"}), Takes("track"), Takes("chn"), Takes("inst"),
                Gives("data"), Rewinds>>,
                {"data"}, {"track", "chn", "inst"} \union Ready, m)
  BY <1>1, Path4, Path5, Path6
<1>3. ASSUME NEW u \in HeradUnpacked
      PROVE  Brings(<<Opens, Named({"hsq", "sqx", "sdb", "agd", "ha2"}, F), Checks(F),
                      Takes("data"), Closes>> \o u
                      \o <<Checks({"data"}), Takes("track"), Takes("chn"), Takes("inst"),
                           Gives("data"), Rewinds>>, {}, {"track", "chn",
        "inst"} \union Ready, m)
  <2>1. Brings(u, {"data"}, {"data"}, m)
    BY <1>2, Path0 DEF HeradUnpacked, Maybe
  <2> QED
    BY <1>2, <2>1, Then
<1> QED
  BY <1>3 DEF Careful, HeradLoad, Loader, Ready

LEMMA MusCareful == Careful(MusLoad, Ready)
<1> DEFINE m == {"data", "insts"}
<1>1. /\ Moves(Opens, {}, F, m)
      /\ Moves(Named({"mus", "mdy", "ims"}, F), F, F, m)
      /\ Moves(Checks(F), F, F, m)
      /\ Moves(Takes("data"), F, {"f", "data"}, m)
      /\ Moves(Closes, {"f", "data"}, {"data"}, m)
      /\ Moves(Takes("insts"), {"f", "data"}, {"f", "data", "insts"}, m)
      /\ Moves(Closes, {"f", "data", "insts"}, {"data", "insts"}, m)
      /\ Moves(Takes("bank"), {"data"}, {"data", "bank"}, m)
      /\ Moves(Gives("bank"), {"data", "bank"}, {"data"}, m)
      /\ Moves(Takes("bank"), {"data", "insts"}, {"data", "insts", "bank"}, m)
      /\ Moves(Gives("bank"), {"data", "insts", "bank"}, {"data", "insts"}, m)
      /\ Moves(Rewinds, {"data"}, {"data"} \union Ready, m)
      /\ Moves(Rewinds, {"data", "insts"}, {"data", "insts"} \union Ready, m)
  BY DEF Moves, Opens, OpensOr, Named, Checks, Takes, Gives, Closes, Rewinds, Step, F, Ready
<1>2. /\ Brings(<<Opens, Named({"mus", "mdy", "ims"}, F), Checks(F), Takes("data")>>,
                {}, {"f", "data"}, m)
      /\ Brings(<<Closes>>, {"f", "data"}, {"data"}, m)
      /\ Brings(<<Takes("insts"), Closes>>, {"f", "data"}, {"data", "insts"}, m)
      /\ Brings(<<Takes("bank"), Gives("bank")>>, {"data"}, {"data"}, m)
      /\ Brings(<<Takes("bank"), Gives("bank")>>, {"data", "insts"}, {"data", "insts"}, m)
      /\ Brings(<<Rewinds>>, {"data"}, {"data"} \union Ready, m)
      /\ Brings(<<Rewinds>>, {"data", "insts"}, {"data", "insts"} \union Ready, m)
  BY <1>1, Path1, Path2, Path4
<1>3. Brings(<<Takes("bank"), Takes("insts"), Gives("bank")>>, {"data"}, {"data", "insts"}, m)
  <2>1. /\ Moves(Takes("bank"), {"data"}, {"data", "bank"}, m)
        /\ Moves(Takes("insts"), {"data", "bank"}, {"data", "bank", "insts"}, m)
        /\ Moves(Gives("bank"), {"data", "bank", "insts"}, {"data", "insts"}, m)
    BY DEF Moves, Takes, Gives, Step, Ready
  <2> QED
    BY <2>1, Path3
<1>4. ASSUME NEW timbres \in {<<Closes>> \o b : b \in MusTimbreBank}
                              \union {<<Takes("insts"), Closes>> \o b : b \in MusBnk}
      PROVE  \/ Brings(timbres, {"f", "data"}, {"data"}, m)
             \/ Brings(timbres, {"f", "data"}, {"data", "insts"}, m)
  <2>1. ASSUME NEW b \in MusTimbreBank
        PROVE  \/ Brings(<<Closes>> \o b, {"f", "data"}, {"data"}, m)
               \/ Brings(<<Closes>> \o b, {"f", "data"}, {"data", "insts"}, m)
    <3>1. Brings(b, {"data"}, {"data"}, m) \/ Brings(b, {"data"}, {"data", "insts"}, m)
      BY <1>2, <1>3, Path0 DEF MusTimbreBank
    <3> QED
      BY <1>2, <3>1, Then
  <2>2. ASSUME NEW b \in MusBnk
        PROVE  Brings(<<Takes("insts"), Closes>> \o b, {"f", "data"}, {"data", "insts"}, m)
    <3>1. Brings(b, {"data", "insts"}, {"data", "insts"}, m)
      BY <1>2, Path0 DEF MusBnk, Maybe
    <3> QED
      BY <1>2, <3>1, Then
  <2> QED
    BY <2>1, <2>2
<1>5. ASSUME NEW timbres \in {<<Closes>> \o b : b \in MusTimbreBank}
                              \union {<<Takes("insts"), Closes>> \o b : b \in MusBnk}
      PROVE  \E b \in SUBSET m :
               Brings(<<Opens, Named({"mus", "mdy", "ims"}, F), Checks(F), Takes("data")>>
                        \o timbres \o <<Rewinds>>, {}, b \union Ready, m)
  <2>1. \/ Brings(<<Opens, Named({"mus", "mdy", "ims"}, F), Checks(F), Takes("data")>>
                    \o timbres \o <<Rewinds>>, {}, {"data"} \union Ready, m)
        \/ Brings(<<Opens, Named({"mus", "mdy", "ims"}, F), Checks(F), Takes("data")>>
                    \o timbres \o <<Rewinds>>, {}, {"data", "insts"} \union Ready, m)
    BY <1>2, <1>4, Then
  <2> QED
    BY <2>1
<1> QED
  BY <1>5 DEF Careful, MusLoad, Loader, Ready

(* The strings and the bank of an XMI file are members, each there or not. *)
LEMMA XmiCareful == Careful(XmiLoad, Ready)
<1> DEFINE m == {"xmi_data", "title_str", "author_str", "ext_bank_data"}
           head == <<Opens, Checks(F), Takes("xmi_data"), Closes, Checks({"xmi_data"})>>
<1>1. Brings(head, {}, {"xmi_data"}, m)
  <2>1. /\ Moves(Opens, {}, F, m)
        /\ Moves(Checks(F), F, F, m)
        /\ Moves(Takes("xmi_data"), F, {"f", "xmi_data"}, m)
        /\ Moves(Closes, {"f", "xmi_data"}, {"xmi_data"}, m)
        /\ Moves(Checks({"xmi_data"}), {"xmi_data"}, {"xmi_data"}, m)
    BY DEF Moves, Opens, OpensOr, Checks, Takes, Gives, Closes, Step, F, Ready
  <2> QED
    BY <2>1, Path5
<1>2. ASSUME NEW a \in SUBSET m, NEW x \in m \ a
      PROVE  Brings(<<Takes(x)>>, a, a \union {x}, m)
  <2>1. Moves(Takes(x), a, a \union {x}, m)
    BY <1>2 DEF Moves, Takes, Step, Ready
  <2> QED
    BY <2>1, Path1
<1>3. ASSUME NEW s \in XmiStrings
      PROVE  \E a \in SUBSET {"title_str", "author_str"} :
               Brings(s, {"xmi_data"}, {"xmi_data"} \union a, m)
  <2>1. PICK t \in Maybe(<<Takes("title_str")>>) : s \in {t, t \o <<Takes("author_str")>>}
    BY DEF XmiStrings
  <2>2. PICK a : /\ a \in {{"xmi_data"}, {"xmi_data", "title_str"}}
                 /\ Brings(t, {"xmi_data"}, a, m)
    <3>1. Brings(<<Takes("title_str")>>, {"xmi_data"}, {"xmi_data"} \union {"title_str"}, m)
      BY <1>2
    <3>2. {"xmi_data"} \union {"title_str"} = {"xmi_data", "title_str"}
      OBVIOUS
    <3> QED
      BY <3>1, <3>2, Path0 DEF Maybe
  <2>3. Brings(<<Takes("author_str")>>, a, a \union {"author_str"}, m)
    BY <1>2, <2>2
  <2>4. Brings(s, {"xmi_data"}, a, m) \/ Brings(s, {"xmi_data"}, a \union {"author_str"}, m)
    <3>1. Brings(t \o <<Takes("author_str")>>, {"xmi_data"}, a \union {"author_str"}, m)
      BY <2>2, <2>3, Then
    <3> QED
      BY <2>1, <2>2, <3>1
  <2>5. PICK c \in {a, a \union {"author_str"}} : Brings(s, {"xmi_data"}, c, m)
    BY <2>4
  <2>6. /\ c = {"xmi_data"} \union (c \ {"xmi_data"})
        /\ c \ {"xmi_data"} \in SUBSET {"title_str", "author_str"}
    BY <2>2, <2>5
  <2> QED
    BY <2>5, <2>6
<1>4. ASSUME NEW a \in SUBSET {"title_str", "author_str"}, NEW b \in XmiBank
      PROVE  \E c \in SUBSET m : Brings(b, {"xmi_data"} \union a, c, m)
  <2> DEFINE g == {"xmi_data"} \union a
  <2>1. Brings(<<>>, g, g, m)
    BY Path0
  <2>2. Brings(<<Takes("bf"), Gives("bf")>>, g, g, m)
    <3>1. /\ Moves(Takes("bf"), g, g \union {"bf"}, m)
          /\ Moves(Gives("bf"), g \union {"bf"}, g, m)
      BY DEF Moves, Takes, Gives, Step, Ready
    <3> QED
      BY <3>1, Path2
  <2>3. Brings(<<Takes("bf"), Takes("ext_bank_data"), Gives("bf")>>, g,
               g \union {"ext_bank_data"}, m)
    <3>1. /\ Moves(Takes("bf"), g, g \union {"bf"}, m)
          /\ Moves(Takes("ext_bank_data"), g \union {"bf"}, g \union {"bf", "ext_bank_data"}, m)
          /\ Moves(Gives("bf"), g \union {"bf", "ext_bank_data"}, g \union {"ext_bank_data"}, m)
      BY DEF Moves, Takes, Gives, Step, Ready
    <3> QED
      BY <3>1, Path3
  <2>4. g \in SUBSET m /\ g \union {"ext_bank_data"} \in SUBSET m
    OBVIOUS
  <2> QED
    BY <2>1, <2>2, <2>3, <2>4 DEF XmiBank
<1>5. ASSUME NEW s \in XmiStrings, NEW b \in XmiBank
      PROVE  \E c \in SUBSET m : Brings(head \o s \o b \o <<Rewinds>>, {}, c \union Ready, m)
  <2>1. PICK a \in SUBSET {"title_str", "author_str"} :
               Brings(s, {"xmi_data"}, {"xmi_data"} \union a, m)
    BY <1>3
  <2>2. PICK c \in SUBSET m : Brings(b, {"xmi_data"} \union a, c, m)
    BY <1>4
  <2>3. Brings(<<Rewinds>>, c, c \union Ready, m)
    <3>1. Moves(Rewinds, c, c \union Ready, m)
      BY DEF Moves, Rewinds, Step, Ready
    <3> QED
      BY <3>1, Path1
  <2>4. Brings(head \o s \o b, {}, c, m)
    BY <1>1, <2>1, <2>2, Then
  <2> QED
    BY <2>3, <2>4, Then
<1>6. ASSUME NEW s \in XmiStrings, NEW p \in XmiPaths(s)
      PROVE  \E c \in SUBSET m : Brings(p, {}, c \union Ready, m)
  BY <1>5 DEF XmiPaths
<1> QED
  BY <1>6 DEF Careful, XmiLoad, Loader, Ready

-----------------------------------------------------------------------------
(***************************************************************************)
(* Whatever of the list is asked, its load() is careful.                   *)
(***************************************************************************)
LEMMA LoadersCareful ==
  ASSUME NEW l \in Loaders
  PROVE  Careful(l, Ready) \/ l = Rad2Load
<1>1. /\ BmfLoad = XadLoad(<<Checks({})>>) /\ FlashLoad = BmfLoad /\ HybridLoad = BmfLoad
      /\ HypLoad = BmfLoad /\ PsiLoad = BmfLoad /\ RatLoad = BmfLoad
  BY DEF BmfLoad, FlashLoad, HybridLoad, HypLoad, PsiLoad, RatLoad
<1> QED
  BY <1>1, SimpleCareful, CheckedCareful, AdtrackCareful, HspCareful, MtkCareful, DmoCareful,
     HscCareful, LdsCareful, PlxCareful, PisCareful, A2mv2Careful, FmkCareful, SopCareful,
     CmfmcsopCareful, SngCareful, BamCareful, DataCareful, XsmCareful, RixCareful, Dro2Careful,
     MscCareful, GotCareful, MdiCareful, JbmCareful, MkjCareful, KsmCareful, U6mCareful,
     CmfCareful, CoktelCareful, AdlCareful, A2mCareful, CffCareful, D00Careful, XadCareful,
     ImfCareful, MidCareful, VgmCareful, WmCareful, RolCareful, HeradCareful, MusCareful,
     XmiCareful
     DEF Loaders

(* The outline of the path an object is on, while it loads; what it has    *)
(* become, when load() has returned.                                       *)
Loads ==
  stage = "load" =>
    /\ Len(path) \in Nat /\ at \in 1 .. Len(path) + 1
    /\ \E h, b, r :
         /\ Outline(path, h, Member) /\ h[1] = {} /\ h[Len(path) + 1] = b \union r
         /\ b \in SUBSET Member /\ r \in {{}, Ready} /\ (r = Ready \/ Format = "rad2")
         /\ held = h[at] \ Ready /\ (rewound <=> "ready" \in h[at])

Left ==
  /\ stage = "no" => held \subseteq Member /\ ~rewound
  /\ stage = "yes" => held \subseteq Member /\ (rewound \/ Format = "rad2")

LoadInv ==
  /\ turn \in Nat \ {0}
  /\ stage \in {"none", "load", "no", "yes"}
  /\ stage # "none" => turn \in 1 .. Len(Players)
  /\ Loads /\ Left

LEMMA PlayersCareful ==
  ASSUME NEW i \in 1 .. Len(Players)
  PROVE  /\ "ready" \notin Players[i][2].frees
         /\ \A p \in Players[i][2].paths :
              \E r \in {{}, Ready} : \E b \in SUBSET Players[i][2].frees :
              /\ Brings(p, {}, b \union r, Players[i][2].frees)
              /\ r = Ready \/ Players[i][1] = "rad2"
<1>1. Players[i][2] \in Loaders /\ (Players[i][2] = Rad2Load => Players[i][1] = "rad2")
  BY PlayersAssumption
<1>2. Careful(Players[i][2], Ready) \/ (Careful(Players[i][2], {}) /\ Players[i][1] = "rad2")
  BY <1>1, LoadersCareful, Rad2Careful
<1> QED
  BY <1>2 DEF Careful

LEMMA LoadsHere ==
  ASSUME LoadInv, stage = "load"
  PROVE  \E h, b, r :
           /\ Outline(path, h, Member) /\ h[1] = {} /\ h[Len(path) + 1] = b \union r
           /\ b \in SUBSET Member /\ r \in {{}, Ready} /\ (r = Ready \/ Format = "rad2")
           /\ held = h[at] \ Ready /\ (rewound <=> "ready" \in h[at])
BY DEF LoadInv, Loads

LEMMA AskStarts ==
  ASSUME LoadInv, Ask
  PROVE  LoadInv'
<1>1. turn \in 1 .. Len(Players)
  <2>1. Len(Players) \in Nat
    BY PlayersAssumption
  <2> QED
    BY <2>1 DEF LoadInv, Ask
<1>2. PICK r \in {{}, Ready}, b \in SUBSET Member :
           Brings(path', {}, b \union r, Member) /\ (r = Ready \/ Format = "rad2")
  BY <1>1, PlayersCareful DEF Ask, Member, Format
<1>3. PICK h : h[1] = {} /\ h[Len(path') + 1] = b \union r /\ Outline(path', h, Member)
  BY <1>2 DEF Brings
<1>4. Len(path') \in Nat
  BY <1>2 DEF Brings
<1>5. Loads'
  <2>1. Member' = Member /\ Format' = Format /\ at' = 1 /\ held' = {} /\ rewound' = FALSE
    BY DEF Ask, Member, Format
  <2>2. held' = h[at'] \ Ready /\ (rewound' <=> "ready" \in h[at'])
    BY <1>3, <2>1
  <2>3. at' \in 1 .. Len(path') + 1
    BY <1>4, <2>1
  <2> QED
    BY <1>2, <1>3, <1>4, <2>1, <2>2, <2>3 DEF Loads
<1> QED
  BY <1>1, <1>5 DEF Ask, LoadInv, Left

LEMMA GoMoves ==
  ASSUME LoadInv, Go
  PROVE  LoadInv'
<1>1. PICK h, b, r :
           /\ Outline(path, h, Member) /\ h[1] = {} /\ h[Len(path) + 1] = b \union r
           /\ b \in SUBSET Member /\ r \in {{}, Ready} /\ (r = Ready \/ Format = "rad2")
           /\ held = h[at] \ Ready /\ (rewound <=> "ready" \in h[at])
  BY LoadsHere DEF Go
<1>2. /\ Len(path) \in Nat /\ at \in 1 .. Len(path) /\ at' = at + 1 /\ path' = path
      /\ Member' = Member /\ Format' = Format /\ stage' = "load"
  BY DEF LoadInv, Loads, Go, Member, Format
<1>3. PICK c, d : c = h[at] /\ d = h[at'] /\ Moves(Here, c, d, Member)
  BY <1>1, <1>2 DEF Outline, Here
<1>4. held' = d \ Ready /\ (rewound' <=> "ready" \in d)
  <2>1. held = c \ Ready /\ (rewound <=> "ready" \in c)
    BY <1>1, <1>3
  <2>2. CASE Here.does \in {"open", "take"}
    BY <1>3, <2>1, <2>2 DEF Go, Moves, Ready
  <2>3. CASE Here.does = "give"
    BY <1>3, <2>1, <2>3 DEF Go, Moves, Ready
  <2>4. CASE Here.does = "rewind"
    BY <1>3, <2>1, <2>4 DEF Go, Moves, Ready
  <2>5. CASE Here.does \in {"check", "name"}
    BY <1>3, <2>1, <2>5 DEF Go, Moves, Ready
  <2> QED
    BY <1>3, <2>2, <2>3, <2>4, <2>5 DEF Moves
<1>5. Loads'
  <2>1. at' \in 1 .. Len(path') + 1
    BY <1>2
  <2> QED
    BY <1>1, <1>2, <1>3, <1>4, <2>1 DEF Loads
<1> QED
  BY <1>2, <1>5 DEF Go, LoadInv, Left

LEMMA RefuseLeaves ==
  ASSUME LoadInv, Refuse
  PROVE  LoadInv'
<1>1. PICK h, b, r :
           /\ Outline(path, h, Member)
           /\ held = h[at] \ Ready /\ (rewound <=> "ready" \in h[at])
  BY LoadsHere DEF Refuse
<1>2. /\ Len(path) \in Nat /\ at \in 1 .. Len(path) /\ turn \in 1 .. Len(Players)
      /\ Member' = Member /\ stage' = "no" /\ held' = held \ Here.gives /\ rewound' = rewound
  BY DEF LoadInv, Loads, Refuse, Member
<1>3. PICK c, d : c = h[at] /\ Moves(Here, c, d, Member)
  BY <1>1, <1>2 DEF Outline, Here
<1>4. c \ Here.gives \subseteq Member /\ "ready" \notin Here.gives
  BY <1>3 DEF Refuse, May, Moves
<1>5. "ready" \notin Member
  BY <1>2, PlayersCareful DEF Member
<1>6. held' \subseteq Member /\ ~rewound
  BY <1>1, <1>2, <1>3, <1>4, <1>5
<1> QED
  BY <1>2, <1>6 DEF Refuse, LoadInv, Loads, Left

LEMMA AcceptKeeps ==
  ASSUME LoadInv, Accept
  PROVE  LoadInv'
<1>1. PICK h, b, r :
           /\ h[Len(path) + 1] = b \union r
           /\ b \in SUBSET Member /\ r \in {{}, Ready} /\ (r = Ready \/ Format = "rad2")
           /\ held = h[at] \ Ready /\ (rewound <=> "ready" \in h[at])
  BY LoadsHere DEF Accept
<1>2. held \subseteq Member /\ (rewound \/ Format = "rad2")
  <2>1. at = Len(path) + 1
    BY DEF Accept
  <2>2. PICK c : c = b \union r /\ held = c \ Ready /\ (rewound <=> "ready" \in c)
    BY <1>1, <2>1
  <2> QED
    BY <1>1, <2>2 DEF Ready
<1>3. Member' = Member /\ Format' = Format
  BY DEF Accept, Member, Format
<1> QED
  BY <1>2, <1>3 DEF Accept, LoadInv, Loads, Left

(* The invariant of factory().                                             *)
THEOREM LoadInvHolds == Spec => []LoadInv
<1>1. Init => LoadInv
  BY DEF Init, LoadInv, Loads, Left
<1>2. LoadInv /\ [Next]_vars => LoadInv'
  <2> SUFFICES ASSUME LoadInv, [Next]_vars PROVE LoadInv'
    OBVIOUS
  <2>1. CASE Ask
    BY <2>1, AskStarts
  <2>2. CASE Go
    BY <2>2, GoMoves
  <2>3. CASE Refuse
    BY <2>3, RefuseLeaves
  <2>4. CASE Accept
    BY <2>4, AcceptKeeps
  <2>5. CASE Skip \/ EndOfList \/ Discard
    BY <2>5 DEF Skip, EndOfList, Discard, Asking, LoadInv, Loads, Left
  <2>6. CASE UNCHANGED vars
    BY <2>6 DEF vars, LoadInv, Loads, Left, Member, Format
  <2> QED
    BY <2>1, <2>2, <2>3, <2>4, <2>5, <2>6 DEF Next
<1> QED
  BY <1>1, <1>2, PTL DEF Spec

(* Whichever way load() is left, only what the destructor frees is kept    *)
(* (LeftClean), on every path of every loader, whatever the list and the   *)
(* extension.                                                              *)
THEOREM LoadsLeaveClean == Spec => []LeftClean
<1>1. LoadInv => LeftClean
  BY DEF LoadInv, Left, LeftClean
<1> QED
  BY <1>1, LoadInvHolds, PTL

(* Nothing is closed or freed that is not held, and nothing opened or      *)
(* taken over something held (GivenOnce).                                  *)
THEOREM LoadsGiveOnce == Spec => []GivenOnce
<1>1. LoadInv => GivenOnce
  <2> SUFFICES ASSUME LoadInv, stage = "load", at <= Len(path)
               PROVE  /\ Here.gives \subseteq held
                      /\ Here.does \in {"open", "take"} => Here.thing \notin held
    BY DEF GivenOnce
  <2>1. PICK h, b, r : Outline(path, h, Member) /\ held = h[at] \ Ready
    BY LoadsHere
  <2>2. at \in 1 .. Len(path)
    BY DEF LoadInv, Loads
  <2>3. Moves(Here, h[at], h[at + 1], Member)
    BY <2>1, <2>2 DEF Outline, Here
  <2> QED
    BY <2>1, <2>3 DEF Moves, Ready
<1> QED
  BY <1>1, LoadInvHolds, PTL

(* A player that factory() returns has been rewound, and none that it has  *)
(* deleted (RewoundIfValid).                                               *)
THEOREM LoadsRewind == Spec => []RewoundIfValid
<1>1. LoadInv => RewoundIfValid
  BY DEF LoadInv, Left, RewoundIfValid
<1> QED
  BY <1>1, LoadInvHolds, PTL
=============================================================================
