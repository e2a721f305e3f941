-------------------------- MODULE SpecFilesProofs --------------------------
(***************************************************************************)
(* What is proved of the files of spectra and matrices: their types, that  *)
(* a finished entry is read back, and that of any other entry a reader     *)
(* gets rows written of it or none.                                        *)
(*                                                                         *)
(* The invariant lays the entries of the log out in the file (Layout):     *)
(* where each begins, and what was to be written of it, of which the file  *)
(* has a beginning; the writer still has the rest of the last one, or a    *)
(* whole one to come (Pending).  Every entry has one header and it comes   *)
(* first, so that counting headers finds an entry (HeadsCount), and the    *)
(* rows that follow the header end where the entry does (EntryRows).       *)
(***************************************************************************)
EXTENDS SpecFiles, TLAPS, FiniteSetTheorems

Marks == {"", "EF", "#", "ELIS", "ETOA", "Matrix"}
TextLine == [mark : Marks, vals : Seq(Number)]
FileLine == TextLine \cup {Document(d) : d \in Datasets} \cup {Line("torn", << >>)}

(* The lines of an entry before its rows. *)
Lead == IF fmt = "CSV" /\ kind = "matrix" THEN 3 ELSE 1

Agreeing == {d \in Datasets : SizesAgree(d)}
Outs == [d \in Agreeing |-> Output(d)]

(* f is made of the entries of lg: entry k begins in line s[k], with a       *)
(* beginning of o[k], all of it if the entry is done.                        *)
End(f, s, k) == IF k = Len(s) THEN Len(f) ELSE s[k + 1] - 1

Layout(f, lg, s, o, Out) ==
  /\ s \in [1 .. Len(lg) -> 1 .. Len(f)]
  /\ \A j, k \in 1 .. Len(lg) : j < k => s[j] < s[k]
  /\ \A p \in 1 .. Len(f) : \E k \in 1 .. Len(lg) : s[k] <= p /\ p <= End(f, s, k)
  /\ DOMAIN o = 1 .. Len(lg)
  /\ \A k \in 1 .. Len(lg) :
       /\ o[k] \in Out[lg[k].data]
       /\ End(f, s, k) - s[k] + 1 \in 1 .. Len(o[k])
       /\ \A i \in 1 .. End(f, s, k) - s[k] + 1 : f[s[k] + i - 1] = o[k][i]
       /\ lg[k].done => End(f, s, k) - s[k] + 1 = Len(o[k])

(* The lines to come make a whole entry, or the rest of the last one. *)
Pending(f, lg, s, o, w, Out) ==
  \/ w.lines \in Out[w.data]
  \/ /\ Len(lg) > 0 /\ lg[Len(lg)].data = w.data
     /\ Len(o[Len(lg)]) = Len(f) - s[Len(lg)] + 1 + Len(w.lines)
     /\ \A i \in 1 .. Len(w.lines) : w.lines[i] = o[Len(lg)][Len(f) - s[Len(lg)] + 1 + i]

TypeInv ==
  /\ fmt \in Formats /\ kind \in {"spec", "matrix"} /\ made \in BOOLEAN
  /\ writes \in 0 .. MaxWrites
  /\ file \in Seq(FileLine) /\ (file # << >> \/ ~Idle => made)
  /\ log \in Seq([data : Agreeing, done : BOOLEAN])
  /\ Idle \/ writer \in [data : Agreeing, lines : Seq(FileLine) \ {<< >>}]
  /\ got \in [status : {"none", "true", "false", "throws"}, data : Dataset]

TextInv ==
  fmt # "BSON" =>
    \E s, o : Layout(file, log, s, o, Outs) /\ (Idle \/ Pending(file, log, s, o, writer, Outs))

BsonInv ==
  fmt = "BSON" =>
    /\ Len(file) = Len(log)
    /\ \A k \in 1 .. Len(log) :
         file[k] = IF log[k].done THEN Document(log[k].data) ELSE Line("torn", << >>)
    /\ Idle \/ writer.lines = <<Document(writer.data)>>

IInv == TypeInv /\ TextInv /\ BsonInv
-----------------------------------------------------------------------------
(* What the writers write *)

LEMMA Concat ==
  ASSUME NEW S, NEW s \in Seq(S), NEW t \in Seq(S)
  PROVE  /\ s \o t \in Seq(S) /\ Len(s \o t) = Len(s) + Len(t)
         /\ \A i \in 1 .. Len(s) : (s \o t)[i] = s[i]
         /\ \A i \in 1 .. Len(t) : (s \o t)[Len(s) + i] = t[i]
  OBVIOUS

NumRows(d) == IF kind = "spec" THEN Len(d.E) ELSE Len(d.M)
RowVals(d, i) == IF kind = "spec" THEN <<d.E[i], d.F[i]>>
                 ELSE IF fmt = "TXT" THEN <<d.ETOA[i]>> \o d.M[i] ELSE d.M[i]

(* The lines of d: those before the rows, the first of which begins an       *)
(* entry, and the rows.                                                      *)
IsText(o, d) ==
  /\ o \in Seq(TextLine) /\ Len(o) = Lead + NumRows(d)
  /\ o[1].mark \in EntryMarks
  /\ \A i \in 2 .. Lead : o[i].mark \notin EntryMarks
  /\ \A i \in 1 .. Lead : o[i].mark # ""
  /\ \A i \in 1 .. NumRows(d) : o[Lead + i] = Line("", RowVals(d, i))

LEMMA SpectrumType ==
  ASSUME kind = "spec", NEW d \in Agreeing
  PROVE  d \in Flux /\ d.E \in Seq(Vals) /\ d.F \in Seq(Vals) /\ Len(d.E) = Len(d.F)
  BY FilesAssumption DEF Agreeing, Datasets, SizesAgree, Flux, Number

LEMMA MatrixType ==
  ASSUME kind = "matrix", NEW d \in Agreeing
  PROVE  /\ d \in Matrix /\ d.ETOA \in Seq(Vals) /\ d.ELIS \in Seq(Vals) /\ d.M \in Seq(Seq(Vals))
         /\ Len(d.ETOA) = Len(d.M)
<1>1. d \in [ETOA : Seq(Vals), ELIS : Seq(Vals), M : Seq(Seq(Vals))] /\ Len(d.ETOA) = Len(d.M)
  BY FilesAssumption DEF Agreeing, Datasets, SizesAgree
<1>2. Seq(Vals) \subseteq Seq(Number) BY DEF Number
<1>3. Seq(Seq(Vals)) \subseteq Seq(Seq(Number)) BY <1>2
<1> QED BY <1>1, <1>2, <1>3 DEF Matrix

LEMMA RowType ==
  ASSUME kind \in {"spec", "matrix"}, NEW d \in Agreeing, NEW i \in 1 .. NumRows(d)
  PROVE  RowVals(d, i) \in Seq(Number)
<1>0. Vals \subseteq Number BY DEF Number
<1>1. CASE kind = "spec"
  <2>1. i \in 1 .. Len(d.E) /\ Len(d.E) = Len(d.F) /\ d.E \in Seq(Vals) /\ d.F \in Seq(Vals)
    BY <1>1, SpectrumType DEF NumRows
  <2>2. d.E[i] \in Vals /\ d.F[i] \in Vals BY <2>1
  <2>3. <<d.E[i], d.F[i]>> \in Seq(Number) BY <1>0, <2>2
  <2> QED BY <1>1, <2>3 DEF RowVals
<1>2. CASE kind = "matrix"
  <2>1. i \in 1 .. Len(d.M) /\ Len(d.ETOA) = Len(d.M) /\ d.ETOA \in Seq(Vals) /\ d.M \in Seq(Seq(Vals))
    BY <1>2, MatrixType DEF NumRows
  <2>2. d.M[i] \in Seq(Vals) /\ d.ETOA[i] \in Vals BY <2>1
  <2>3. d.M[i] \in Seq(Number) /\ <<d.ETOA[i]>> \in Seq(Number) BY <1>0, <2>2
  <2>4. <<d.ETOA[i]>> \o d.M[i] \in Seq(Number) BY <2>3, Concat
  <2> QED BY <1>2, <2>3, <2>4 DEF RowVals
<1> QED BY <1>1, <1>2

LEMMA TextOutput ==
  ASSUME fmt \in {"TXT", "CSV"}, kind \in {"spec", "matrix"},
         NEW d \in Agreeing, NEW o \in Output(d)
  PROVE  IsText(o, d)
<1> DEFINE rows == [i \in 1 .. NumRows(d) |-> Line("", RowVals(d, i))]
<1>1. NumRows(d) \in Nat
  BY SpectrumType, MatrixType DEF NumRows
<1>2. rows \in Seq(TextLine) /\ Len(rows) = NumRows(d)
  <2>1. ASSUME NEW i \in 1 .. NumRows(d) PROVE Line("", RowVals(d, i)) \in TextLine
    BY RowType DEF Line, TextLine, Marks
  <2>2. rows \in [1 .. NumRows(d) -> TextLine] BY <2>1
  <2>3. PICK n : n = NumRows(d) OBVIOUS
  <2>4. n \in Nat /\ rows \in [1 .. n -> TextLine] BY <1>1, <2>2, <2>3
  <2> HIDE DEF rows
  <2>5. rows \in Seq(TextLine) /\ Len(rows) = n BY <2>4
  <2> QED BY <2>3, <2>5
<1>3. \A i \in 1 .. NumRows(d) : rows[i] = Line("", RowVals(d, i)) OBVIOUS
<1>4. CASE kind = "spec"
  <2>1. o = <<Line("EF", << >>)>> \o rows
    <3>1. DOMAIN d.E = 1 .. NumRows(d) BY <1>4, SpectrumType DEF NumRows
    <3>2. rows = [i \in DOMAIN d.E |-> Line("", <<d.E[i], d.F[i]>>)] BY <1>4, <3>1 DEF RowVals
    <3> QED BY <1>4, <3>2 DEF Output, SpecLines
  <2>2. PICK head : head = <<Line("EF", << >>)>> OBVIOUS
  <2>3. head \in Seq(TextLine) /\ Len(head) = 1 /\ head[1].mark = "EF"
    BY <2>2 DEF Line, TextLine, Marks
  <2>4. Lead = 1 BY <1>4 DEF Lead
  <2> HIDE DEF rows
  <2>5. o \in Seq(TextLine) /\ Len(o) = 1 + Len(rows) /\ o[1] = head[1] /\ \A i \in 1 .. Len(rows) : o[1 + i] = rows[i]
    BY <1>2, <2>1, <2>2, <2>3, Concat
  <2>6. o[1].mark \in EntryMarks /\ o[1].mark # "" BY <2>3, <2>5 DEF EntryMarks
  <2>7. \A i \in 1 .. NumRows(d) : o[1 + i] = Line("", RowVals(d, i)) BY <1>2, <1>3, <2>5
  <2>8. \A i \in 2 .. Lead : FALSE BY <2>4
  <2>9. \A i \in 1 .. Lead : o[i].mark # ""
    <3>1. ASSUME NEW i \in 1 .. Lead PROVE i = 1 BY <2>4
    <3> QED BY <2>6, <3>1
  <2> QED BY <1>2, <2>4, <2>5, <2>6, <2>7, <2>8, <2>9 DEF IsText
<1>5. CASE kind = "matrix" /\ fmt = "TXT"
  <2>1. o = <<Line("#", d.ELIS)>> \o rows
    <3>1. DOMAIN d.M = 1 .. NumRows(d) BY <1>5, MatrixType DEF NumRows
    <3>2. rows = [i \in DOMAIN d.M |-> Line("", <<d.ETOA[i]>> \o d.M[i])] BY <1>5, <3>1 DEF RowVals
    <3> QED BY <1>5, <3>2 DEF Output, TxtMatrixLines
  <2>2. PICK head : head = <<Line("#", d.ELIS)>> OBVIOUS
  <2>3. head \in Seq(TextLine) /\ Len(head) = 1 /\ head[1].mark = "#"
    <3>1. d.ELIS \in Seq(Number) BY <1>5, MatrixType DEF Number
    <3> QED BY <2>2, <3>1 DEF Line, TextLine, Marks
  <2>4. Lead = 1 BY <1>5 DEF Lead
  <2> HIDE DEF rows
  <2>5. o \in Seq(TextLine) /\ Len(o) = 1 + Len(rows) /\ o[1] = head[1] /\ \A i \in 1 .. Len(rows) : o[1 + i] = rows[i]
    BY <1>2, <2>1, <2>2, <2>3, Concat
  <2>6. o[1].mark \in EntryMarks /\ o[1].mark # "" BY <2>3, <2>5 DEF EntryMarks
  <2>7. \A i \in 1 .. NumRows(d) : o[1 + i] = Line("", RowVals(d, i)) BY <1>2, <1>3, <2>5
  <2>8. \A i \in 2 .. Lead : FALSE BY <2>4
  <2>9. \A i \in 1 .. Lead : o[i].mark # ""
    <3>1. ASSUME NEW i \in 1 .. Lead PROVE i = 1 BY <2>4
    <3> QED BY <2>6, <3>1
  <2> QED BY <1>2, <2>4, <2>5, <2>6, <2>7, <2>8, <2>9 DEF IsText
<1>6. CASE kind = "matrix" /\ fmt = "CSV"
  <2>1. PICK etoa \in CsvEtoa(d) :
          o = <<Line("ELIS", d.ELIS), Line("ETOA", etoa), Line("Matrix", << >>)>> \o rows
    <3>1. DOMAIN d.M = 1 .. NumRows(d) BY <1>6, MatrixType DEF NumRows
    <3>2. rows = [i \in DOMAIN d.M |-> Line("", d.M[i])] BY <1>6, <3>1 DEF RowVals
    <3> QED BY <1>6, <3>2 DEF Output, CsvMatrixLines
  <2>2. PICK head : head = <<Line("ELIS", d.ELIS), Line("ETOA", etoa), Line("Matrix", << >>)>> OBVIOUS
  <2>3. head \in Seq(TextLine) /\ Len(head) = 3 /\ head[1].mark = "ELIS" /\ head[2].mark = "ETOA" /\ head[3].mark = "Matrix"
    <3>1. d.ELIS \in Seq(Number) BY <1>6, MatrixType DEF Number
    <3>2. etoa \in [1 .. Len(d.ELIS) -> Number] /\ Len(d.ELIS) \in Nat
      BY <1>6, MatrixType DEF CsvEtoa, Number
    <3>3. etoa \in Seq(Number) BY <3>2
    <3>4. Line("ELIS", d.ELIS) \in TextLine /\ Line("ETOA", etoa) \in TextLine /\ Line("Matrix", << >>) \in TextLine
      BY <3>1, <3>3 DEF Line, TextLine, Marks
    <3>5. Line("ELIS", d.ELIS).mark = "ELIS" /\ Line("ETOA", etoa).mark = "ETOA" /\ Line("Matrix", << >>).mark = "Matrix"
      BY DEF Line
    <3> QED BY <2>2, <3>4, <3>5
  <2>4. Lead = 3 BY <1>6 DEF Lead
  <2> HIDE DEF rows
  <2>5. /\ o \in Seq(TextLine) /\ Len(o) = 3 + Len(rows)
        /\ \A i \in 1 .. 3 : o[i] = head[i]
        /\ \A i \in 1 .. Len(rows) : o[3 + i] = rows[i]
    BY <1>2, <2>1, <2>2, <2>3, Concat
  <2>6. o[1] = head[1] /\ o[2] = head[2] /\ o[3] = head[3] BY <2>5
  <2>7. o[1].mark \in EntryMarks BY <2>3, <2>6 DEF EntryMarks
  <2>8. \A i \in 1 .. NumRows(d) : o[3 + i] = Line("", RowVals(d, i)) BY <1>2, <1>3, <2>5
  <2>9. \A i \in 2 .. Lead : o[i].mark \notin EntryMarks
    <3>1. o[2].mark \notin EntryMarks /\ o[3].mark \notin EntryMarks BY <2>3, <2>6 DEF EntryMarks
    <3> QED BY <2>4, <3>1
  <2>10. \A i \in 1 .. Lead : o[i].mark # ""
    <3>1. ASSUME NEW i \in 1 .. Lead PROVE i = 1 \/ i = 2 \/ i = 3 BY <2>4
    <3>2. o[1].mark # "" /\ o[2].mark # "" /\ o[3].mark # "" BY <2>3, <2>6
    <3> QED BY <3>1, <3>2
  <2> QED BY <1>2, <2>4, <2>5, <2>7, <2>8, <2>9, <2>10 DEF IsText
<1> QED BY <1>4, <1>5, <1>6
-----------------------------------------------------------------------------
(* How a line that is written changes the layout *)

(* What CSV writes before the rows of a matrix: its axes, ETOA as it is      *)
(* where it is as long as ELIS.                                              *)
LEMMA EtoaWritten ==
  ASSUME kind = "matrix", NEW d \in Agreeing, Len(d.ETOA) = Len(d.ELIS), NEW etoa \in CsvEtoa(d)
  PROVE  etoa = d.ETOA
<1>1. PICK x, n : x = d.ETOA /\ n = Len(d.ELIS) OBVIOUS
<1>2. x \in Seq(Vals) /\ Len(x) = n /\ n \in Nat /\ DOMAIN d.ELIS = 1 .. n BY <1>1, MatrixType
<1>3. /\ etoa \in [1 .. n -> Vals] /\ etoa[n] = Last(x)
      /\ \A i \in 1 .. n - 1 : i \in DOMAIN x => etoa[i] = x[i]
  BY <1>1, <1>2 DEF CsvEtoa
<1>4. ASSUME NEW i \in 1 .. n PROVE etoa[i] = x[i]
  <2>1. CASE i = n BY <1>2, <1>3, <2>1 DEF Last
  <2>2. CASE i # n
    <3>1. i \in 1 .. n - 1 /\ i \in DOMAIN x BY <1>2, <2>2
    <3> QED BY <1>3, <3>1
  <2> QED BY <2>1, <2>2
<1>5. etoa \in Seq(Vals) /\ Len(etoa) = n BY <1>2, <1>3
<1>6. etoa = x BY <1>2, <1>4, <1>5
<1> QED BY <1>1, <1>6

LEMMA AxesWritten ==
  ASSUME fmt = "CSV", kind = "matrix", NEW d \in Agreeing, NEW o \in Output(d)
  PROVE  /\ Len(o) >= 3 /\ o[1].vals = d.ELIS
         /\ Len(d.ETOA) = Len(d.ELIS) => o[2].vals = d.ETOA
<1>1. PICK etoa \in CsvEtoa(d) : o = CsvMatrixLines(d, etoa) BY DEF Output
<1>2. PICK head, rows : /\ head = <<Line("ELIS", d.ELIS), Line("ETOA", etoa), Line("Matrix", << >>)>>
                        /\ rows = [i \in DOMAIN d.M |-> Line("", d.M[i])] OBVIOUS
<1>3. PICK S : S = {head[1], head[2], head[3]} \cup {rows[i] : i \in DOMAIN d.M} OBVIOUS
<1>4. head \in Seq(S) /\ Len(head) = 3
  <2>1. PICK x, y, z : x = head[1] /\ y = head[2] /\ z = head[3] OBVIOUS
  <2>2. x \in S /\ y \in S /\ z \in S BY <1>3, <2>1
  <2>3. head = <<x, y, z>> BY <1>2, <2>1
  <2>4. <<x, y, z>> \in Seq(S) /\ Len(<<x, y, z>>) = 3 BY <2>2
  <2> QED BY <2>3, <2>4
<1>5. rows \in Seq(S)
  <2>1. PICK n \in Nat : DOMAIN d.M = 1 .. n
    <3>1. d.M \in Seq(Seq(Vals)) BY MatrixType
    <3> QED BY <3>1
  <2>2. \A i \in 1 .. n : rows[i] \in S BY <1>3, <2>1
  <2>3. rows \in [1 .. n -> S] BY <1>2, <2>1, <2>2
  <2> QED BY <2>3
<1>6. o = head \o rows BY <1>1, <1>2 DEF CsvMatrixLines
<1>7. Len(o) = 3 + Len(rows) /\ o[1] = head[1] /\ o[2] = head[2]
  <2>1. Len(head \o rows) = Len(head) + Len(rows) /\ \A i \in 1 .. Len(head) : (head \o rows)[i] = head[i]
    BY <1>4, <1>5, Concat
  <2> QED BY <1>4, <1>6, <2>1
<1>8. Len(rows) \in Nat BY <1>5
<1>9. o[1].vals = d.ELIS /\ o[2].vals = etoa
  <2>1. head[1] = Line("ELIS", d.ELIS) /\ head[2] = Line("ETOA", etoa) BY <1>2
  <2>2. \A m, v : Line(m, v).vals = v BY DEF Line
  <2> QED BY <1>7, <2>1, <2>2
<1> QED BY <1>7, <1>8, <1>9, EtoaWritten

LEMMA AppendFacts ==
  ASSUME NEW F, NEW f \in Seq(F), NEW line \in F
  PROVE  /\ Append(f, line) \in Seq(F) /\ Len(Append(f, line)) = Len(f) + 1 /\ Len(f) \in Nat
         /\ Append(f, line)[Len(f) + 1] = line
         /\ \A i \in 1 .. Len(f) : Append(f, line)[i] = f[i]
  OBVIOUS

(* Where the entries begin and end. *)
LEMMA LayoutFacts ==
  ASSUME NEW F, NEW f \in Seq(F), NEW L, NEW lg \in Seq(L), NEW s, NEW o, NEW Out,
         Layout(f, lg, s, o, Out)
  PROVE  /\ Len(lg) \in Nat /\ Len(f) \in Nat /\ Len(s) = Len(lg)
         /\ \A k \in 1 .. Len(lg) : /\ s[k] \in 1 .. Len(f) /\ End(f, s, k) \in 1 .. Len(f)
                                    /\ s[k] <= End(f, s, k)
         /\ \A k \in 1 .. Len(lg) - 1 : End(f, s, k) + 1 = s[k + 1]
         /\ Len(lg) > 0 => End(f, s, Len(lg)) = Len(f)
         /\ Len(lg) = 0 => Len(f) = 0
<1>1. PICK n : n = Len(lg) OBVIOUS
<1>2. n \in Nat /\ Len(f) \in Nat BY <1>1
<1>3. s \in [1 .. n -> 1 .. Len(f)] /\ \A j, k \in 1 .. n : j < k => s[j] < s[k] BY <1>1 DEF Layout
<1>4. Len(s) = n BY <1>2, <1>3
<1>5. ASSUME NEW k \in 1 .. n
      PROVE  /\ s[k] \in 1 .. Len(f) /\ End(f, s, k) \in 1 .. Len(f) /\ s[k] <= End(f, s, k)
             /\ k # n => End(f, s, k) + 1 = s[k + 1]
  <2>1. s[k] \in 1 .. Len(f) BY <1>3
  <2>2. CASE k = n BY <1>2, <1>4, <2>1, <2>2 DEF End
  <2>3. CASE k # n
    <3>1. k + 1 \in 1 .. n /\ k < k + 1 BY <1>2, <2>3
    <3>2. s[k + 1] \in 1 .. Len(f) /\ s[k] < s[k + 1] BY <1>3, <3>1
    <3>3. End(f, s, k) = s[k + 1] - 1 BY <1>4, <2>3 DEF End
    <3> QED BY <1>2, <2>1, <3>2, <3>3
  <2> QED BY <2>1, <2>2, <2>3
<1>6. \A k \in 1 .. n - 1 : End(f, s, k) + 1 = s[k + 1]
  <2>1. ASSUME NEW k \in 1 .. n - 1 PROVE k \in 1 .. n /\ k # n BY <1>2
  <2> QED BY <1>5, <2>1
<1>7. n > 0 => End(f, s, n) = Len(f) BY <1>4 DEF End
<1>8. n = 0 => Len(f) = 0
  <2>1. ASSUME n = 0, Len(f) # 0 PROVE FALSE
    <3>1. Len(f) \in 1 .. Len(f) BY <1>2, <2>1
    <3>2. \E k \in 1 .. n : TRUE BY <1>1, <3>1 DEF Layout
    <3> QED BY <2>1, <3>2
  <2> QED BY <2>1
<1> QED BY <1>1, <1>2, <1>4, <1>5, <1>6, <1>7, <1>8

(* The last line of the file is the first of the last entry, meant to be     *)
(* whole.                                                                    *)
Begun(f, lg, whole, Out) ==
  \E s, o : Layout(f, lg, s, o, Out) /\ s[Len(lg)] = Len(f) /\ o[Len(lg)] = whole

LEMMA AppendHead ==
  ASSUME NEW F, NEW f \in Seq(F), NEW L, NEW lg \in Seq(L), NEW s, NEW o, NEW Out,
         Layout(f, lg, s, o, Out),
         NEW line \in F, NEW r \in L, NEW whole, whole \in Out[r.data],
         Len(whole) \in Nat, Len(whole) > 0, line = whole[1], r.done => Len(whole) = 1
  PROVE  Begun(Append(f, line), Append(lg, r), whole, Out)
<1>1. PICK n, m : n = Len(lg) /\ m = Len(f) OBVIOUS
<1>2. PICK f2, lg2 : f2 = Append(f, line) /\ lg2 = Append(lg, r) OBVIOUS
<1>3. /\ n \in Nat /\ m \in Nat /\ Len(s) = n
      /\ \A k \in 1 .. n : s[k] \in 1 .. m /\ End(f, s, k) \in 1 .. m /\ s[k] <= End(f, s, k)
      /\ \A k \in 1 .. n - 1 : End(f, s, k) + 1 = s[k + 1]
      /\ n > 0 => End(f, s, n) = m
      /\ n = 0 => m = 0
  BY <1>1, LayoutFacts
<1>4. Len(f2) = m + 1 /\ f2[m + 1] = line /\ \A i \in 1 .. m : f2[i] = f[i]
  BY <1>1, <1>2, AppendFacts
<1>5. Len(lg2) = n + 1 /\ lg2[n + 1] = r /\ \A i \in 1 .. n : lg2[i] = lg[i]
  BY <1>1, <1>2, AppendFacts
<1>6. PICK s2 : s2 = [k \in 1 .. n + 1 |-> IF k = n + 1 THEN m + 1 ELSE s[k]] OBVIOUS
<1>7. PICK o2 : o2 = [k \in 1 .. n + 1 |-> IF k = n + 1 THEN whole ELSE o[k]] OBVIOUS
<1>8. /\ s2[n + 1] = m + 1 /\ \A k \in 1 .. n : s2[k] = s[k]
      /\ o2[n + 1] = whole /\ \A k \in 1 .. n : o2[k] = o[k]
  <2>1. n + 1 \in 1 .. n + 1 BY <1>3
  <2>2. ASSUME NEW k \in 1 .. n PROVE k \in 1 .. n + 1 /\ k # n + 1 BY <1>3
  <2> QED BY <1>6, <1>7, <2>1, <2>2
<1>9. s2 \in [1 .. n + 1 -> 1 .. m + 1]
  <2>1. ASSUME NEW k \in 1 .. n + 1 PROVE (IF k = n + 1 THEN m + 1 ELSE s[k]) \in 1 .. m + 1
    <3>1. CASE k = n + 1 BY <1>3, <3>1
    <3>2. CASE k # n + 1
      <4>1. k \in 1 .. n BY <1>3, <3>2
      <4>2. s[k] \in 1 .. m BY <1>3, <4>1
      <4> QED BY <1>3, <3>2, <4>2
    <3> QED BY <3>1, <3>2
  <2> QED BY <1>6, <2>1
<1>10. Len(s2) = n + 1 BY <1>3, <1>9
<1>11. End(f2, s2, n + 1) = m + 1 BY <1>4, <1>10 DEF End
<1>12. ASSUME NEW k \in 1 .. n PROVE End(f2, s2, k) = End(f, s, k)
  <2>0. k # n + 1 BY <1>3
  <2>1. End(f2, s2, k) = s2[k + 1] - 1 BY <1>10, <2>0 DEF End
  <2>2. CASE k = n
    <3>1. End(f, s, k) = m BY <1>3, <2>2
    <3>2. s2[k + 1] = m + 1 BY <1>8, <2>2
    <3> QED BY <1>3, <2>1, <3>1, <3>2
  <2>3. CASE k # n
    <3>1. k + 1 \in 1 .. n BY <1>3, <2>3
    <3>2. s2[k + 1] = s[k + 1] BY <1>8, <3>1
    <3>3. End(f, s, k) = s[k + 1] - 1 BY <1>3, <2>3 DEF End
    <3> QED BY <2>1, <3>2, <3>3
  <2> QED BY <2>2, <2>3
<1>13. \A j, k \in 1 .. n + 1 : j < k => s2[j] < s2[k]
  <2>1. ASSUME NEW j \in 1 .. n + 1, NEW k \in 1 .. n + 1, j < k PROVE s2[j] < s2[k]
    <3>1. j \in 1 .. n BY <1>3, <2>1
    <3>2. CASE k = n + 1
      <4>1. s2[j] \in 1 .. m BY <1>3, <1>8, <3>1
      <4> QED BY <1>3, <1>8, <3>2, <4>1
    <3>3. CASE k # n + 1
      <4>1. k \in 1 .. n BY <1>3, <3>3
      <4>2. s[j] < s[k] BY <1>1, <2>1, <3>1, <4>1 DEF Layout
      <4> QED BY <1>8, <3>1, <4>1, <4>2
    <3> QED BY <3>2, <3>3
  <2> QED BY <2>1
<1>14. \A p \in 1 .. m + 1 : \E k \in 1 .. n + 1 : s2[k] <= p /\ p <= End(f2, s2, k)
  <2>1. ASSUME NEW p \in 1 .. m + 1 PROVE \E k \in 1 .. n + 1 : s2[k] <= p /\ p <= End(f2, s2, k)
    <3>1. CASE p = m + 1
      <4>1. n + 1 \in 1 .. n + 1 /\ p <= m + 1 /\ m + 1 <= p BY <1>3, <3>1
      <4> QED BY <1>8, <1>11, <4>1
    <3>2. CASE p # m + 1
      <4>1. p \in 1 .. m BY <1>3, <3>2
      <4>2. PICK k \in 1 .. n : s[k] <= p /\ p <= End(f, s, k) BY <1>1, <4>1 DEF Layout
      <4>3. k \in 1 .. n + 1 BY <1>3
      <4> QED BY <1>8, <1>12, <4>2, <4>3
    <3> QED BY <3>1, <3>2
  <2> QED BY <2>1
<1>15. ASSUME NEW k \in 1 .. n + 1
       PROVE  /\ o2[k] \in Out[lg2[k].data]
              /\ End(f2, s2, k) - s2[k] + 1 \in 1 .. Len(o2[k])
              /\ \A i \in 1 .. End(f2, s2, k) - s2[k] + 1 : f2[s2[k] + i - 1] = o2[k][i]
              /\ lg2[k].done => End(f2, s2, k) - s2[k] + 1 = Len(o2[k])
  <2>1. CASE k = n + 1
    <3>1. End(f2, s2, k) - s2[k] + 1 = 1 BY <1>3, <1>8, <1>11, <2>1
    <3>2. \A i \in 1 .. 1 : f2[m + 1 + i - 1] = whole[i]
      <4>1. \A i \in 1 .. 1 : i = 1 OBVIOUS
      <4>2. m + 1 + 1 - 1 = m + 1 BY <1>3
      <4> QED BY <1>4, <4>1, <4>2
    <3>3. o2[k] = whole /\ lg2[k] = r /\ s2[k] = m + 1 BY <1>5, <1>8, <2>1
    <3>4. 1 \in 1 .. Len(whole) OBVIOUS
    <3>5. \A i \in 1 .. 1 : f2[s2[k] + i - 1] = o2[k][i] BY <3>2, <3>3
    <3> QED BY <3>1, <3>3, <3>4, <3>5
  <2>2. CASE k # n + 1
    <3>1. k \in 1 .. n BY <1>3, <2>2
    <3>2. lg2[k] = lg[k] /\ o2[k] = o[k] /\ s2[k] = s[k] /\ End(f2, s2, k) = End(f, s, k)
      BY <1>5, <1>8, <1>12, <3>1
    <3>3. PICK e : e = End(f, s, k) OBVIOUS
    <3>4. e \in 1 .. m /\ s[k] \in 1 .. m BY <1>3, <3>1, <3>3
    <3>5. /\ o[k] \in Out[lg[k].data]
          /\ e - s[k] + 1 \in 1 .. Len(o[k])
          /\ \A i \in 1 .. e - s[k] + 1 : f[s[k] + i - 1] = o[k][i]
          /\ lg[k].done => e - s[k] + 1 = Len(o[k])
      BY <1>1, <3>1, <3>3 DEF Layout
    <3>6. ASSUME NEW i \in 1 .. e - s[k] + 1 PROVE f2[s[k] + i - 1] = f[s[k] + i - 1]
      <4>1. PICK a : a = s[k] OBVIOUS
      <4>2. a \in 1 .. m /\ i \in 1 .. e - a + 1 BY <3>4, <4>1
      <4>3. a + i - 1 \in 1 .. m BY <1>3, <3>4, <4>2
      <4> QED BY <1>4, <4>1, <4>3
    <3> QED BY <3>2, <3>3, <3>5, <3>6
  <2> QED BY <2>1, <2>2
<1>16. DOMAIN o2 = 1 .. n + 1 BY <1>7
<1>17. Layout(f2, lg2, s2, o2, Out)
  BY <1>4, <1>5, <1>9, <1>13, <1>14, <1>15, <1>16 DEF Layout
<1>18. s2[Len(lg2)] = Len(f2) /\ o2[Len(lg2)] = whole BY <1>4, <1>5, <1>8
<1> QED BY <1>2, <1>17, <1>18 DEF Begun

(* The next line of the last entry. *)
LEMMA AppendRow ==
  ASSUME NEW F, NEW f \in Seq(F), NEW L, NEW lg \in Seq(L), NEW s, NEW o, NEW Out,
         Layout(f, lg, s, o, Out),
         NEW line \in F, NEW r, Len(lg) > 0, r.data = lg[Len(lg)].data,
         NEW a, a = Len(f) - s[Len(lg)] + 1, Len(o[Len(lg)]) \in Nat,
         a < Len(o[Len(lg)]), line = o[Len(lg)][a + 1], r.done => a + 1 = Len(o[Len(lg)])
  PROVE  Layout(Append(f, line), [lg EXCEPT ![Len(lg)] = r], s, o, Out)
<1>1. PICK n, m : n = Len(lg) /\ m = Len(f) OBVIOUS
<1>2. PICK f2, lg2 : f2 = Append(f, line) /\ lg2 = [lg EXCEPT ![n] = r] OBVIOUS
<1>3. /\ n \in Nat /\ m \in Nat /\ Len(s) = n
      /\ \A k \in 1 .. n : s[k] \in 1 .. m /\ End(f, s, k) \in 1 .. m /\ s[k] <= End(f, s, k)
      /\ \A k \in 1 .. n - 1 : End(f, s, k) + 1 = s[k + 1]
      /\ n > 0 => End(f, s, n) = m
  BY <1>1, LayoutFacts
<1>4. Len(f2) = m + 1 /\ f2[m + 1] = line /\ \A i \in 1 .. m : f2[i] = f[i]
  BY <1>1, <1>2, AppendFacts
<1>5. Len(lg2) = n /\ lg2[n] = r /\ \A i \in 1 .. n : i # n => lg2[i] = lg[i]
  BY <1>1, <1>2
<1>6. n \in 1 .. n BY <1>1, <1>3
<1>7. s \in [1 .. n -> 1 .. m + 1]
  <2>1. s \in [1 .. n -> 1 .. m] BY <1>1 DEF Layout
  <2>2. 1 .. m \subseteq 1 .. m + 1 BY <1>3
  <2> QED BY <2>1, <2>2
<1>8. End(f2, s, n) = m + 1 BY <1>3, <1>4 DEF End
<1>9. ASSUME NEW k \in 1 .. n, k # n PROVE End(f2, s, k) = End(f, s, k)
  BY <1>3, <1>9 DEF End
<1>10. ASSUME NEW p \in 1 .. m + 1
       PROVE  \E k \in 1 .. n : s[k] <= p /\ p <= End(f2, s, k)
  <2>1. CASE p = m + 1
    <3>1. s[n] <= p
      <4>1. s[n] \in 1 .. m BY <1>3, <1>6
      <4> QED BY <1>3, <2>1, <4>1
    <3>2. p <= End(f2, s, n) BY <1>3, <1>8, <2>1
    <3> QED BY <1>6, <3>1, <3>2
  <2>2. CASE p # m + 1
    <3>1. p \in 1 .. m BY <1>3, <2>2
    <3>2. PICK k \in 1 .. n : s[k] <= p /\ p <= End(f, s, k) BY <1>1, <3>1 DEF Layout
    <3>3. p <= End(f2, s, k)
      <4>1. CASE k = n BY <1>3, <1>8, <3>1, <4>1
      <4>2. CASE k # n BY <1>9, <3>2, <4>2
      <4> QED BY <4>1, <4>2
    <3> QED BY <3>2, <3>3
  <2> QED BY <2>1, <2>2
<1>11. ASSUME NEW k \in 1 .. n
       PROVE  /\ o[k] \in Out[lg2[k].data]
              /\ End(f2, s, k) - s[k] + 1 \in 1 .. Len(o[k])
              /\ \A i \in 1 .. End(f2, s, k) - s[k] + 1 : f2[s[k] + i - 1] = o[k][i]
              /\ lg2[k].done => End(f2, s, k) - s[k] + 1 = Len(o[k])
  <2>1. PICK e, b : e = End(f, s, k) /\ b = s[k] OBVIOUS
  <2>2. e \in 1 .. m /\ b \in 1 .. m /\ b <= e BY <1>3, <2>1
  <2>3. /\ o[k] \in Out[lg[k].data]
        /\ e - b + 1 \in 1 .. Len(o[k])
        /\ \A i \in 1 .. e - b + 1 : f[b + i - 1] = o[k][i]
        /\ lg[k].done => e - b + 1 = Len(o[k])
    BY <1>1, <2>1 DEF Layout
  <2>4. ASSUME NEW i \in 1 .. e - b + 1 PROVE f2[b + i - 1] = o[k][i]
    <3>1. b + i - 1 \in 1 .. m BY <1>3, <2>2
    <3> QED BY <1>4, <2>3, <3>1
  <2>5. CASE k # n
    <3>1. End(f2, s, k) = e /\ lg2[k] = lg[k] BY <1>5, <1>9, <2>1, <2>5
    <3> QED BY <2>1, <2>3, <2>4, <3>1
  <2>6. CASE k = n
    <3>1. e = m /\ a = m - b + 1 /\ a \in Nat /\ lg2[k] = r /\ End(f2, s, k) = m + 1
      BY <1>1, <1>3, <1>5, <1>8, <2>1, <2>2, <2>6
    <3>2. End(f2, s, k) - s[k] + 1 = a + 1 /\ e - b + 1 = a
      <4>1. (m + 1) - b + 1 = (m - b + 1) + 1 BY <1>3, <2>2
      <4> QED BY <2>1, <3>1, <4>1
    <3>3. o[k] \in Out[lg2[k].data] BY <1>1, <2>3, <2>6, <3>1
    <3>4. a + 1 \in 1 .. Len(o[k]) BY <1>1, <2>6, <3>1
    <3>5. ASSUME NEW i \in 1 .. a + 1 PROVE f2[s[k] + i - 1] = o[k][i]
      <4>1. CASE i = a + 1
        <5>1. b + i - 1 = m + 1 BY <1>3, <2>2, <3>1, <4>1
        <5> QED BY <1>1, <1>4, <2>1, <2>6, <4>1, <5>1
      <4>2. CASE i # a + 1
        <5>1. i \in 1 .. e - b + 1 BY <3>1, <3>2, <4>2
        <5> QED BY <2>1, <2>4, <5>1
      <4> QED BY <4>1, <4>2
    <3>6. r.done => a + 1 = Len(o[k]) BY <1>1, <2>6
    <3> QED BY <3>1, <3>2, <3>3, <3>4, <3>5, <3>6
  <2> QED BY <2>5, <2>6
<1>12. \A j, k \in 1 .. n : j < k => s[j] < s[k] BY <1>1 DEF Layout
<1>13. DOMAIN o = 1 .. n BY <1>1 DEF Layout
<1>14. Layout(f2, lg2, s, o, Out)
  BY <1>4, <1>5, <1>7, <1>10, <1>11, <1>12, <1>13 DEF Layout
<1> QED BY <1>1, <1>2, <1>14
-----------------------------------------------------------------------------
(* The headers of a text file *)

(* Every entry begins with the only line that begins an entry. *)
Headed(lg, o) ==
  \A k \in 1 .. Len(lg) : /\ Len(o[k]) \in Nat /\ o[k][1].mark \in EntryMarks
                          /\ \A i \in 2 .. Len(o[k]) : o[k][i].mark \notin EntryMarks

HeadsOf(f) == {i \in 1 .. Len(f) : f[i].mark \in EntryMarks}

(* Header number k is the one entry k begins with. *)
LEMMA HeadsCount ==
  ASSUME NEW F, NEW f \in Seq(F), NEW L, NEW lg \in Seq(L), NEW s, NEW o, NEW Out,
         Layout(f, lg, s, o, Out), Headed(lg, o)
  PROVE  /\ Cardinality(HeadsOf(f)) = Len(lg)
         /\ \A k \in 1 .. Len(lg) :
              /\ s[k] \in HeadsOf(f)
              /\ \A i \in HeadsOf(f) : Cardinality({j \in HeadsOf(f) : j <= i}) = k <=> i = s[k]
<1>1. PICK n, m : n = Len(lg) /\ m = Len(f) OBVIOUS
<1>2. PICK H : H = HeadsOf(f) OBVIOUS
<1>3. /\ n \in Nat /\ m \in Nat
      /\ \A k \in 1 .. n : s[k] \in 1 .. m /\ End(f, s, k) \in 1 .. m /\ s[k] <= End(f, s, k)
  BY <1>1, LayoutFacts
<1>4. /\ s \in [1 .. n -> 1 .. m]
      /\ \A j, k \in 1 .. n : j < k => s[j] < s[k]
      /\ \A p \in 1 .. m : \E k \in 1 .. n : s[k] <= p /\ p <= End(f, s, k)
      /\ \A k \in 1 .. n : /\ End(f, s, k) - s[k] + 1 \in 1 .. Len(o[k])
                           /\ \A i \in 1 .. End(f, s, k) - s[k] + 1 : f[s[k] + i - 1] = o[k][i]
  BY <1>1 DEF Layout
<1>5. ASSUME NEW k \in 1 .. n PROVE s[k] \in H
  <2>1. PICK a, e : a = s[k] /\ e = End(f, s, k) OBVIOUS
  <2>2. a \in 1 .. m /\ e \in 1 .. m /\ a <= e BY <1>3, <2>1
  <2>3. 1 \in 1 .. e - a + 1 /\ a + 1 - 1 = a BY <2>2
  <2>4. \A i \in 1 .. e - a + 1 : f[a + i - 1] = o[k][i] BY <1>4, <2>1
  <2>5. f[a] = o[k][1] BY <2>3, <2>4
  <2>6. f[a].mark \in EntryMarks BY <1>1, <2>5 DEF Headed
  <2> QED BY <1>1, <1>2, <2>1, <2>2, <2>6 DEF HeadsOf
<1>6. ASSUME NEW p \in H PROVE \E k \in 1 .. n : p = s[k]
  <2>0. p \in 1 .. m /\ f[p].mark \in EntryMarks BY <1>1, <1>2 DEF HeadsOf
  <2>1. PICK k \in 1 .. n : s[k] <= p /\ p <= End(f, s, k) BY <1>4, <2>0
  <2>2. PICK a, e : a = s[k] /\ e = End(f, s, k) OBVIOUS
  <2>3. a \in 1 .. m /\ e \in 1 .. m /\ a <= p /\ p <= e BY <1>3, <2>1, <2>2
  <2>4. PICK i \in 1 .. e - a + 1 : p = a + i - 1
    <3>1. p - a + 1 \in 1 .. e - a + 1 /\ p = a + (p - a + 1) - 1 BY <2>0, <2>3
    <3> QED BY <3>1
  <2>5. \A l \in 1 .. e - a + 1 : f[a + l - 1] = o[k][l] BY <1>4, <2>2
  <2>6. f[p] = o[k][i] BY <2>4, <2>5
  <2>7. i \in 1 .. Len(o[k])
    <3>1. PICK w \in Nat : w = Len(o[k]) BY <1>1 DEF Headed
    <3>2. e - a + 1 \in 1 .. w BY <1>4, <2>2, <3>1
    <3>3. i \in 1 .. w
      <4>1. PICK q : q = e - a + 1 OBVIOUS
      <4>2. q \in 1 .. w /\ i \in 1 .. q BY <3>2, <4>1
      <4> QED BY <4>2
    <3> QED BY <3>1, <3>3
  <2>8. i \notin 2 .. Len(o[k]) BY <1>1, <2>0, <2>6 DEF Headed
  <2>9. i = 1
    <3>1. ASSUME i # 1 PROVE i \in 2 .. Len(o[k]) BY <2>7, <3>1
    <3> QED BY <2>8, <3>1
  <2> QED BY <2>2, <2>3, <2>4, <2>9
<1> DEFINE S(l) == {s[j] : j \in 1 .. l}
<1>7. ASSUME NEW l \in 0 .. n PROVE Cardinality(S(l)) = l
  <2>1. PICK b : b = [j \in 1 .. l |-> s[j]] OBVIOUS
  <2>2. b \in [1 .. l -> S(l)] BY <2>1
  <2>3. \A j, k \in 1 .. l : b[j] = b[k] => j = k
    <3>1. ASSUME NEW j \in 1 .. l, NEW k \in 1 .. l, j < k PROVE b[j] # b[k]
      <4>1. j \in 1 .. n /\ k \in 1 .. n BY <1>3
      <4>2. s[j] < s[k] /\ s[j] \in Int /\ s[k] \in Int BY <1>3, <1>4, <3>1, <4>1
      <4> QED BY <2>1, <4>2
    <3>2. ASSUME NEW j \in 1 .. l, NEW k \in 1 .. l PROVE j = k \/ j < k \/ k < j
      BY <1>3
    <3> QED BY <3>1, <3>2
  <2>4. \A t \in S(l) : \E j \in 1 .. l : b[j] = t BY <2>1
  <2>5. b \in Bijection(1 .. l, S(l))
    BY <2>2, <2>3, <2>4 DEF Bijection, Injection, Surjection, IsInjective
  <2>6. ExistsBijection(1 .. l, S(l)) BY <2>5 DEF ExistsBijection
  <2>7. l \in Int /\ l >= 0 BY <1>3
  <2>8. IsFiniteSet(1 .. l) /\ Cardinality(1 .. l) = l BY <2>7, FS_Interval
  <2> HIDE DEF S
  <2> QED BY <2>6, <2>8, FS_Bijection
<1>8. H = S(n) BY <1>5, <1>6
<1>9. ASSUME NEW l \in 1 .. n PROVE {j \in H : j <= s[l]} = S(l)
  <2>1. ASSUME NEW j \in 1 .. n PROVE s[j] <= s[l] <=> j \in 1 .. l
    <3>1. s[j] \in Int /\ s[l] \in Int BY <1>3
    <3>2. j <= l => s[j] <= s[l]
      <4>1. CASE j = l BY <3>1, <4>1
      <4>2. CASE j < l BY <1>4, <3>1, <4>2
      <4> QED BY <1>3, <4>1, <4>2
    <3>3. l < j => s[l] < s[j] BY <1>4
    <3> QED BY <1>3, <3>1, <3>2, <3>3
  <2>2. \A j \in 1 .. l : j \in 1 .. n BY <1>3
  <2> QED BY <1>8, <2>1, <2>2
<1>10. ASSUME NEW k \in 1 .. n, NEW i \in H
       PROVE  Cardinality({j \in H : j <= i}) = k <=> i = s[k]
  <2>1. PICK l \in 1 .. n : i = s[l] BY <1>6
  <2>2. Cardinality({j \in H : j <= i}) = l
    <3>1. l \in 0 .. n BY <1>3
    <3>2. {j \in H : j <= i} = S(l) BY <1>9, <2>1
    <3> QED BY <1>7, <3>1, <3>2
  <2>3. s[l] = s[k] => l = k
    <3>1. s[l] \in Int /\ s[k] \in Int BY <1>3
    <3>2. l < k => s[l] < s[k] BY <1>4
    <3>3. k < l => s[k] < s[l] BY <1>4
    <3> QED BY <1>3, <3>1, <3>2, <3>3
  <2> QED BY <2>1, <2>2, <2>3
<1>11. Cardinality(H) = n
  <2>1. n \in 0 .. n BY <1>3
  <2> QED BY <1>7, <1>8, <2>1
<1> QED BY <1>1, <1>2, <1>5, <1>10, <1>11
-----------------------------------------------------------------------------
(* The rows of an entry *)

LEMMA SubSeqFacts ==
  ASSUME NEW F, NEW f \in Seq(F), NEW a \in Nat \ {0}
  PROVE  /\ SubSeq(f, a, Len(f)) \in Seq(F)
         /\ Len(SubSeq(f, a, Len(f))) = IF a <= Len(f) THEN Len(f) - a + 1 ELSE 0
         /\ \A i \in 1 .. Len(f) - a + 1 : SubSeq(f, a, Len(f))[i] = f[a + i - 1]
<1>1. CASE a <= Len(f)
  BY <1>1
<1>2. CASE a > Len(f)
  BY <1>2
<1> QED BY <1>1, <1>2

LEMMA Prefix ==
  ASSUME NEW F, NEW l \in Seq(F), NEW c \in 0 .. Len(l)
  PROVE  /\ SubSeq(l, 1, c) \in Seq(F) /\ Len(SubSeq(l, 1, c)) = c
         /\ \A i \in 1 .. c : SubSeq(l, 1, c)[i] = l[i]
  OBVIOUS

LEMMA AfterFacts ==
  ASSUME NEW F, NEW f \in Seq(F), NEW a \in 1 .. Len(f)
  PROVE  Len(SubSeq(f, a + 1, Len(f))) = Len(f) - a
<1>1. a + 1 \in Nat \ {0} /\ Len(f) \in Nat OBVIOUS
<1>2. Len(SubSeq(f, a + 1, Len(f))) = IF a + 1 <= Len(f) THEN Len(f) - (a + 1) + 1 ELSE 0
  BY <1>1, SubSeqFacts
<1>3. PICK m, q : m = Len(f) /\ q = Len(SubSeq(f, a + 1, Len(f))) OBVIOUS
<1>4. m \in Nat /\ a \in 1 .. m /\ q = IF a + 1 <= m THEN m - (a + 1) + 1 ELSE 0 BY <1>1, <1>2, <1>3
<1>5. q = m - a BY <1>4
<1> QED BY <1>3, <1>5

(* The first c lines are rows, and the one after them, if any, is not. *)
RowsUpTo(l, c) ==
  /\ \A i \in 1 .. c : l[i].mark = ""
  /\ c < Len(l) => l[c + 1].mark # ""

LEMMA RowsOfLines ==
  ASSUME NEW F, NEW l \in Seq(F), NEW c \in 0 .. Len(l), RowsUpTo(l, c)
  PROVE  /\ Rows(l) \in Seq(F) /\ Len(Rows(l)) = c
         /\ \A i \in 1 .. c : Rows(l)[i] = l[i]
<1>0. PICK n \in Nat : n = Len(l) OBVIOUS
<1>4. c \in Nat /\ c <= n
  <2>1. c \in 0 .. n BY <1>0
  <2> QED BY <1>0, <2>1
<1> DEFINE I == {i \in 1 .. Len(l) : l[i].mark # ""}
           at == IF I # {} THEN Min(I) ELSE 0
<1>1. Rows(l) = IF at = 0 THEN l ELSE SubSeq(l, 1, at - 1)
  BY DEF Rows, SelectInSeq
<1>2. CASE c = n
  <2>1. I = {} BY <1>0, <1>2 DEF RowsUpTo
  <2>2. Rows(l) = l BY <1>1, <2>1
  <2> QED BY <1>0, <1>2, <2>2
<1>3. CASE c # n
  <2>0. c < n /\ c + 1 \in 1 .. n BY <1>3, <1>4
  <2>1. l[c + 1].mark # "" BY <1>0, <2>0 DEF RowsUpTo
  <2>2. c + 1 \in I BY <1>0, <2>0, <2>1
  <2>3. ASSUME NEW i \in I PROVE i \in Int /\ c + 1 <= i
    <3>1. i \in 1 .. n /\ l[i].mark # "" BY <1>0
    <3>2. ~(i \in 1 .. c) BY <3>1 DEF RowsUpTo
    <3>3. i \in 1 .. n BY <3>1
    <3> HIDE DEF I
    <3> QED BY <1>4, <3>2, <3>3
  <2>4. Min(I) = c + 1
    <3> HIDE DEF I
    <3>1. Min(I) \in I /\ \A i \in I : Min(I) <= i BY <1>4, <2>2, <2>3 DEF Min
    <3> QED BY <1>4, <2>2, <2>3, <3>1
  <2>5. at = c + 1 /\ at # 0 /\ at - 1 = c
    <3> HIDE DEF I
    <3> QED BY <1>4, <2>2, <2>4
  <2>6. Rows(l) = SubSeq(l, 1, c)
    <3> HIDE DEF at
    <3> QED BY <1>1, <2>5
  <2> QED BY <2>6, Prefix
<1> QED BY <1>2, <1>3

(* The first hd lines of an entry are not rows, the others are. *)
Ruled(lg, o, hd) ==
  \A k \in 1 .. Len(lg) : /\ Len(o[k]) \in Nat
                          /\ \A i \in 1 .. Len(o[k]) : o[k][i].mark = "" <=> i > hd

LEMMA LineAt ==
  ASSUME NEW F, NEW f \in Seq(F), NEW L, NEW lg \in Seq(L), NEW s, NEW o, NEW Out,
         Layout(f, lg, s, o, Out), NEW k \in 1 .. Len(lg), Len(o[k]) \in Nat,
         NEW p \in Int, s[k] <= p, p <= End(f, s, k)
  PROVE  f[p] = o[k][p - s[k] + 1] /\ p - s[k] + 1 \in 1 .. Len(o[k])
<1>1. PICK a, e : a = s[k] /\ e = End(f, s, k) OBVIOUS
<1>2. a \in Nat /\ e \in Nat BY <1>1, LayoutFacts
<1>3. \A i \in 1 .. e - a + 1 : f[a + i - 1] = o[k][i] BY <1>1 DEF Layout
<1>9. a <= p /\ p <= e BY <1>1
<1>4. p - a + 1 \in 1 .. e - a + 1 /\ a + (p - a + 1) - 1 = p BY <1>2, <1>9
<1>5. e - a + 1 \in 1 .. Len(o[k]) BY <1>1 DEF Layout
<1>6. PICK q, w : q = e - a + 1 /\ w = Len(o[k]) OBVIOUS
<1>7. p - a + 1 \in 1 .. w
  <2>1. w \in Nat /\ q \in 1 .. w /\ p - a + 1 \in 1 .. q BY <1>4, <1>5, <1>6
  <2> QED BY <2>1
<1>8. f[a + (p - a + 1) - 1] = o[k][p - a + 1] BY <1>3, <1>4
<1> QED BY <1>1, <1>4, <1>6, <1>7, <1>8

(* R has the lines of entry k after its first hd lines, which the file has   *)
(* after them too.                                                           *)
FoundRows(F, f, s, o, k, hd, len, R) ==
  /\ len \in 1 .. Len(o[k])
  /\ R \in Seq(F) /\ Len(R) = IF len >= hd THEN len - hd ELSE 0
  /\ \A i \in 1 .. Len(R) : /\ R[i] = o[k][hd + i] /\ hd + i \in 1 .. Len(o[k])
                            /\ R[i] = SubSeq(f, s[k] + hd, Len(f))[i]

LEMMA EntryRows ==
  ASSUME NEW F, NEW f \in Seq(F), NEW L, NEW lg \in Seq(L), NEW s, NEW o, NEW Out,
         Layout(f, lg, s, o, Out), NEW hd \in Nat, hd > 0, Ruled(lg, o, hd),
         NEW k \in 1 .. Len(lg), NEW len, len = End(f, s, k) - s[k] + 1,
         NEW R, R = Rows(SubSeq(f, s[k] + hd, Len(f)))
  PROVE  FoundRows(F, f, s, o, k, hd, len, R)
<1>1. PICK n, m, a, e : n = Len(lg) /\ m = Len(f) /\ a = s[k] /\ e = End(f, s, k) OBVIOUS
<1>2. /\ n \in Nat /\ m \in Nat /\ a \in 1 .. m /\ e \in 1 .. m /\ a <= e
      /\ \A j \in 1 .. n : s[j] \in 1 .. m /\ End(f, s, j) \in 1 .. m /\ s[j] <= End(f, s, j)
      /\ \A j \in 1 .. n - 1 : End(f, s, j) + 1 = s[j + 1]
      /\ n > 0 => End(f, s, n) = m
  BY <1>1, LayoutFacts
<1>3. len = e - a + 1 /\ len \in Nat /\ len > 0 /\ k \in 1 .. n BY <1>1, <1>2
<1>4. PICK c : c = IF len >= hd THEN len - hd ELSE 0 OBVIOUS
<1>5. PICK l : l = SubSeq(f, a + hd, m) OBVIOUS
<1>6. /\ l \in Seq(F) /\ Len(l) = (IF a + hd <= m THEN m - (a + hd) + 1 ELSE 0)
      /\ \A i \in 1 .. m - (a + hd) + 1 : l[i] = f[(a + hd) + i - 1]
  <2>1. a + hd \in Nat \ {0} BY <1>2
  <2> QED BY <1>1, <1>5, <2>1, SubSeqFacts
<1>7. c \in 0 .. Len(l)
  <2>1. CASE len >= hd
    <3>1. c = e - a + 1 - hd /\ a + hd <= e + 1 /\ e <= m BY <1>2, <1>3, <1>4, <2>1
    <3>2. CASE a + hd <= m BY <1>2, <1>6, <3>1, <3>2
    <3>3. CASE ~(a + hd <= m) BY <1>2, <1>6, <3>1, <3>3
    <3> QED BY <3>2, <3>3
  <2>2. CASE ~(len >= hd)
    <3>1. c = 0 BY <1>4, <2>2
    <3>2. Len(l) \in Nat BY <1>6
    <3> QED BY <3>1, <3>2
  <2> QED BY <2>1, <2>2
<1>8. Len(o[k]) \in Nat BY <1>1, <1>3 DEF Ruled
<1>9. ASSUME NEW i \in 1 .. c
      PROVE  l[i] = o[k][hd + i] /\ hd + i \in 1 .. Len(o[k]) /\ l[i].mark = ""
  <2>1. len >= hd /\ c = len - hd BY <1>4
  <2>2. PICK p : p = a + hd + i - 1 OBVIOUS
  <2>3. p \in Int /\ a <= p /\ p <= e /\ p - a + 1 = hd + i BY <1>2, <1>3, <2>1, <2>2
  <2>4. f[p] = o[k][hd + i] /\ hd + i \in 1 .. Len(o[k]) BY <1>1, <1>8, <2>3, LineAt
  <2>5. i \in 1 .. m - (a + hd) + 1 /\ p = (a + hd) + i - 1 BY <1>2, <1>3, <2>1, <2>2
  <2>6. l[i] = f[p] BY <1>6, <2>5
  <2>7. hd + i > hd BY <1>2
  <2>8. o[k][hd + i].mark = "" BY <1>1, <1>3, <2>4, <2>7 DEF Ruled
  <2> QED BY <2>4, <2>6, <2>8
<1>10. ASSUME c < Len(l) PROVE l[c + 1].mark # ""
  <2>1. PICK p : p = a + hd + c OBVIOUS
  <2>2. c \in Nat BY <1>3, <1>4
  <2>3. c < m - (a + hd) + 1 BY <1>2, <1>6, <1>10, <2>2
  <2>4. p \in 1 .. m /\ p > e /\ (p = e + 1 \/ p = a + hd)
    <3>1. p \in 1 .. m BY <1>2, <2>1, <2>2, <2>3
    <3>2. CASE len >= hd
      <4>1. c = len - hd BY <1>4, <3>2
      <4>2. p = e + 1 BY <1>2, <1>3, <2>1, <4>1
      <4> QED BY <1>2, <3>1, <4>2
    <3>3. CASE ~(len >= hd)
      <4>1. c = 0 BY <1>4, <3>3
      <4>2. p = a + hd BY <1>2, <2>1, <4>1
      <4>3. p > e BY <1>2, <1>3, <3>3, <4>2
      <4> QED BY <3>1, <4>2, <4>3
    <3> QED BY <3>2, <3>3
  <2>5. l[c + 1] = f[p]
    <3>1. c + 1 \in 1 .. m - (a + hd) + 1 /\ (a + hd) + (c + 1) - 1 = p BY <1>2, <2>1, <2>2, <2>3
    <3> QED BY <1>6, <3>1
  <2>6. PICK j \in 1 .. n : s[j] <= p /\ p <= End(f, s, j) BY <1>1, <2>4 DEF Layout
  <2>7. s[j] \in 1 .. m /\ End(f, s, j) \in 1 .. m BY <1>2
  <2>8. \A i, q \in 1 .. n : i < q => s[i] < s[q] BY <1>1 DEF Layout
  <2>9. j # k BY <1>1, <1>2, <2>4, <2>6
  <2>10. ~(j < k)
    <3>1. ASSUME j < k PROVE FALSE
      <4>1. j \in 1 .. n - 1 /\ j + 1 \in 1 .. n /\ j + 1 <= k BY <1>2, <1>3, <3>1
      <4>2. End(f, s, j) + 1 = s[j + 1] BY <1>2, <4>1
      <4>3. s[j + 1] <= a /\ s[j + 1] \in Int
        <5>1. s[j + 1] \in 1 .. m BY <1>2, <4>1
        <5>2. CASE j + 1 = k BY <1>1, <1>2, <5>1, <5>2
        <5>3. CASE j + 1 < k
          <6>1. PICK q : q = j + 1 OBVIOUS
          <6>2. s[q] < s[k] BY <1>3, <2>8, <4>1, <5>3, <6>1
          <6> QED BY <1>1, <1>2, <5>1, <6>1, <6>2
        <5> QED BY <1>3, <4>1, <5>1, <5>2, <5>3
      <4> QED BY <1>2, <2>4, <2>6, <2>7, <4>2, <4>3
    <3> QED BY <3>1
  <2>11. k < j BY <1>3, <2>9, <2>10
  <2>12. s[j] >= e + 1 /\ s[j] >= a + 1
    <3>1. k \in 1 .. n - 1 /\ k + 1 \in 1 .. n /\ k + 1 <= j BY <1>2, <1>3, <2>11
    <3>2. e + 1 = s[k + 1] BY <1>1, <1>2, <3>1
    <3>3. CASE k + 1 = j
      <4>1. s[j] = e + 1 BY <3>2, <3>3
      <4> QED BY <1>2, <4>1
    <3>4. CASE k + 1 < j
      <4>1. s[k + 1] < s[j] BY <2>8, <3>1, <3>4
      <4> QED BY <1>2, <2>7, <3>2, <4>1
    <3> QED BY <1>2, <3>1, <3>3, <3>4
  <2>13. PICK q, t : t = s[j] /\ q = p - t + 1 OBVIOUS
  <2>14. q \in Int /\ q <= hd
    <3>1. t \in Int /\ t >= e + 1 /\ t >= a + 1 BY <2>7, <2>12, <2>13
    <3>2. p \in Int BY <2>4
    <3>5. q = p - t + 1 /\ q \in Int BY <2>13, <3>1, <3>2
    <3>6. e \in Int /\ a \in Int BY <1>2
    <3>3. CASE p = e + 1 BY <3>1, <3>3, <3>5, <3>6
    <3>4. CASE p = a + hd BY <3>1, <3>4, <3>5, <3>6
    <3> QED BY <2>4, <3>3, <3>4
  <2>15. Len(o[j]) \in Nat BY <1>1 DEF Ruled
  <2>16. f[p] = o[j][q] /\ q \in 1 .. Len(o[j]) BY <1>1, <2>4, <2>6, <2>13, <2>15, LineAt
  <2>17. o[j][q].mark = "" <=> q > hd BY <1>1, <2>16 DEF Ruled
  <2>18. ~(q > hd) BY <2>14
  <2>19. o[j][q].mark # "" BY <2>17, <2>18
  <2> QED BY <2>5, <2>16, <2>19
<1>11. RowsUpTo(l, c) BY <1>9, <1>10 DEF RowsUpTo
<1>12. R = Rows(l) BY <1>1, <1>5
<1>13. R \in Seq(F) /\ Len(R) = c /\ \A i \in 1 .. c : R[i] = l[i]
  BY <1>6, <1>7, <1>11, <1>12, RowsOfLines
<1>14. len \in 1 .. Len(o[k]) BY <1>1 DEF Layout
<1> QED BY <1>1, <1>4, <1>5, <1>9, <1>13, <1>14 DEF FoundRows
-----------------------------------------------------------------------------
(* The text files of the specification *)

LEMMA LineFields == \A m, v : Line(m, v).mark = m /\ Line(m, v).vals = v
  BY DEF Line

Text == fmt \in {"TXT", "CSV"} /\ kind \in {"spec", "matrix"}
Log == [data : Agreeing, done : BOOLEAN]

LEMMA TextFacts ==
  ASSUME Text, log \in Seq(Log), NEW s, NEW o, Layout(file, log, s, o, Outs)
  PROVE  /\ Headed(log, o) /\ Ruled(log, o, Lead) /\ Lead \in Nat /\ Lead > 0
         /\ \A k \in 1 .. Len(log) : log[k].data \in Agreeing /\ IsText(o[k], log[k].data)
<1>1. Lead \in Nat /\ Lead > 0 BY DEF Lead
<1>2. ASSUME NEW k \in 1 .. Len(log)
      PROVE  /\ log[k].data \in Agreeing /\ IsText(o[k], log[k].data)
             /\ Len(o[k]) \in Nat /\ o[k][1].mark \in EntryMarks
             /\ \A i \in 2 .. Len(o[k]) : o[k][i].mark \notin EntryMarks
             /\ \A i \in 1 .. Len(o[k]) : o[k][i].mark = "" <=> i > Lead
  <2>1. log[k].data \in Agreeing
    <3>1. log[k] \in Log OBVIOUS
    <3> QED BY <3>1 DEF Log
  <2>2. o[k] \in Outs[log[k].data] BY DEF Layout
  <2>3. PICK d, w : d = log[k].data /\ w = o[k] OBVIOUS
  <2>4. w \in Output(d) BY <2>1, <2>2, <2>3 DEF Outs
  <2>5. IsText(w, d) BY <2>1, <2>3, <2>4, TextOutput DEF Text
  <2>6. NumRows(d) \in Nat BY <2>1, <2>3, SpectrumType, MatrixType DEF NumRows, Text
  <2>7. PICK h, c : h = Lead /\ c = NumRows(d) OBVIOUS
  <2>8. h \in Nat /\ h > 0 /\ c \in Nat /\ Len(w) = h + c BY <1>1, <2>5, <2>6, <2>7 DEF IsText
  <2>9. ASSUME NEW i \in 1 .. Len(w), i > h PROVE w[i].mark = ""
    <3>1. PICK j : j = i - h OBVIOUS
    <3>2. j \in 1 .. c /\ h + j = i BY <2>8, <2>9, <3>1
    <3>3. w[i] = Line("", RowVals(d, j)) BY <2>5, <2>7, <3>2 DEF IsText
    <3>4. Line("", RowVals(d, j)).mark = "" BY LineFields
    <3> QED BY <3>3, <3>4
  <2>10. ASSUME NEW i \in 1 .. Len(w), ~(i > h) PROVE w[i].mark # ""
    <3>1. i \in 1 .. h BY <2>8, <2>10
    <3> QED BY <2>5, <2>7, <3>1 DEF IsText
  <2>11. ASSUME NEW i \in 2 .. Len(w) PROVE w[i].mark \notin EntryMarks
    <3>0. i \in 1 .. Len(w) BY <2>8
    <3>1. CASE i > h BY <2>9, <3>0, <3>1 DEF EntryMarks
    <3>2. CASE ~(i > h)
      <4>1. i \in 2 .. h BY <2>8, <3>0, <3>2
      <4> QED BY <2>5, <2>7, <4>1 DEF IsText
    <3> QED BY <3>1, <3>2
  <2>12. w[1].mark \in EntryMarks BY <2>5 DEF IsText
  <2>13. Len(w) \in Nat BY <2>8
  <2> QED BY <2>1, <2>3, <2>5, <2>7, <2>9, <2>10, <2>11, <2>12, <2>13
<1> QED BY <1>1, <1>2 DEF Headed, Ruled

(* Headers are counted as entries are. *)
LEMMA HeadFacts ==
  ASSUME Text, file \in Seq(FileLine), log \in Seq(Log), NEW s, NEW o, Layout(file, log, s, o, Outs)
  PROVE  /\ Cardinality(Heads) = Len(log)
         /\ \A k \in 1 .. Len(log) : HeadOf(k) = s[k]
<1>1. Headed(log, o) BY TextFacts
<1>2. Heads = HeadsOf(file) BY DEF Heads, HeadsOf
<1>3. /\ Cardinality(Heads) = Len(log)
      /\ \A k \in 1 .. Len(log) :
              /\ s[k] \in Heads
              /\ \A i \in Heads : Cardinality({j \in Heads : j <= i}) = k <=> i = s[k]
  BY <1>1, <1>2, HeadsCount
<1>4. ASSUME NEW k \in 1 .. Len(log) PROVE HeadOf(k) = s[k]
  <2>1. s[k] \in Heads /\ Cardinality({j \in Heads : j <= s[k]}) = k BY <1>3
  <2>2. HeadOf(k) \in Heads /\ Cardinality({j \in Heads : j <= HeadOf(k)}) = k BY <2>1 DEF HeadOf
  <2> QED BY <1>3, <2>2
<1> QED BY <1>3, <1>4

(* Every line of a text file is one of an entry. *)
LEMMA LineFacts ==
  ASSUME Text, file \in Seq(FileLine), log \in Seq(Log), NEW s, NEW o, Layout(file, log, s, o, Outs),
         NEW p \in 1 .. Len(file)
  PROVE  /\ file[p] \in TextLine
         /\ file[p].mark = "" => \E d \in Agreeing : \E i \in 1 .. NumRows(d) : file[p].vals = RowVals(d, i)
<1>1. PICK k \in 1 .. Len(log) : s[k] <= p /\ p <= End(file, s, k) BY DEF Layout
<1>2. /\ Ruled(log, o, Lead) /\ Lead \in Nat /\ Lead > 0
      /\ log[k].data \in Agreeing /\ IsText(o[k], log[k].data)
  BY <1>1, TextFacts
<1>3. Len(o[k]) \in Nat BY <1>1, <1>2 DEF Ruled
<1>4. PICK q : q = p - s[k] + 1 OBVIOUS
<1>5. file[p] = o[k][q] /\ q \in 1 .. Len(o[k])
  <2>1. p \in Int OBVIOUS
  <2> QED BY <1>1, <1>3, <1>4, <2>1, LineAt
<1>6. PICK d : d = log[k].data OBVIOUS
<1>7. o[k] \in Seq(TextLine) /\ Len(o[k]) = Lead + NumRows(d) BY <1>2, <1>6 DEF IsText
<1>8. file[p] \in TextLine BY <1>5, <1>7
<1>9. ASSUME file[p].mark = "" PROVE \E i \in 1 .. NumRows(d) : file[p].vals = RowVals(d, i)
  <2>1. q > Lead BY <1>2, <1>5, <1>9 DEF Ruled
  <2>2. PICK j : j = q - Lead OBVIOUS
  <2>3. NumRows(d) \in Nat BY <1>2, <1>6, SpectrumType, MatrixType DEF NumRows, Text
  <2>4. j \in 1 .. NumRows(d) /\ q = Lead + j BY <1>2, <1>5, <1>7, <2>1, <2>2, <2>3
  <2>5. file[p] = Line("", RowVals(d, j)) BY <1>2, <1>5, <1>6, <2>4 DEF IsText
  <2>6. file[p].vals = RowVals(d, j)
    <3>1. Line("", RowVals(d, j)).vals = RowVals(d, j) BY LineFields
    <3> QED BY <2>5, <3>1
  <2> QED BY <2>4, <2>6
<1> QED BY <1>2, <1>6, <1>8, <1>9

(* R has the first c rows of d. *)
HasRows(R, d, c) ==
  /\ R \in Seq(FileLine) /\ Len(R) = c
  /\ \A i \in 1 .. c : R[i] = Line("", RowVals(d, i))

(* The rows a reader finds in l, after the header of entry k, are the first  *)
(* of d, all of them if the entry is done; after the last entry's header     *)
(* there is nothing else.                                                    *)
RowsOfEntry(l, d, k) ==
  \E c \in 0 .. NumRows(d) :
    /\ HasRows(Rows(l), d, c)
    /\ k \in 1 .. Len(log) /\ log[k].done => c = NumRows(d)
    /\ k >= Len(log) /\ Lead = 1 => Len(l) = c /\ \A i \in 1 .. c : l[i] = Line("", RowVals(d, i))

LEMMA RowsRead ==
  ASSUME Text, file \in Seq(FileLine), log \in Seq(Log), NEW s, NEW o, Layout(file, log, s, o, Outs),
         NEW k \in 1 .. Len(log), NEW d, d = log[k].data,
         NEW l, l = SubSeq(file, HeadOf(k) + Lead, Len(file))
  PROVE  RowsOfEntry(l, d, k)
<1>1. /\ Ruled(log, o, Lead) /\ Lead \in Nat /\ Lead > 0
      /\ d \in Agreeing /\ IsText(o[k], d)
  BY TextFacts
<1>2. HeadOf(k) = s[k] BY HeadFacts
<1>3. PICK len, R, h, n : len = End(file, s, k) - s[k] + 1 /\ R = Rows(l) /\ h = Lead /\ n = NumRows(d) OBVIOUS
<1>4. R = Rows(SubSeq(file, s[k] + h, Len(file))) BY <1>2, <1>3
<1>5. /\ len \in 1 .. Len(o[k])
      /\ R \in Seq(FileLine) /\ Len(R) = IF len >= h THEN len - h ELSE 0
      /\ \A i \in 1 .. Len(R) : /\ R[i] = o[k][h + i] /\ h + i \in 1 .. Len(o[k])
                                /\ R[i] = l[i]
  <2>1. h \in Nat /\ h > 0 /\ Ruled(log, o, h) BY <1>1, <1>3
  <2>2. l = SubSeq(file, s[k] + h, Len(file)) BY <1>2, <1>3
  <2>3. FoundRows(FileLine, file, s, o, k, h, len, R)
    BY <1>3, <1>4, <2>1, EntryRows
  <2> QED BY <2>2, <2>3 DEF FoundRows
<1>6. n \in Nat BY <1>1, <1>3, SpectrumType, MatrixType DEF NumRows, Text
<1>7. Len(o[k]) = h + n BY <1>1, <1>3 DEF IsText
<1>8. PICK c : c = Len(R) OBVIOUS
<1>9. h \in Nat /\ h > 0 /\ len \in 1 .. h + n BY <1>1, <1>3, <1>5, <1>7
<1>10. c = (IF len >= h THEN len - h ELSE 0) /\ c \in 0 .. n BY <1>5, <1>6, <1>8, <1>9
<1>11. \A i \in 1 .. c : R[i] = Line("", RowVals(d, i))
  <2>1. ASSUME NEW i \in 1 .. c PROVE R[i] = Line("", RowVals(d, i))
    <3>1. R[i] = o[k][h + i] BY <1>5, <1>8
    <3>2. i \in 1 .. n BY <1>6, <1>10
    <3>3. o[k][h + i] = Line("", RowVals(d, i)) BY <1>1, <1>3, <3>2 DEF IsText
    <3> QED BY <3>1, <3>3
  <2> QED BY <2>1
<1>12. log[k].done => c = n
  <2>1. ASSUME log[k].done PROVE c = n
    <3>1. len = h + n BY <1>3, <1>7, <2>1 DEF Layout
    <3> QED BY <1>6, <1>9, <1>10, <3>1
  <2> QED BY <2>1
<1>13. ASSUME k = Len(log), h = 1
       PROVE  Len(l) = c /\ \A i \in 1 .. c : l[i] = Line("", RowVals(d, i))
  <2>1. PICK a, m : a = s[k] /\ m = Len(file) OBVIOUS
  <2>2. a \in 1 .. m /\ m \in Nat /\ End(file, s, k) = m BY <1>13, <2>1, LayoutFacts
  <2>3. len = m - a + 1 BY <1>3, <2>1, <2>2
  <2>4. c = m - a BY <1>10, <1>13, <2>2, <2>3
  <2>5. l = SubSeq(file, a + 1, m) BY <1>2, <1>3, <1>13, <2>1
  <2>7. Len(l) = c BY <2>1, <2>2, <2>4, <2>5, AfterFacts
  <2> QED BY <1>5, <1>8, <1>11, <2>7
<1>14. HasRows(R, d, c) BY <1>5, <1>8, <1>11 DEF HasRows
<1>15. k >= Len(log) => k = Len(log) OBVIOUS
<1> QED BY <1>3, <1>10, <1>12, <1>13, <1>14, <1>15 DEF RowsOfEntry
-----------------------------------------------------------------------------
(* What the readers of text read *)

Meant(k) == IF k \in 1 .. Len(log) THEN log[k].data ELSE Empty

(* Of a dataset e has the first c rows of d. *)
Truncated(e, d, c) ==
  IF kind = "spec" THEN Len(e.E) = c /\ Len(e.F) = c /\ \A i \in 1 .. c : e.E[i] = d.E[i] /\ e.F[i] = d.F[i]
  ELSE /\ Len(e.M) = c /\ \A i \in 1 .. c : e.M[i] = d.M[i]
       /\ fmt = "TXT" => Len(e.ETOA) = c /\ \A i \in 1 .. c : e.ETOA[i] = d.ETOA[i]

LEMMA EmptyFacts ==
  /\ kind = "spec" => Empty.E = << >> /\ Empty.F = << >> /\ NumRows(Empty) = 0
  /\ kind = "matrix" => Empty.M = << >> /\ NumRows(Empty) = 0
  /\ kind \in {"spec", "matrix"} => Empty \in Dataset
<1>1. kind = "spec" => Empty.E = << >> /\ Empty.F = << >> /\ NumRows(Empty) = 0
  BY DEF Empty, NumRows
<1>2. kind = "matrix" => Empty.M = << >> /\ NumRows(Empty) = 0
  BY DEF Empty, NumRows
<1>3. kind = "spec" => Empty \in Dataset BY DEF Empty, Dataset, Flux
<1>4. kind = "matrix" => Empty \in Dataset BY DEF Empty, Dataset, Matrix
<1> QED BY <1>1, <1>2, <1>3, <1>4

LEMMA TextFile ==
  ASSUME Text, file \in Seq(FileLine), log \in Seq(Log), NEW s, NEW o, Layout(file, log, s, o, Outs)
  PROVE  file \in Seq(TextLine)
<1>1. \A p \in 1 .. Len(file) : file[p] \in TextLine BY LineFacts
<1>2. PICK m \in Nat : m = Len(file) OBVIOUS
<1>3. file \in [1 .. m -> TextLine]
  <2>1. file \in [1 .. m -> FileLine] BY <1>2
  <2> QED BY <1>1, <1>2, <2>1
<1> QED BY <1>3

LEMMA RestFacts ==
  ASSUME Text, file \in Seq(FileLine), log \in Seq(Log), NEW s, NEW o, Layout(file, log, s, o, Outs),
         NEW k \in Nat \ {0}
  PROVE  /\ Rest(k) \in Seq(TextLine)
         /\ \A i \in 1 .. Len(Rest(k)) : \E p \in 1 .. Len(file) : Rest(k)[i] = file[p]
         /\ k \in 1 .. Len(log) => Has(k) /\ HeadOf(k) \in 1 .. Len(file) /\ Rest(k) = SubSeq(file, HeadOf(k) + 1, Len(file))
         /\ k \notin 1 .. Len(log) => ~Has(k) /\ Rest(k) = << >>
<1>1. Len(log) \in Nat OBVIOUS
<1>2. CASE k \notin 1 .. Len(log)
  <2>1. ~Has(k) BY <1>1, <1>2, HeadFacts DEF Has
  <2>2. Rest(k) = << >> BY <2>1 DEF Rest
  <2> QED BY <1>2, <2>1, <2>2
<1>3. CASE k \in 1 .. Len(log)
  <2>1. Has(k) BY <1>1, <1>3, HeadFacts DEF Has
  <2>2. HeadOf(k) \in 1 .. Len(file) BY <1>3, HeadFacts, LayoutFacts
  <2>3. Rest(k) = SubSeq(file, HeadOf(k) + 1, Len(file)) BY <2>1 DEF Rest
  <2>4. PICK a, m : a = HeadOf(k) + 1 /\ m = Len(file) OBVIOUS
  <2>5. m \in Nat /\ a \in Nat \ {0} BY <2>2, <2>4
  <2>6. file \in Seq(TextLine) BY TextFile
  <2>7. /\ Rest(k) \in Seq(TextLine)
        /\ Len(Rest(k)) = IF a <= m THEN m - a + 1 ELSE 0
        /\ \A i \in 1 .. m - a + 1 : Rest(k)[i] = file[a + i - 1]
    BY <2>3, <2>4, <2>5, <2>6, SubSeqFacts
  <2>8. ASSUME NEW i \in 1 .. Len(Rest(k)) PROVE \E p \in 1 .. m : Rest(k)[i] = file[p]
    <3>1. i \in 1 .. m - a + 1 BY <2>5, <2>7
    <3>2. a + i - 1 \in 1 .. m BY <2>5, <3>1
    <3> QED BY <2>7, <3>1, <3>2
  <2> QED BY <1>3, <2>1, <2>2, <2>3, <2>4, <2>7, <2>8
<1> QED BY <1>2, <1>3

(* The rows found for entry k, where a header has one line. *)
LEMMA RowsMeant ==
  ASSUME Text, Lead = 1, file \in Seq(FileLine), log \in Seq(Log), NEW s, NEW o, Layout(file, log, s, o, Outs),
         NEW k \in Nat \ {0}
  PROVE  RowsOfEntry(Rest(k), Meant(k), k)
<1>1. CASE k \in 1 .. Len(log)
  <2>1. PICK d, l : d = log[k].data /\ l = Rest(k) OBVIOUS
  <2>2. l = SubSeq(file, HeadOf(k) + Lead, Len(file)) BY <1>1, <2>1, RestFacts
  <2>3. RowsOfEntry(l, d, k) BY <1>1, <2>1, <2>2, RowsRead
  <2>4. Meant(k) = d BY <1>1, <2>1 DEF Meant
  <2> QED BY <2>1, <2>3, <2>4
<1>2. CASE k \notin 1 .. Len(log)
  <2>1. Rest(k) = << >> BY <1>2, RestFacts
  <2>2. Meant(k) = Empty /\ NumRows(Empty) = 0 BY <1>2, EmptyFacts DEF Meant, Text
  <2>3. Rows(<< >>) \in Seq(FileLine) /\ Len(Rows(<< >>)) = 0
    <3>1. << >> \in Seq(FileLine) /\ 0 \in 0 .. Len(<< >>) /\ RowsUpTo(<< >>, 0) BY DEF RowsUpTo
    <3> QED BY <3>1, RowsOfLines
  <2>4. HasRows(Rows(Rest(k)), Meant(k), 0) BY <2>1, <2>3 DEF HasRows
  <2>5. Len(Rest(k)) = 0 BY <2>1
  <2>6. 0 \in 0 .. NumRows(Meant(k)) BY <2>2
  <2> QED BY <1>2, <2>2, <2>4, <2>5, <2>6 DEF RowsOfEntry
<1> QED BY <1>1, <1>2

(* What a reader leaves to its caller is a dataset; of an entry it can read, *)
(* it has the first rows, all of them if the entry is done.                  *)
ReadOf(e, k) ==
  /\ e \in Dataset
  /\ Readable(k) => \E c \in 0 .. NumRows(Meant(k)) :
                      /\ Truncated(e, Meant(k), c)
                      /\ k \in 1 .. Len(log) /\ log[k].done => c = NumRows(Meant(k))

LEMMA MeantFacts ==
  ASSUME Text, log \in Seq(Log), NEW k
  PROVE  /\ NumRows(Meant(k)) \in Nat
         /\ kind = "spec" => /\ Meant(k).E \in Seq(Number) /\ Meant(k).F \in Seq(Number)
                             /\ Len(Meant(k).E) = NumRows(Meant(k)) /\ Len(Meant(k).F) = NumRows(Meant(k))
         /\ kind = "matrix" => /\ Meant(k).ETOA \in Seq(Number) /\ Meant(k).M \in Seq(Seq(Number))
                               /\ Len(Meant(k).ETOA) = NumRows(Meant(k)) /\ Len(Meant(k).M) = NumRows(Meant(k))
<1>1. PICK d : d = Meant(k) OBVIOUS
<1>2. CASE k \in 1 .. Len(log)
  <2>1. d = log[k].data BY <1>1, <1>2 DEF Meant
  <2>2. log[k] \in Log BY <1>2
  <2>3. d \in Agreeing BY <2>1, <2>2 DEF Log
  <2>4. CASE kind = "spec" BY <1>1, <2>3, <2>4, SpectrumType DEF NumRows, Flux
  <2>5. CASE kind = "matrix" BY <1>1, <2>3, <2>5, MatrixType DEF NumRows, Matrix
  <2> QED BY <2>4, <2>5 DEF Text
<1>3. CASE k \notin 1 .. Len(log)
  <2>1. d = Empty BY <1>1, <1>3 DEF Meant
  <2>2. CASE kind = "spec"
    <3>1. d = [E |-> << >>, F |-> << >>] BY <2>1, <2>2 DEF Empty
    <3>2. NumRows(d) = 0 BY <2>1, <2>2, EmptyFacts
    <3> QED BY <1>1, <2>2, <3>1, <3>2
  <2>3. CASE kind = "matrix"
    <3>1. d = [ETOA |-> << >>, ELIS |-> << >>, M |-> << >>] BY <2>1, <2>3 DEF Empty
    <3>2. NumRows(d) = 0 BY <2>1, <2>3, EmptyFacts
    <3> QED BY <1>1, <2>3, <3>1, <3>2
  <2> QED BY <2>2, <2>3 DEF Text
<1> QED BY <1>2, <1>3

(* A spectrum of n rows; the first c rows of d; the two columns of rows. *)
IsSpectrum(d, n) == d.E \in Seq(Number) /\ d.F \in Seq(Number) /\ Len(d.E) = n /\ Len(d.F) = n
FirstRows(R, d, c) == DOMAIN R = 1 .. c /\ \A i \in 1 .. c : R[i] = Line("", RowVals(d, i))
Columns(R) == [E |-> Column(R, 1), F |-> Column(R, 2)]

LEMMA ColumnFacts ==
  ASSUME kind = "spec", NEW d, NEW n \in Nat, IsSpectrum(d, n), NEW c \in 0 .. n,
         NEW R, FirstRows(R, d, c)
  PROVE  Columns(R) \in Dataset /\ Truncated(Columns(R), d, c)
<1>1. PICK x, y : x = d.E /\ y = d.F OBVIOUS
<1>2. x \in Seq(Number) /\ y \in Seq(Number) /\ Len(x) = n /\ Len(y) = n BY <1>1 DEF IsSpectrum
<1>3. c \in Nat /\ c <= n OBVIOUS
<1>4. ASSUME NEW i \in 1 .. c PROVE R[i].vals[1] = x[i] /\ R[i].vals[2] = y[i] /\ x[i] \in Number /\ y[i] \in Number
  <2>1. i \in 1 .. n BY <1>3
  <2>2. RowVals(d, i) = <<x[i], y[i]>> BY <1>1 DEF RowVals
  <2>3. R[i] = Line("", RowVals(d, i)) BY DEF FirstRows
  <2>4. R[i].vals = RowVals(d, i)
    <3>1. Line("", RowVals(d, i)).vals = RowVals(d, i) BY LineFields
    <3> QED BY <2>3, <3>1
  <2>5. x[i] \in Number /\ y[i] \in Number BY <1>2, <2>1
  <2> QED BY <2>2, <2>4, <2>5
<1>5. PICK u, v : u = Column(R, 1) /\ v = Column(R, 2) OBVIOUS
<1>6. u = [i \in 1 .. c |-> R[i].vals[1]] /\ v = [i \in 1 .. c |-> R[i].vals[2]]
  BY <1>5 DEF Column, FirstRows
<1>7. u \in [1 .. c -> Number] /\ v \in [1 .. c -> Number] BY <1>4, <1>6
<1>8. u \in Seq(Number) /\ v \in Seq(Number) /\ Len(u) = c /\ Len(v) = c BY <1>3, <1>7
<1>9. Columns(R) = [E |-> u, F |-> v] BY <1>5 DEF Columns
<1>10. Columns(R) \in Dataset BY <1>8, <1>9 DEF Dataset, Flux
<1>11. \A i \in 1 .. c : u[i] = x[i] /\ v[i] = y[i] BY <1>4, <1>6
<1> QED BY <1>1, <1>8, <1>9, <1>10, <1>11 DEF Truncated

LEMMA MeantSpectrum ==
  ASSUME Text, kind = "spec", log \in Seq(Log), NEW k
  PROVE  NumRows(Meant(k)) \in Nat /\ IsSpectrum(Meant(k), NumRows(Meant(k)))
BY MeantFacts DEF IsSpectrum

LEMMA RowsFirst ==
  ASSUME NEW R, NEW d, NEW c, HasRows(R, d, c)
  PROVE  FirstRows(R, d, c)
<1>1. R \in Seq(FileLine) /\ Len(R) = c BY DEF HasRows
<1>2. DOMAIN R = 1 .. c BY <1>1
<1> QED BY <1>2 DEF HasRows, FirstRows

LEMMA TxtSpecRead ==
  ASSUME Text, kind = "spec", fmt = "TXT", file \in Seq(FileLine), log \in Seq(Log),
         NEW s, NEW o, Layout(file, log, s, o, Outs), NEW k \in Nat \ {0}
  PROVE  ReadOf(TxtSpec(k), k)
<1>1. PICK d, R : d = Meant(k) /\ R = Rows(Rest(k)) OBVIOUS
<1>2. Lead = 1 BY DEF Lead
<1>3. PICK c \in 0 .. NumRows(d) : HasRows(R, d, c) /\ (k \in 1 .. Len(log) /\ log[k].done => c = NumRows(d))
  <2>1. RowsOfEntry(Rest(k), Meant(k), k) BY <1>2, RowsMeant
  <2> QED BY <1>1, <2>1 DEF RowsOfEntry
<1>4. FirstRows(R, d, c) BY <1>3, RowsFirst
<1>5. NumRows(d) \in Nat /\ IsSpectrum(d, NumRows(d)) BY <1>1, MeantSpectrum
<1>6. TxtSpec(k) = Columns(R) BY <1>1 DEF TxtSpec, Columns
<1>7. TxtSpec(k) \in Dataset /\ Truncated(TxtSpec(k), d, c)
  BY <1>4, <1>5, <1>6, ColumnFacts
<1> QED BY <1>1, <1>3, <1>7 DEF ReadOf

LEMMA CsvSpecRead ==
  ASSUME Text, kind = "spec", fmt = "CSV", file \in Seq(FileLine), log \in Seq(Log),
         NEW s, NEW o, Layout(file, log, s, o, Outs), NEW k \in Nat \ {0}
  PROVE  ReadOf(CsvSpec(k), k)
<1>1. PICK d, l : d = Meant(k) /\ l = Rest(k) OBVIOUS
<1>2. PICK R : R = [i \in DOMAIN l |-> IF l[i].mark = "" THEN l[i] ELSE Line("", <<0, 0>>)] OBVIOUS
<1>3. CsvSpec(k) = Columns(R) BY <1>1, <1>2 DEF CsvSpec, Columns
<1>4. l \in Seq(TextLine) /\ \A i \in 1 .. Len(l) : \E p \in 1 .. Len(file) : l[i] = file[p]
  BY <1>1, RestFacts
<1>5. PICK n \in Nat : n = Len(l) BY <1>4
<1>6. DOMAIN R = 1 .. n
  <2>1. DOMAIN l = 1 .. n BY <1>4, <1>5
  <2> QED BY <1>2, <2>1
<1>7. ASSUME NEW i \in 1 .. n PROVE R[i].vals[1] \in Number /\ R[i].vals[2] \in Number
  <2>0. i \in DOMAIN l BY <1>4, <1>5
  <2>1. CASE l[i].mark = ""
    <3>1. R[i] = l[i] BY <1>2, <2>0, <2>1
    <3>2. PICK p \in 1 .. Len(file) : l[i] = file[p] BY <1>4, <1>5
    <3>3. PICK x \in Agreeing : \E j \in 1 .. NumRows(x) : file[p].vals = RowVals(x, j)
      BY <2>1, <3>2, LineFacts
    <3>4. PICK j \in 1 .. NumRows(x) : file[p].vals = RowVals(x, j) BY <3>3
    <3>5. file[p].vals = <<x.E[j], x.F[j]>> BY <3>4 DEF RowVals
    <3>6. x.E \in Seq(Vals) /\ x.F \in Seq(Vals) /\ Len(x.E) = Len(x.F) /\ NumRows(x) = Len(x.E)
      BY SpectrumType DEF NumRows
    <3>7. x.E[j] \in Vals /\ x.F[j] \in Vals BY <3>6
    <3> QED BY <3>1, <3>2, <3>5, <3>7 DEF Number
  <2>2. CASE l[i].mark # ""
    <3>1. R[i] = Line("", <<0, 0>>) BY <1>2, <2>0, <2>2
    <3>2. Line("", <<0, 0>>).vals = <<0, 0>> BY LineFields
    <3>3. R[i].vals = <<0, 0>> BY <3>1, <3>2
    <3> QED BY <3>3 DEF Number
  <2> QED BY <2>1, <2>2
<1>8. CsvSpec(k) \in Dataset
  <2>1. PICK e : e = CsvSpec(k) OBVIOUS
  <2>2. e.E = [i \in 1 .. n |-> R[i].vals[1]] /\ e.F = [i \in 1 .. n |-> R[i].vals[2]]
    BY <1>3, <1>6, <2>1 DEF Column, Columns
  <2>3. e.E \in [1 .. n -> Number] /\ e.F \in [1 .. n -> Number] BY <1>7, <2>2
  <2>4. e.E \in Seq(Number) /\ e.F \in Seq(Number) BY <2>3
  <2>5. e = [E |-> e.E, F |-> e.F] BY <1>3, <2>1 DEF Columns
  <2> QED BY <2>1, <2>4, <2>5 DEF Dataset, Flux
<1>9. ASSUME Readable(k)
      PROVE  \E c \in 0 .. NumRows(d) : Truncated(CsvSpec(k), d, c) /\ (k \in 1 .. Len(log) /\ log[k].done => c = NumRows(d))
  <2>1. k >= Len(log) BY <1>9 DEF Readable
  <2>2. Lead = 1 BY DEF Lead
  <2>3. PICK c \in 0 .. NumRows(d) :
          /\ k \in 1 .. Len(log) /\ log[k].done => c = NumRows(d)
          /\ Len(l) = c /\ \A i \in 1 .. c : l[i] = Line("", RowVals(d, i))
    <3>1. RowsOfEntry(Rest(k), Meant(k), k) BY <2>2, RowsMeant
    <3> QED BY <1>1, <2>1, <2>2, <3>1 DEF RowsOfEntry
  <2>4. c = n BY <1>5, <2>3
  <2>5. ASSUME NEW i \in 1 .. c PROVE R[i] = Line("", RowVals(d, i))
    <3>1. i \in DOMAIN l BY <1>4, <1>5, <2>4
    <3>2. l[i] = Line("", RowVals(d, i)) BY <2>3
    <3>3. l[i].mark = "" BY <3>2, LineFields
    <3> QED BY <1>2, <3>1, <3>2, <3>3
  <2>6. FirstRows(R, d, c) BY <1>6, <2>4, <2>5 DEF FirstRows
  <2>7. NumRows(d) \in Nat /\ IsSpectrum(d, NumRows(d)) BY <1>1, MeantSpectrum
  <2>8. Truncated(CsvSpec(k), d, c) BY <1>3, <2>6, <2>7, ColumnFacts
  <2> QED BY <2>3, <2>8
<1> QED BY <1>1, <1>8, <1>9 DEF ReadOf

(* A matrix of n rows. *)
IsMatrix(d, n) == d.ETOA \in Seq(Number) /\ d.M \in Seq(Seq(Number)) /\ Len(d.ETOA) = n /\ Len(d.M) = n

LEMMA MeantMatrix ==
  ASSUME Text, kind = "matrix", log \in Seq(Log), NEW k
  PROVE  NumRows(Meant(k)) \in Nat /\ IsMatrix(Meant(k), NumRows(Meant(k)))
BY MeantFacts DEF IsMatrix

LEMMA HeadTail ==
  ASSUME NEW S, NEW a, NEW t, a \in S, t \in Seq(S)
  PROVE  Head(<<a>> \o t) = a /\ Tail(<<a>> \o t) = t
<1>1. Head(<<a>> \o t) = a OBVIOUS
<1>2. PICK u : u = Tail(<<a>> \o t) OBVIOUS
<1>3. <<a>> \o t \in Seq(S) /\ Len(<<a>> \o t) = 1 + Len(t) /\ \A i \in 1 .. Len(t) : (<<a>> \o t)[1 + i] = t[i]
  BY Concat
<1>4. PICK w : w = <<a>> \o t OBVIOUS
<1>5. w \in Seq(S) /\ Len(w) = 1 + Len(t) /\ \A i \in 1 .. Len(t) : w[1 + i] = t[i] BY <1>3, <1>4
<1>6. Tail(w) \in Seq(S) /\ Len(Tail(w)) = Len(t) /\ \A i \in 1 .. Len(t) : Tail(w)[i] = w[i + 1]
  BY <1>5
<1>7. \A i \in 1 .. Len(t) : Tail(w)[i] = t[i]
  <2>1. ASSUME NEW i \in 1 .. Len(t) PROVE i + 1 = 1 + i OBVIOUS
  <2> QED BY <1>5, <1>6, <2>1
<1>8. Tail(w) = t BY <1>6, <1>7
<1> QED BY <1>1, <1>4, <1>8

LEMMA TxtMatrixRead ==
  ASSUME Text, kind = "matrix", fmt = "TXT", file \in Seq(FileLine), log \in Seq(Log),
         NEW s, NEW o, Layout(file, log, s, o, Outs), NEW k \in Nat \ {0}
  PROVE  ReadOf(TxtMatrix(k), k)
<1>1. PICK d, R, n : d = Meant(k) /\ R = Rows(Rest(k)) /\ n = NumRows(d) OBVIOUS
<1>2. Lead = 1 BY DEF Lead
<1>3. PICK c \in 0 .. n : HasRows(R, d, c) /\ (k \in 1 .. Len(log) /\ log[k].done => c = n)
  <2>1. RowsOfEntry(Rest(k), Meant(k), k) BY <1>2, RowsMeant
  <2> QED BY <1>1, <2>1 DEF RowsOfEntry
<1>4. FirstRows(R, d, c) BY <1>3, RowsFirst
<1>5. n \in Nat /\ IsMatrix(d, n) BY <1>1, MeantMatrix
<1>6. PICK x, y : x = d.ETOA /\ y = d.M OBVIOUS
<1>7. x \in Seq(Number) /\ y \in Seq(Seq(Number)) /\ Len(x) = n /\ Len(y) = n BY <1>5, <1>6 DEF IsMatrix
<1>8. c \in Nat /\ c <= n BY <1>5
<1>9. ASSUME NEW i \in 1 .. c
      PROVE  Head(R[i].vals) = x[i] /\ Tail(R[i].vals) = y[i] /\ x[i] \in Number /\ y[i] \in Seq(Number)
  <2>1. i \in 1 .. n BY <1>5, <1>8
  <2>2. x[i] \in Number /\ y[i] \in Seq(Number) BY <1>7, <2>1
  <2>3. RowVals(d, i) = <<x[i]>> \o y[i] BY <1>6 DEF RowVals
  <2>4. R[i] = Line("", RowVals(d, i)) BY <1>4 DEF FirstRows
  <2>5. Line("", RowVals(d, i)).vals = RowVals(d, i) BY LineFields
  <2>6. R[i].vals = <<x[i]>> \o y[i] BY <2>3, <2>4, <2>5
  <2> QED BY <2>2, <2>6, HeadTail
<1>10. PICK u, v : u = [i \in DOMAIN R |-> Head(R[i].vals)] /\ v = [i \in DOMAIN R |-> Tail(R[i].vals)] OBVIOUS
<1>11. u = [i \in 1 .. c |-> Head(R[i].vals)] /\ v = [i \in 1 .. c |-> Tail(R[i].vals)]
  BY <1>4, <1>10 DEF FirstRows
<1>12. u \in [1 .. c -> Number] /\ v \in [1 .. c -> Seq(Number)] BY <1>9, <1>11
<1>13. u \in Seq(Number) /\ v \in Seq(Seq(Number)) /\ Len(u) = c /\ Len(v) = c BY <1>8, <1>12
<1>14. TxtMatrix(k) = [ETOA |-> u, ELIS |-> << >>, M |-> v] BY <1>1, <1>10 DEF TxtMatrix
<1>15. TxtMatrix(k) \in Dataset BY <1>13, <1>14 DEF Dataset, Matrix
<1>16. \A i \in 1 .. c : u[i] = x[i] /\ v[i] = y[i] BY <1>9, <1>11
<1>17. Truncated(TxtMatrix(k), d, c) BY <1>6, <1>13, <1>14, <1>16 DEF Truncated
<1> QED BY <1>1, <1>3, <1>15, <1>17 DEF ReadOf

LEMMA SubSubSeq ==
  ASSUME NEW F, NEW f \in Seq(F), NEW a \in Nat \ {0}, NEW b \in Nat \ {0},
         NEW r, r = SubSeq(f, a, Len(f)), a <= Len(f) + 1
  PROVE  SubSeq(r, b, Len(r)) = SubSeq(f, a + b - 1, Len(f))
<1>1. PICK m, q : m = Len(f) /\ q = a + b - 1 OBVIOUS
<1>2. m \in Nat /\ q \in Nat \ {0} /\ a <= m + 1 BY <1>1
<1>3. r \in Seq(F) /\ Len(r) = m - a + 1 /\ \A i \in 1 .. m - a + 1 : r[i] = f[a + i - 1]
  <2>1. Len(r) = IF a <= m THEN m - a + 1 ELSE 0 BY <1>1, SubSeqFacts
  <2>2. Len(r) = m - a + 1 BY <1>2, <2>1
  <2> QED BY <1>1, <2>2, SubSeqFacts
<1>4. PICK u, v : u = SubSeq(r, b, Len(r)) /\ v = SubSeq(f, q, m) OBVIOUS
<1>5. /\ u \in Seq(F) /\ Len(u) = IF b <= Len(r) THEN Len(r) - b + 1 ELSE 0
      /\ \A i \in 1 .. Len(r) - b + 1 : u[i] = r[b + i - 1]
  BY <1>3, <1>4, SubSeqFacts
<1>6. /\ v \in Seq(F) /\ Len(v) = IF q <= m THEN m - q + 1 ELSE 0
      /\ \A i \in 1 .. m - q + 1 : v[i] = f[q + i - 1]
  BY <1>1, <1>2, <1>4, SubSeqFacts
<1>7. PICK n : n = Len(r) OBVIOUS
<1>8. n = m - a + 1 /\ n \in Int /\ n - b + 1 = m - q + 1 /\ (b <= n <=> q <= m) BY <1>1, <1>2, <1>3, <1>7
<1>9. Len(u) = Len(v) BY <1>5, <1>6, <1>7, <1>8
<1>10. ASSUME NEW i \in 1 .. Len(u) PROVE u[i] = v[i]
  <2>1. i \in 1 .. n - b + 1
    <3>1. Len(u) = IF b <= n THEN n - b + 1 ELSE 0 BY <1>5, <1>7
    <3> QED BY <1>8, <3>1
  <2>2. b + i - 1 \in 1 .. m - a + 1 /\ a + (b + i - 1) - 1 = q + i - 1
    BY <1>1, <1>2, <1>8, <2>1
  <2>3. r[b + i - 1] = f[q + i - 1] BY <1>3, <2>2
  <2>4. u[i] = r[b + i - 1] BY <1>5, <1>7, <2>1
  <2>5. v[i] = f[q + i - 1] BY <1>6, <1>8, <2>1
  <2> QED BY <2>3, <2>4, <2>5
<1>11. u = v BY <1>5, <1>6, <1>9, <1>10
<1> QED BY <1>1, <1>4, <1>11

LEMMA NumbersType ==
  ASSUME NEW l \in Seq(TextLine)
  PROVE  Numbers(l) \subseteq Seq(Number)
<1>1. CASE l = << >>
  <2>1. \A v \in Number : <<v>> \in Seq(Number) OBVIOUS
  <2>2. Numbers(l) = {<<v>> : v \in Number} BY <1>1 DEF Numbers, Number
  <2> QED BY <2>1, <2>2
<1>2. CASE l # << >>
  <2>1. Head(l) \in TextLine BY <1>2
  <2>2. PICK t : t = Head(l).vals OBVIOUS
  <2>3. t \in Seq(Number) BY <2>1, <2>2 DEF TextLine
  <2>4. 0 \in Number BY DEF Number
  <2>5. <<0>> \in Seq(Number) BY <2>4
  <2>6. <<0>> \o t \in Seq(Number) BY <2>3, <2>5, Concat
  <2>7. Numbers(l) = {<<0>> \o t} BY <1>2, <2>2 DEF Numbers
  <2> QED BY <2>6, <2>7
<1> QED BY <1>1, <1>2

LEMMA CsvMatrixRead ==
  ASSUME Text, kind = "matrix", fmt = "CSV", file \in Seq(FileLine), log \in Seq(Log),
         NEW s, NEW o, Layout(file, log, s, o, Outs), NEW k \in Nat \ {0}, NEW e \in CsvMatrices(k)
  PROVE  ReadOf(e, k)
<1>1. PICK d, l, n : d = Meant(k) /\ l = SubSeq(Rest(k), 3, Len(Rest(k))) /\ n = NumRows(d) OBVIOUS
<1>2. PICK R : R = Rows(l) OBVIOUS
<1>3. Lead = 3 BY DEF Lead
<1>4. n \in Nat /\ IsMatrix(d, n) BY <1>1, MeantMatrix
<1>5. Rest(k) \in Seq(TextLine) BY RestFacts
<1>6. RowsOfEntry(l, d, k)
  <2>1. CASE k \in 1 .. Len(log)
    <3>1. PICK a : a = HeadOf(k) + 1 OBVIOUS
    <3>2. HeadOf(k) \in 1 .. Len(file) /\ Rest(k) = SubSeq(file, a, Len(file)) BY <2>1, <3>1, RestFacts
    <3>3. a \in Nat \ {0} /\ a <= Len(file) + 1 /\ a + 3 - 1 = HeadOf(k) + 3
      <4>1. PICK m \in Nat : m = Len(file) OBVIOUS
      <4>2. PICK q : q = HeadOf(k) OBVIOUS
      <4>3. q \in 1 .. m /\ a = q + 1 BY <3>1, <3>2, <4>1, <4>2
      <4>4. a \in Nat \ {0} /\ a <= m + 1 /\ a + 3 - 1 = q + 3 BY <4>3
      <4> QED BY <4>1, <4>2, <4>4
    <3>4. l = SubSeq(file, a + 3 - 1, Len(file)) BY <1>1, <3>2, <3>3, SubSubSeq
    <3>5. l = SubSeq(file, HeadOf(k) + Lead, Len(file)) BY <1>3, <3>3, <3>4
    <3>6. d = log[k].data BY <1>1, <2>1 DEF Meant
    <3> QED BY <2>1, <3>5, <3>6, RowsRead
  <2>2. CASE k \notin 1 .. Len(log)
    <3>1. Rest(k) = << >> BY <2>2, RestFacts
    <3>2. l = << >> BY <1>1, <3>1
    <3>3. d = Empty /\ NumRows(d) = 0 BY <1>1, <2>2, EmptyFacts DEF Meant, Text
    <3>4. Rows(<< >>) \in Seq(FileLine) /\ Len(Rows(<< >>)) = 0
      <4>1. << >> \in Seq(FileLine) /\ 0 \in 0 .. Len(<< >>) /\ RowsUpTo(<< >>, 0) BY DEF RowsUpTo
      <4> QED BY <4>1, RowsOfLines
    <3>5. HasRows(Rows(l), d, 0) BY <3>2, <3>4 DEF HasRows
    <3>6. 0 \in 0 .. NumRows(d) BY <3>3
    <3> QED BY <1>3, <2>2, <3>5, <3>6 DEF RowsOfEntry
  <2> QED BY <2>1, <2>2
<1>7. PICK c \in 0 .. n : HasRows(R, d, c) /\ (k \in 1 .. Len(log) /\ log[k].done => c = n)
  BY <1>1, <1>2, <1>6 DEF RowsOfEntry
<1>8. FirstRows(R, d, c) BY <1>7, RowsFirst
<1>9. PICK y : y = d.M OBVIOUS
<1>10. y \in Seq(Seq(Number)) /\ Len(y) = n BY <1>4, <1>9 DEF IsMatrix
<1>11. c \in Nat /\ c <= n BY <1>4
<1>12. ASSUME NEW i \in 1 .. c PROVE R[i].vals = y[i] /\ y[i] \in Seq(Number)
  <2>1. i \in 1 .. n BY <1>4, <1>11
  <2>2. y[i] \in Seq(Number) BY <1>10, <2>1
  <2>3. RowVals(d, i) = y[i] BY <1>9 DEF RowVals
  <2>4. R[i] = Line("", RowVals(d, i)) BY <1>8 DEF FirstRows
  <2>5. Line("", RowVals(d, i)).vals = RowVals(d, i) BY LineFields
  <2> QED BY <2>2, <2>3, <2>4, <2>5
<1>13. PICK v : v = [i \in DOMAIN R |-> R[i].vals] OBVIOUS
<1>14. v = [i \in 1 .. c |-> R[i].vals] BY <1>8, <1>13 DEF FirstRows
<1>15. v \in [1 .. c -> Seq(Number)] BY <1>12, <1>14
<1>16. v \in Seq(Seq(Number)) /\ Len(v) = c BY <1>11, <1>15
<1>17. PICK header : header = IF Has(k) THEN <<file[HeadOf(k)]>> ELSE << >> OBVIOUS
<1>18. e \in [ETOA : Numbers(Rest(k)), ELIS : Numbers(header), M : {v}]
  BY <1>1, <1>2, <1>13, <1>17 DEF CsvMatrices
<1>19. header \in Seq(TextLine)
  <2>1. CASE k \in 1 .. Len(log)
    <3>1. Has(k) /\ HeadOf(k) \in 1 .. Len(file) BY <2>1, RestFacts
    <3>2. file[HeadOf(k)] \in TextLine BY <3>1, LineFacts
    <3> QED BY <1>17, <3>1, <3>2
  <2>2. CASE k \notin 1 .. Len(log)
    <3>1. ~Has(k) BY <2>2, RestFacts
    <3> QED BY <1>17, <3>1
  <2> QED BY <2>1, <2>2
<1>20. Numbers(Rest(k)) \subseteq Seq(Number) /\ Numbers(header) \subseteq Seq(Number)
  BY <1>5, <1>19, NumbersType
<1>21. e.M = v /\ e \in Matrix BY <1>16, <1>18, <1>20 DEF Matrix
<1>22. e \in Dataset BY <1>21 DEF Dataset
<1>23. \A i \in 1 .. c : v[i] = y[i] BY <1>12, <1>14
<1>24. Truncated(e, d, c) BY <1>9, <1>16, <1>21, <1>23 DEF Truncated
<1> QED BY <1>1, <1>7, <1>22, <1>24 DEF ReadOf

LEMMA TextRead ==
  ASSUME Text, file \in Seq(FileLine), log \in Seq(Log),
         NEW s, NEW o, Layout(file, log, s, o, Outs), NEW k \in Nat \ {0}, NEW e \in TextEntries(k)
  PROVE  ReadOf(e, k)
<1>1. CASE kind = "spec" /\ fmt = "TXT"
  <2>1. e = TxtSpec(k) BY <1>1 DEF TextEntries
  <2> QED BY <1>1, <2>1, TxtSpecRead
<1>2. CASE kind = "spec" /\ fmt = "CSV"
  <2>1. e = CsvSpec(k) BY <1>2 DEF TextEntries
  <2> QED BY <1>2, <2>1, CsvSpecRead
<1>3. CASE kind = "matrix" /\ fmt = "TXT"
  <2>1. e = TxtMatrix(k) BY <1>3 DEF TextEntries
  <2> QED BY <1>3, <2>1, TxtMatrixRead
<1>4. CASE kind = "matrix" /\ fmt = "CSV"
  <2>1. e \in CsvMatrices(k) BY <1>4 DEF TextEntries
  <2> QED BY <1>4, <2>1, CsvMatrixRead
<1> QED BY <1>1, <1>2, <1>3, <1>4 DEF Text
-----------------------------------------------------------------------------
(* The invariant is kept *)

(* The sets the invariant speaks of depend on the format and kind alone. *)
LEMMA SetsKept ==
  ASSUME UNCHANGED <<fmt, kind>>
  PROVE  Agreeing' = Agreeing /\ FileLine' = FileLine /\ Dataset' = Dataset /\ Outs' = Outs
<1>1. Datasets' = Datasets BY DEF Datasets
<1>2. Agreeing' = Agreeing BY <1>1 DEF Agreeing, SizesAgree
<1>3. FileLine' = FileLine BY <1>1 DEF FileLine, Document, Line, TextLine
<1>4. Dataset' = Dataset BY DEF Dataset
<1>5. \A d : Output(d)' = Output(d) BY DEF Output, SpecLines, TxtMatrixLines, CsvMatrixLines, CsvEtoa, Document, Line
<1>6. Outs' = Outs BY <1>2, <1>5 DEF Outs
<1> QED BY <1>2, <1>3, <1>4, <1>6

LEMMA AgreeingDatasets ==
  ASSUME kind \in {"spec", "matrix"}, NEW d \in Agreeing
  PROVE  d \in Dataset /\ d \in Datasets
BY SpectrumType, MatrixType DEF Dataset, Agreeing

LEMMA EmptyLayout ==
  ASSUME NEW Out
  PROVE  \E s, o : Layout(<< >>, << >>, s, o, Out)
<1>1. PICK s, n : s = [k \in 1 .. n |-> 0] /\ n = 0 OBVIOUS
<1>2. 1 .. n = {} BY <1>1
<1>3. Len(<< >>) = 0 /\ 1 .. 0 = {} OBVIOUS
<1>4. s \in [1 .. 0 -> 1 .. 0] /\ DOMAIN s = 1 .. 0 BY <1>1
<1>5. Layout(<< >>, << >>, s, s, Out) BY <1>3, <1>4 DEF Layout
<1> QED BY <1>5

(* What a writer is given to write. *)
LEMMA OutputLines ==
  ASSUME TypeInv, NEW d \in Agreeing, NEW w \in Output(d)
  PROVE  w \in Seq(FileLine) /\ w # << >>
<1>0. kind \in {"spec", "matrix"} /\ fmt \in {"TXT", "CSV", "BSON"} BY FilesAssumption DEF TypeInv
<1>1. CASE fmt = "BSON"
  <2>1. w = <<Document(d)>> BY <1>1 DEF Output
  <2>2. d \in Datasets BY DEF Agreeing
  <2>3. Document(d) \in FileLine BY <2>2 DEF FileLine
  <2> QED BY <2>1, <2>3
<1>2. CASE fmt # "BSON"
  <2>1. IsText(w, d) BY <1>0, <1>2, TextOutput
  <2>2. w \in Seq(TextLine) BY <2>1 DEF IsText
  <2>3. w \in Seq(FileLine)
    <3>1. TextLine \subseteq FileLine BY DEF FileLine
    <3> QED BY <2>2, <3>1
  <2>4. NumRows(d) \in Nat BY <1>0, SpectrumType, MatrixType DEF NumRows
  <2>5. Lead \in Nat /\ Lead > 0 BY DEF Lead
  <2>6. Len(w) = Lead + NumRows(d) BY <2>1 DEF IsText
  <2>7. Len(w) > 0 BY <2>4, <2>5, <2>6
  <2>8. w # << >> BY <2>7
  <2> QED BY <2>3, <2>8
<1> QED BY <1>1, <1>2

LEMMA InitInv == Init => IInv
<1> SUFFICES ASSUME Init PROVE IInv OBVIOUS
<1> USE DEF Init
<1>1. TypeInv
  <2>1. Empty \in Dataset BY EmptyFacts
  <2>2. Idle BY DEF Idle
  <2>3. file \in Seq(FileLine) /\ log \in Seq([data : Agreeing, done : BOOLEAN]) OBVIOUS
  <2>4. writes \in 0 .. MaxWrites BY FilesAssumption
  <2> QED BY <2>1, <2>2, <2>3, <2>4 DEF TypeInv
<1>2. TextInv
  <2>1. Idle BY DEF Idle
  <2>2. \E s, o : Layout(<< >>, << >>, s, o, Outs) BY EmptyLayout
  <2> QED BY <2>1, <2>2 DEF TextInv
<1>3. BsonInv
  <2>1. Idle BY DEF Idle
  <2>2. Len(file) = 0 /\ Len(log) = 0 OBVIOUS
  <2> QED BY <2>1, <2>2 DEF BsonInv
<1> QED BY <1>1, <1>2, <1>3 DEF IInv

(* Opening the file keeps its entries or empties it. *)
LEMMA OpenFileKeeps ==
  ASSUME IInv, NEW append \in BOOLEAN, OpenFile(append), UNCHANGED <<fmt, kind>>
  PROVE  /\ file' \in Seq(FileLine) /\ log' \in Seq([data : Agreeing, done : BOOLEAN])
         /\ fmt # "BSON" => \E s, o : Layout(file', log', s, o, Outs)
         /\ fmt = "BSON" => /\ Len(file') = Len(log')
                            /\ \A k \in 1 .. Len(log') : file'[k] = IF log'[k].done THEN Document(log'[k].data) ELSE Line("torn", << >>)
<1>1. CASE append
  <2>1. file' = file /\ log' = log BY <1>1 DEF OpenFile
  <2> QED BY <2>1 DEF IInv, TypeInv, TextInv, BsonInv
<1>2. CASE ~append
  <2>1. file' = << >> /\ log' = << >> BY <1>2 DEF OpenFile
  <2>2. Len(<< >>) = 0 OBVIOUS
  <2> QED BY <2>1, <2>2, EmptyLayout
<1> QED BY <1>1, <1>2

LEMMA OpenKeeps ==
  ASSUME IInv, NEW d \in Datasets, NEW append \in BOOLEAN, Open(d, append)
  PROVE  IInv'
<1>1. /\ UNCHANGED <<fmt, kind, got>> /\ OpenFile(append) /\ made' = TRUE
      /\ writes < MaxWrites /\ writes' = writes + 1 /\ d \in Agreeing
  BY DEF Open, OpenFile, Agreeing
<1>2. PICK lines \in Output(d) : writer' = [data |-> d, lines |-> lines] BY DEF Open
<1>3. lines \in Seq(FileLine) \ {<< >>} BY <1>1, OutputLines DEF IInv
<1>4. Agreeing' = Agreeing /\ FileLine' = FileLine /\ Dataset' = Dataset /\ Outs' = Outs BY <1>1, SetsKept
<1>5. /\ file' \in Seq(FileLine) /\ log' \in Seq([data : Agreeing, done : BOOLEAN])
      /\ fmt # "BSON" => \E s, o : Layout(file', log', s, o, Outs)
      /\ fmt = "BSON" => /\ Len(file') = Len(log')
                         /\ \A k \in 1 .. Len(log') : file'[k] = IF log'[k].done THEN Document(log'[k].data) ELSE Line("torn", << >>)
  BY <1>1, OpenFileKeeps
<1>6. TypeInv'
  <2>1. writer' \in [data : Agreeing, lines : Seq(FileLine) \ {<< >>}] BY <1>1, <1>2, <1>3
  <2>2. writes' \in 0 .. MaxWrites BY <1>1, FilesAssumption DEF IInv, TypeInv
  <2> QED BY <1>1, <1>4, <1>5, <2>1, <2>2 DEF IInv, TypeInv
<1>7. TextInv'
  <2>1. ASSUME fmt # "BSON"
        PROVE  \E s, o : Layout(file', log', s, o, Outs) /\ Pending(file', log', s, o, writer', Outs)
    <3>1. PICK s, o : Layout(file', log', s, o, Outs) BY <1>5, <2>1
    <3>2. writer'.lines \in Outs[writer'.data] BY <1>1, <1>2 DEF Outs
    <3>3. Pending(file', log', s, o, writer', Outs) BY <3>2 DEF Pending
    <3> QED BY <3>1, <3>3
  <2> QED BY <1>1, <1>4, <2>1 DEF TextInv
<1>8. BsonInv'
  <2>1. ASSUME fmt = "BSON" PROVE writer'.lines = <<Document(writer'.data)>>
    BY <1>2, <2>1 DEF Output
  <2> QED BY <1>1, <1>5, <2>1 DEF BsonInv, Document, Line
<1> QED BY <1>6, <1>7, <1>8 DEF IInv

LEMMA RefuseKeeps ==
  ASSUME IInv, NEW d \in Datasets, NEW append \in BOOLEAN, Refuse(d, append)
  PROVE  IInv'
<1>1. /\ UNCHANGED <<fmt, kind, got, writer>> /\ Idle /\ Idle'
      /\ writes < MaxWrites /\ writes' = writes + 1
      /\ OpenFile(append) \/ UNCHANGED <<file, made, log>>
  BY DEF Refuse, Idle
<1>2. Agreeing' = Agreeing /\ FileLine' = FileLine /\ Dataset' = Dataset /\ Outs' = Outs BY <1>1, SetsKept
<1>3. /\ file' \in Seq(FileLine) /\ log' \in Seq([data : Agreeing, done : BOOLEAN])
      /\ fmt # "BSON" => \E s, o : Layout(file', log', s, o, Outs)
      /\ fmt = "BSON" => /\ Len(file') = Len(log')
                         /\ \A k \in 1 .. Len(log') : file'[k] = IF log'[k].done THEN Document(log'[k].data) ELSE Line("torn", << >>)
  <2>1. CASE OpenFile(append) BY <1>1, <2>1, OpenFileKeeps
  <2>2. CASE UNCHANGED <<file, made, log>> BY <2>2 DEF IInv, TypeInv, TextInv, BsonInv
  <2> QED BY <1>1, <2>1, <2>2
<1>4. made' \in BOOLEAN /\ (file' # << >> => made')
  <2>0. made \in BOOLEAN /\ (file # << >> => made) BY DEF IInv, TypeInv
  <2>1. CASE OpenFile(append)
    <3>1. made' = TRUE BY <2>1 DEF OpenFile
    <3> QED BY <3>1
  <2>2. CASE UNCHANGED <<file, made, log>> BY <2>0, <2>2
  <2> QED BY <1>1, <2>1, <2>2
<1>5. TypeInv'
  <2>1. writes' \in 0 .. MaxWrites BY <1>1, FilesAssumption DEF IInv, TypeInv
  <2> QED BY <1>1, <1>2, <1>3, <1>4, <2>1 DEF IInv, TypeInv
<1>6. TextInv' BY <1>1, <1>2, <1>3 DEF TextInv
<1>7. BsonInv' BY <1>1, <1>3 DEF BsonInv, Document, Line
<1> QED BY <1>5, <1>6, <1>7 DEF IInv

(* The next line of a text file: the first of an entry, or one more of the   *)
(* last.                                                                     *)
LEMMA WriteText ==
  ASSUME IInv, fmt # "BSON", WriteLine
  PROVE  /\ log' \in Seq([data : Agreeing, done : BOOLEAN])
         /\ \E s, o : /\ Layout(file', log', s, o, Outs)
                      /\ Len(writer.lines) # 1 =>
                           Pending(file', log', s, o, [data |-> writer.data, lines |-> Tail(writer.lines)], Outs)
<1>1. PICK s, o : Layout(file, log, s, o, Outs) /\ (Idle \/ Pending(file, log, s, o, writer, Outs))
  BY DEF IInv, TextInv
<1>2. Text /\ file \in Seq(FileLine) /\ log \in Seq(Log) BY FilesAssumption DEF IInv, TypeInv, Text, Log
<1>3. ~Idle BY DEF WriteLine
<1>4. PICK w, d, n, m : w = writer.lines /\ d = writer.data /\ n = Len(log) /\ m = Len(file) OBVIOUS
<1>5. w \in Seq(FileLine) /\ w # << >> /\ d \in Agreeing BY <1>3, <1>4 DEF IInv, TypeInv
<1>6. PICK t, line, done : t = Tail(w) /\ line = Head(w) /\ done = (Len(w) = 1) OBVIOUS
<1>7. /\ line = w[1] /\ line \in FileLine /\ Len(w) \in Nat /\ Len(w) > 0 /\ done \in BOOLEAN
      /\ Len(t) = Len(w) - 1 /\ \A i \in 1 .. Len(t) : t[i] = w[i + 1]
  BY <1>5, <1>6
<1>8. /\ file' = Append(file, line)
      /\ line.mark \in EntryMarks => log' = Append(log, [data |-> d, done |-> done])
      /\ line.mark \notin EntryMarks => log' = [log EXCEPT ![n].done = done]
  BY <1>4, <1>6 DEF WriteLine
<1>9. n \in Nat /\ m \in Nat BY <1>2, <1>4
<1>10. CASE w \in Outs[d]
  <2>1. IsText(w, d) BY <1>2, <1>5, <1>10, TextOutput DEF Outs, Text
  <2>2. line.mark \in EntryMarks BY <1>7, <2>1 DEF IsText
  <2>3. PICK r : r = [data |-> d, done |-> done] OBVIOUS
  <2>4. r \in Log /\ r.data = d /\ r.done = done BY <1>5, <1>7, <2>3 DEF Log
  <2>5. log' = Append(log, r) BY <1>8, <2>2, <2>3
  <2>6. r.done => Len(w) = 1 BY <1>6, <2>4
  <2>7. PICK s2, o2 : /\ Layout(file', log', s2, o2, Outs)
                      /\ s2[Len(log')] = Len(file') /\ o2[Len(log')] = w
    <3>1. w \in Outs[r.data] BY <1>10, <2>4
    <3>2. Begun(Append(file, line), Append(log, r), w, Outs)
      BY <1>1, <1>2, <1>7, <2>4, <2>6, <3>1, AppendHead
    <3> QED BY <1>8, <2>5, <3>2 DEF Begun
  <2>9. Len(log') = n + 1 /\ log'[n + 1] = r BY <1>2, <1>4, <2>4, <2>5, AppendFacts
  <2>10. Len(file') = m + 1 BY <1>2, <1>4, <1>7, <1>8, AppendFacts
  <2>11. Pending(file', log', s2, o2, [data |-> d, lines |-> t], Outs)
    <3>1. s2[n + 1] = m + 1 /\ o2[n + 1] = w BY <2>7, <2>9, <2>10
    <3>2. Len(file') - s2[Len(log')] + 1 = 1 BY <1>9, <2>9, <2>10, <3>1
    <3>3. Len(o2[Len(log')]) = 1 + Len(t) BY <1>7, <2>9, <3>1
    <3>4. \A i \in 1 .. Len(t) : t[i] = o2[Len(log')][1 + i]
      <4>1. ASSUME NEW i \in 1 .. Len(t) PROVE 1 + i = i + 1 BY <1>7
      <4> QED BY <1>7, <2>9, <3>1, <4>1
    <3>5. Len(log') > 0 /\ log'[Len(log')].data = d BY <1>9, <2>4, <2>9
    <3>6. PICK p : p = [data |-> d, lines |-> t] OBVIOUS
    <3>7. p.data = d /\ p.lines = t BY <3>6
    <3>8. Pending(file', log', s2, o2, p, Outs) BY <3>2, <3>3, <3>4, <3>5, <3>7 DEF Pending
    <3> QED BY <3>6, <3>8
  <2>12. log' \in Seq([data : Agreeing, done : BOOLEAN])
    BY <1>2, <2>4, <2>5, AppendFacts DEF Log
  <2> QED BY <1>4, <1>6, <2>7, <2>11, <2>12
<1>11. CASE w \notin Outs[d]
  <2>1. /\ n > 0 /\ log[n].data = d
        /\ Len(o[n]) = m - s[n] + 1 + Len(w)
        /\ \A i \in 1 .. Len(w) : w[i] = o[n][m - s[n] + 1 + i]
    BY <1>1, <1>3, <1>4, <1>11 DEF Pending
  <2>2. PICK a, b : b = s[n] /\ a = m - b + 1 OBVIOUS
  <2>3. n \in 1 .. n BY <1>9, <2>1
  <2>4. b \in 1 .. m BY <1>1, <1>2, <1>4, <2>2, <2>3, LayoutFacts
  <2>5. a \in Nat /\ a >= 1 BY <1>9, <2>2, <2>4
  <2>6. PICK q : q = o[n] OBVIOUS
  <2>7. Len(q) = a + Len(w) /\ \A i \in 1 .. Len(w) : w[i] = q[a + i] BY <2>1, <2>2, <2>6
  <2>8. Len(q) \in Nat /\ a < Len(q) /\ line = q[a + 1] BY <1>7, <2>5, <2>7
  <2>9. line.mark \notin EntryMarks
    <3>1. Headed(log, o) BY <1>1, <1>2, TextFacts
    <3>2. \A i \in 2 .. Len(q) : q[i].mark \notin EntryMarks BY <1>4, <2>3, <2>6, <3>1 DEF Headed
    <3>3. a + 1 \in 2 .. Len(q) BY <2>5, <2>8
    <3> QED BY <2>8, <3>2, <3>3
  <2>10. PICK r : r = [log[n] EXCEPT !.done = done] OBVIOUS
  <2>11. log[n] \in Log BY <1>2, <1>4, <2>3
  <2>12. r \in Log /\ r.data = log[n].data /\ r.done = done BY <1>7, <2>10, <2>11 DEF Log
  <2>13. log' = [log EXCEPT ![n] = r] BY <1>8, <2>9, <2>10
  <2>14. r.done => a + 1 = Len(q) BY <1>6, <1>7, <2>5, <2>7, <2>12
  <2>15. Layout(Append(file, line), [log EXCEPT ![n] = r], s, o, Outs)
    <3>1. Len(log) > 0 /\ r.data = log[Len(log)].data BY <1>4, <2>1, <2>12
    <3>2. a = Len(file) - s[Len(log)] + 1 BY <1>4, <2>2
    <3>3. Len(o[Len(log)]) \in Nat /\ a < Len(o[Len(log)]) /\ line = o[Len(log)][a + 1]
      BY <1>4, <2>6, <2>8
    <3>4. r.done => a + 1 = Len(o[Len(log)]) BY <1>4, <2>6, <2>14
    <3> QED BY <1>1, <1>2, <1>4, <1>7, <3>1, <3>2, <3>3, <3>4, AppendRow
  <2>16. Layout(file', log', s, o, Outs) BY <1>8, <2>13, <2>15
  <2>17. log' \in Seq(Log) /\ Len(log') = n /\ log'[n] = r
    <3>1. PICK g : g = log OBVIOUS
    <3>2. g \in Seq(Log) /\ Len(g) = n BY <1>2, <1>4, <3>1
    <3>3. [g EXCEPT ![n] = r] \in Seq(Log) /\ Len([g EXCEPT ![n] = r]) = n /\ [g EXCEPT ![n] = r][n] = r
      BY <2>3, <2>12, <3>2
    <3> QED BY <2>13, <3>1, <3>3
  <2>18. Len(file') = m + 1 BY <1>2, <1>4, <1>7, <1>8, AppendFacts
  <2>19. Pending(file', log', s, o, [data |-> d, lines |-> t], Outs)
    <3>1. Len(file') - s[Len(log')] + 1 = a + 1 BY <1>9, <2>2, <2>4, <2>17, <2>18
    <3>2. o[Len(log')] = q BY <2>6, <2>17
    <3>3. Len(q) = a + 1 + Len(t) BY <1>7, <2>5, <2>7
    <3>4. ASSUME NEW i \in 1 .. Len(t) PROVE t[i] = q[a + 1 + i]
      <4>1. t[i] = w[i + 1] BY <1>7
      <4>2. i + 1 \in 1 .. Len(w) /\ a + (i + 1) = a + 1 + i BY <1>7, <2>5
      <4> QED BY <2>7, <4>1, <4>2
    <3>5. Len(log') > 0 /\ log'[Len(log')].data = d BY <2>1, <2>12, <2>17
    <3>6. PICK p : p = [data |-> d, lines |-> t] OBVIOUS
    <3>7. p.data = d /\ p.lines = t BY <3>6
    <3>8. Pending(file', log', s, o, p, Outs) BY <3>1, <3>2, <3>3, <3>4, <3>5, <3>7 DEF Pending
    <3> QED BY <3>6, <3>8
  <2> QED BY <1>4, <1>6, <2>16, <2>17, <2>19 DEF Log
<1> QED BY <1>10, <1>11

(* A document that is written is a whole entry. *)
LEMMA WriteDocument ==
  ASSUME IInv, fmt = "BSON", WriteLine
  PROVE  /\ log' \in Seq([data : Agreeing, done : BOOLEAN]) /\ Len(writer.lines) = 1
         /\ Len(file') = Len(log')
         /\ \A k \in 1 .. Len(log') : file'[k] = IF log'[k].done THEN Document(log'[k].data) ELSE Line("torn", << >>)
<1>1. PICK d : d = writer.data OBVIOUS
<1>2. ~Idle BY DEF WriteLine
<1>3. writer.lines = <<Document(d)>> /\ d \in Agreeing
  BY <1>1, <1>2 DEF IInv, TypeInv, BsonInv
<1>4. Len(writer.lines) = 1 /\ Head(writer.lines) = Document(d) BY <1>3
<1>5. Document(d).mark = "doc" BY LineFields DEF Document
<1>6. PICK r : r = [data |-> d, done |-> TRUE] OBVIOUS
<1>7. file' = Append(file, Document(d)) /\ log' = Append(log, r)
  BY <1>1, <1>4, <1>5, <1>6 DEF WriteLine, EntryMarks
<1>8. file \in Seq(FileLine) /\ log \in Seq(Log) BY DEF IInv, TypeInv, Log
<1>9. Document(d) \in FileLine BY <1>3 DEF FileLine, Agreeing
<1>10. r \in Log /\ r.data = d /\ r.done = TRUE BY <1>3, <1>6 DEF Log
<1>11. PICK n : n = Len(log) OBVIOUS
<1>12. /\ n \in Nat /\ Len(file) = n
       /\ \A k \in 1 .. n : file[k] = IF log[k].done THEN Document(log[k].data) ELSE Line("torn", << >>)
  BY <1>8, <1>11 DEF IInv, BsonInv
<1>13. /\ log' \in Seq(Log) /\ Len(log') = n + 1 /\ log'[n + 1] = r /\ \A k \in 1 .. n : log'[k] = log[k]
       /\ Len(file') = n + 1 /\ file'[n + 1] = Document(d) /\ \A k \in 1 .. n : file'[k] = file[k]
  BY <1>7, <1>8, <1>9, <1>10, <1>11, <1>12, AppendFacts
<1>14. ASSUME NEW k \in 1 .. n + 1
       PROVE  file'[k] = IF log'[k].done THEN Document(log'[k].data) ELSE Line("torn", << >>)
  <2>1. CASE k = n + 1 BY <1>10, <1>13, <2>1
  <2>2. CASE k # n + 1
    <3>1. k \in 1 .. n BY <1>12, <2>2
    <3> QED BY <1>12, <1>13, <3>1
  <2> QED BY <2>1, <2>2
<1> QED BY <1>4, <1>13, <1>14 DEF Log

LEMMA WriteKeeps ==
  ASSUME IInv, WriteLine
  PROVE  IInv'
<1>1. UNCHANGED <<fmt, kind, made, writes, got>> /\ ~Idle BY DEF WriteLine
<1>2. Agreeing' = Agreeing /\ FileLine' = FileLine /\ Dataset' = Dataset /\ Outs' = Outs BY <1>1, SetsKept
<1>3. PICK w, d : w = writer.lines /\ d = writer.data OBVIOUS
<1>4. w \in Seq(FileLine) /\ w # << >> /\ d \in Agreeing /\ writer = [data |-> d, lines |-> w] /\ made
  BY <1>1, <1>3 DEF IInv, TypeInv
<1>5. Head(w) \in FileLine /\ Tail(w) \in Seq(FileLine) /\ Len(w) \in Nat /\ (Tail(w) = << >> <=> Len(w) = 1)
  <2>1. w \in Seq(FileLine) /\ w # << >> BY <1>4
  <2>2. Head(w) \in FileLine /\ Tail(w) \in Seq(FileLine) /\ Len(w) \in Nat BY <2>1
  <2>3. Tail(w) = << >> <=> Len(Tail(w)) = 0
    <3>1. PICK t : t = Tail(w) OBVIOUS
    <3>2. t \in Seq(FileLine) BY <2>2, <3>1
    <3>3. t = << >> <=> Len(t) = 0 BY <3>2
    <3> QED BY <3>1, <3>3
  <2>4. Len(Tail(w)) = Len(w) - 1 BY <2>1
  <2> QED BY <2>2, <2>3, <2>4
<1>6. writer' = IF Len(w) = 1 THEN Closed ELSE [data |-> d, lines |-> Tail(w)]
  <2>1. writer' = CloseWriter(Tail(w)) BY <1>3 DEF WriteLine
  <2>2. CASE Len(w) = 1 BY <1>5, <2>1, <2>2 DEF CloseWriter
  <2>3. CASE Len(w) # 1
    <3>1. writer' = [writer EXCEPT !.lines = Tail(w)] BY <1>5, <2>1, <2>3 DEF CloseWriter
    <3>2. PICK t : t = Tail(w) OBVIOUS
    <3>3. writer = [data |-> d, lines |-> w] BY <1>4
    <3>4. [writer EXCEPT !.lines = t] = [data |-> d, lines |-> t] BY <3>3
    <3> QED BY <2>3, <3>1, <3>2, <3>4
  <2> QED BY <2>2, <2>3
<1>7. file' \in Seq(FileLine)
  <2>1. file' = Append(file, Head(w)) BY <1>3 DEF WriteLine
  <2> QED BY <1>5, <2>1, AppendFacts DEF IInv, TypeInv
<1>8. log' \in Seq([data : Agreeing, done : BOOLEAN]) BY WriteText, WriteDocument
<1>9. Idle' \/ writer' \in [data : Agreeing, lines : Seq(FileLine) \ {<< >>}]
  BY <1>4, <1>5, <1>6 DEF Idle, Closed
<1>10. TypeInv'
  BY <1>1, <1>2, <1>4, <1>7, <1>8, <1>9 DEF IInv, TypeInv
<1>11. TextInv'
  <2>1. ASSUME fmt # "BSON"
        PROVE  \E s, o : Layout(file', log', s, o, Outs) /\ (Idle' \/ Pending(file', log', s, o, writer', Outs))
    <3>1. PICK s, o : /\ Layout(file', log', s, o, Outs)
                      /\ Len(w) # 1 => Pending(file', log', s, o, [data |-> d, lines |-> Tail(w)], Outs)
      BY <1>3, <2>1, WriteText
    <3>2. CASE Len(w) = 1
      <4>1. Idle' BY <1>6, <3>2 DEF Idle, Closed
      <4> QED BY <3>1, <4>1
    <3>3. CASE Len(w) # 1 BY <1>6, <3>1, <3>3
    <3> QED BY <3>2, <3>3
  <2> QED BY <1>1, <1>2, <2>1 DEF TextInv
<1>12. BsonInv'
  <2>1. ASSUME fmt = "BSON" PROVE Idle'
    <3>1. Len(w) = 1 BY <1>3, <2>1, WriteDocument
    <3> QED BY <1>6, <3>1 DEF Idle, Closed
  <2>2. fmt = "BSON" => /\ Len(file') = Len(log')
                        /\ \A k \in 1 .. Len(log') : file'[k] = IF log'[k].done THEN Document(log'[k].data) ELSE Line("torn", << >>)
    BY WriteDocument
  <2> QED BY <1>1, <2>1, <2>2 DEF BsonInv, Document, Line
<1> QED BY <1>10, <1>11, <1>12 DEF IInv

LEMMA CrashKeeps ==
  ASSUME IInv, Crash
  PROVE  IInv'
<1>1. UNCHANGED <<fmt, kind, made, writes, got>> /\ ~Idle /\ Idle' BY DEF Crash, Idle
<1>2. Agreeing' = Agreeing /\ FileLine' = FileLine /\ Dataset' = Dataset /\ Outs' = Outs BY <1>1, SetsKept
<1>3. CASE UNCHANGED <<file, log>>
  <2>1. TypeInv' BY <1>1, <1>2, <1>3 DEF IInv, TypeInv
  <2>2. TextInv' BY <1>1, <1>2, <1>3 DEF IInv, TextInv
  <2>3. BsonInv' BY <1>1, <1>3 DEF IInv, BsonInv, Document, Line
  <2> QED BY <2>1, <2>2, <2>3 DEF IInv
<1>4. CASE ~UNCHANGED <<file, log>>
  <2>1. PICK d, r, line : d = writer.data /\ r = [data |-> d, done |-> FALSE] /\ line = Line("torn", << >>) OBVIOUS
  <2>2. fmt = "BSON" /\ file' = Append(file, line) /\ log' = Append(log, r) BY <1>4, <2>1 DEF Crash
  <2>3. d \in Agreeing /\ made BY <1>1, <2>1 DEF IInv, TypeInv
  <2>4. r \in Log /\ r.done = FALSE BY <2>1, <2>3 DEF Log
  <2>5. line \in FileLine BY <2>1 DEF FileLine
  <2>6. file \in Seq(FileLine) /\ log \in Seq(Log) BY DEF IInv, TypeInv, Log
  <2>7. PICK n : n = Len(log) OBVIOUS
  <2>8. /\ n \in Nat /\ Len(file) = n
        /\ \A k \in 1 .. n : file[k] = IF log[k].done THEN Document(log[k].data) ELSE Line("torn", << >>)
    BY <2>2, <2>6, <2>7 DEF IInv, BsonInv
  <2>9. /\ log' \in Seq(Log) /\ Len(log') = n + 1 /\ log'[n + 1] = r /\ \A k \in 1 .. n : log'[k] = log[k]
        /\ file' \in Seq(FileLine) /\ Len(file') = n + 1 /\ file'[n + 1] = line /\ \A k \in 1 .. n : file'[k] = file[k]
    BY <2>2, <2>4, <2>5, <2>6, <2>7, <2>8, AppendFacts
  <2>10. ASSUME NEW k \in 1 .. n + 1
         PROVE  file'[k] = IF log'[k].done THEN Document(log'[k].data) ELSE Line("torn", << >>)
    <3>1. CASE k = n + 1 BY <2>1, <2>4, <2>9, <3>1
    <3>2. CASE k # n + 1
      <4>1. k \in 1 .. n BY <2>8, <3>2
      <4> QED BY <2>8, <2>9, <4>1
    <3> QED BY <3>1, <3>2
  <2>11. TypeInv' BY <1>1, <1>2, <2>3, <2>9 DEF IInv, TypeInv, Log
  <2>12. TextInv' BY <1>1, <2>2 DEF TextInv
  <2>13. BsonInv' BY <1>1, <2>9, <2>10 DEF BsonInv, Document, Line
  <2> QED BY <2>11, <2>12, <2>13 DEF IInv
<1> QED BY <1>3, <1>4

(* What a reader of text leaves: nothing, or what TextRead says. *)
LEMMA ReadTextFacts ==
  ASSUME IInv, NEW k \in Nat \ {0}, ReadText(k)
  PROVE  /\ Text
         /\ \/ ~made /\ got' = [status |-> "false", data |-> Empty]
            \/ made /\ got' = [status |-> "true", data |-> got'.data] /\ ReadOf(got'.data, k)
<1>1. Text /\ fmt # "BSON" BY FilesAssumption DEF IInv, TypeInv, ReadText, Text
<1>2. file \in Seq(FileLine) /\ log \in Seq(Log) BY DEF IInv, TypeInv, Log
<1>3. PICK s, o : Layout(file, log, s, o, Outs) BY <1>1 DEF IInv, TextInv
<1>4. CASE made
  <2>1. PICK e \in TextEntries(k) : got' = [status |-> "true", data |-> e] BY <1>4 DEF ReadText
  <2>2. ReadOf(e, k) BY <1>1, <1>2, <1>3, TextRead
  <2>3. got'.data = e BY <2>1
  <2> QED BY <1>1, <1>4, <2>1, <2>2, <2>3
<1>5. CASE ~made BY <1>1, <1>5 DEF ReadText
<1> QED BY <1>4, <1>5

(* What a reader of BSON leaves. *)
LEMMA ReadBsonFacts ==
  ASSUME IInv, NEW k \in Nat \ {0}, ReadBson(k)
  PROVE  \/ /\ k \in 1 .. Len(log) /\ \A i \in 1 .. k : log[i].done
            /\ got' = [status |-> "true", data |-> log[k].data]
         \/ /\ ~(k \in 1 .. Len(log) /\ \A i \in 1 .. k : log[i].done)
            /\ got' = [got EXCEPT !.status = "false"] \/ got' = [got EXCEPT !.status = "throws"]
<1>1. PICK n : n = Len(log) OBVIOUS
<1>2. file \in Seq(FileLine) /\ log \in Seq(Log) /\ fmt = "BSON" BY DEF IInv, TypeInv, Log, ReadBson
<1>3. /\ n \in Nat /\ Len(file) = n
      /\ \A i \in 1 .. n : file[i] = IF log[i].done THEN Document(log[i].data) ELSE Line("torn", << >>)
  BY <1>1, <1>2 DEF IInv, BsonInv
<1>4. ASSUME NEW i \in 1 .. n PROVE file[i].mark = "torn" <=> ~log[i].done
  <2>1. CASE log[i].done
    <3>1. file[i] = Line("doc", log[i].data) BY <1>3, <2>1 DEF Document
    <3>2. Line("doc", log[i].data).mark = "doc" BY LineFields
    <3> QED BY <2>1, <3>1, <3>2
  <2>2. CASE ~log[i].done
    <3>1. file[i] = Line("torn", << >>) BY <1>3, <2>2
    <3>2. Line("torn", << >>).mark = "torn" BY LineFields
    <3> QED BY <2>2, <3>1, <3>2
  <2> QED BY <2>1, <2>2
<1>5. Torn = {i \in 1 .. n : ~log[i].done}
  <2>1. DOMAIN file = 1 .. n BY <1>2, <1>3
  <2> QED BY <1>4, <2>1 DEF Torn
<1>6. SizesRead(k) <=> k \in 1 .. n /\ \A i \in 1 .. k : log[i].done
  <2>1. ASSUME SizesRead(k) PROVE k \in 1 .. n /\ \A i \in 1 .. k : log[i].done
    <3>1. k \in 1 .. n BY <1>3, <2>1 DEF SizesRead
    <3>2. ASSUME NEW i \in 1 .. k, ~log[i].done PROVE FALSE
      <4>1. i \in 1 .. n BY <1>3, <3>1
      <4>2. i \in Torn BY <1>5, <3>2, <4>1
      <4>3. i > k BY <2>1, <4>2 DEF SizesRead, Aligned
      <4> QED BY <4>3
    <3> QED BY <3>1, <3>2
  <2>2. ASSUME k \in 1 .. n, \A i \in 1 .. k : log[i].done PROVE SizesRead(k)
    <3>1. k <= Len(file) BY <1>3, <2>2
    <3>2. ASSUME NEW i \in Torn PROVE i > k
      <4>1. i \in 1 .. n /\ ~log[i].done BY <1>5
      <4>2. i \notin 1 .. k BY <2>2, <4>1
      <4> QED BY <1>3, <4>1, <4>2
    <3> QED BY <3>1, <3>2 DEF SizesRead, Aligned
  <2> QED BY <2>1, <2>2
<1>7. CASE SizesRead(k)
  <2>1. k \in 1 .. n /\ \A i \in 1 .. k : log[i].done BY <1>6, <1>7
  <2>2. k \in 1 .. k BY <2>1
  <2>3. file[k] = Line("doc", log[k].data) BY <1>3, <2>1, <2>2 DEF Document
  <2>4. file[k].vals = log[k].data
    <3>1. Line("doc", log[k].data).vals = log[k].data BY LineFields
    <3> QED BY <2>3, <3>1
  <2>5. Aligned(k) BY <1>7 DEF SizesRead
  <2>6. got' = [status |-> "true", data |-> file[k].vals] BY <1>7, <2>5 DEF ReadBson
  <2> QED BY <1>1, <2>1, <2>4, <2>6
<1>8. CASE ~SizesRead(k)
  <2>1. got' = [got EXCEPT !.status = "false"] \/ got' = [got EXCEPT !.status = "throws"]
    BY <1>8 DEF ReadBson
  <2> QED BY <1>1, <1>6, <1>8, <2>1
<1> QED BY <1>7, <1>8

LEMMA ReadKeeps ==
  ASSUME IInv, NEW k \in Nat \ {0}, Read(k)
  PROVE  IInv'
<1>1. UNCHANGED <<fmt, kind, file, made, writer, writes, log>> BY DEF Read
<1>2. Agreeing' = Agreeing /\ FileLine' = FileLine /\ Dataset' = Dataset /\ Outs' = Outs BY <1>1, SetsKept
<1>3. Idle' <=> Idle BY <1>1 DEF Idle
<1>4. got' \in [status : {"none", "true", "false", "throws"}, data : Dataset]
  <2>1. CASE ReadText(k)
    <3>1. Empty \in Dataset BY EmptyFacts DEF IInv, TypeInv
    <3>2. CASE ~made /\ got' = [status |-> "false", data |-> Empty] BY <3>1, <3>2
    <3>3. CASE got' = [status |-> "true", data |-> got'.data] /\ ReadOf(got'.data, k)
      <4>1. got'.data \in Dataset BY <3>3 DEF ReadOf
      <4> QED BY <3>3, <4>1
    <3> QED BY <2>1, <3>2, <3>3, ReadTextFacts
  <2>2. CASE ReadBson(k)
    <3>1. got \in [status : {"none", "true", "false", "throws"}, data : Dataset] BY DEF IInv, TypeInv
    <3>2. CASE k \in 1 .. Len(log) /\ got' = [status |-> "true", data |-> log[k].data]
      <4>1. log \in Seq(Log) /\ kind \in {"spec", "matrix"} BY DEF IInv, TypeInv, Log
      <4>2. log[k] \in Log BY <3>2, <4>1
      <4>3. log[k].data \in Agreeing BY <4>2 DEF Log
      <4>4. log[k].data \in Dataset BY <4>1, <4>3, AgreeingDatasets
      <4> QED BY <3>2, <4>4
    <3>3. CASE got' = [got EXCEPT !.status = "false"] \/ got' = [got EXCEPT !.status = "throws"]
      BY <3>1, <3>3
    <3> QED BY <2>2, <3>2, <3>3, ReadBsonFacts
  <2> QED BY <2>1, <2>2 DEF Read
<1>5. TypeInv' BY <1>1, <1>2, <1>3, <1>4 DEF IInv, TypeInv
<1>6. TextInv' BY <1>1, <1>2, <1>3 DEF IInv, TextInv
<1>7. BsonInv' BY <1>1, <1>3 DEF IInv, BsonInv, Document, Line
<1> QED BY <1>5, <1>6, <1>7 DEF IInv

LEMMA StutterKeeps == IInv /\ UNCHANGED vars => IInv'
<1> SUFFICES ASSUME IInv, UNCHANGED vars PROVE IInv' OBVIOUS
<1>1. UNCHANGED <<fmt, kind, file, made, writer, writes, log, got>> BY DEF vars
<1>2. Agreeing' = Agreeing /\ FileLine' = FileLine /\ Dataset' = Dataset /\ Outs' = Outs BY <1>1, SetsKept
<1>3. Idle' <=> Idle BY <1>1 DEF Idle
<1>4. TypeInv' BY <1>1, <1>2, <1>3 DEF IInv, TypeInv
<1>5. TextInv' BY <1>1, <1>2, <1>3 DEF IInv, TextInv
<1>6. BsonInv' BY <1>1, <1>3 DEF IInv, BsonInv, Document, Line
<1> QED BY <1>4, <1>5, <1>6 DEF IInv

LEMMA StepInv == IInv /\ [Next]_vars => IInv'
<1> SUFFICES ASSUME IInv, [Next]_vars PROVE IInv' OBVIOUS
<1>1. CASE Write
  <2>1. PICK d \in Datasets, append \in BOOLEAN : Open(d, append) \/ Refuse(d, append) BY <1>1 DEF Write
  <2> QED BY <2>1, OpenKeeps, RefuseKeeps
<1>2. CASE WriteLine BY <1>2, WriteKeeps
<1>3. CASE Crash BY <1>3, CrashKeeps
<1>4. CASE \E k \in 1 .. MaxEntry : Read(k)
  <2>1. PICK k \in 1 .. MaxEntry : Read(k) BY <1>4
  <2>2. k \in Nat \ {0} BY FilesAssumption
  <2> QED BY <2>1, <2>2, ReadKeeps
<1>5. CASE UNCHANGED vars BY <1>5, StutterKeeps
<1> QED BY <1>1, <1>2, <1>3, <1>4, <1>5 DEF Next

(* The text is made of the entries of the log, each the beginning of what   *)
(* was to be written of it, and a BSON file of its documents.                *)
THEOREM EntriesKept == Spec => []IInv
<1> QED BY InitInv, StepInv, PTL DEF Spec
-----------------------------------------------------------------------------
(* The properties *)

LEMMA DocumentsCounted ==
  ASSUME IInv, fmt = "BSON"
  PROVE  Len(log) = Cardinality(Heads)
<1>1. PICK n : n = Len(log) OBVIOUS
<1>2. file \in Seq(FileLine) /\ log \in Seq(Log) BY DEF IInv, TypeInv, Log
<1>3. /\ n \in Nat /\ Len(file) = n
      /\ \A i \in 1 .. n : file[i] = IF log[i].done THEN Document(log[i].data) ELSE Line("torn", << >>)
  BY <1>1, <1>2 DEF IInv, BsonInv
<1>4. ASSUME NEW i \in 1 .. n PROVE file[i].mark \in EntryMarks
  <2>1. CASE log[i].done
    <3>1. file[i] = Line("doc", log[i].data) BY <1>3, <2>1 DEF Document
    <3>2. Line("doc", log[i].data).mark = "doc" BY LineFields
    <3> QED BY <3>1, <3>2 DEF EntryMarks
  <2>2. CASE ~log[i].done
    <3>1. file[i] = Line("torn", << >>) BY <1>3, <2>2
    <3>2. Line("torn", << >>).mark = "torn" BY LineFields
    <3> QED BY <3>1, <3>2 DEF EntryMarks
  <2> QED BY <2>1, <2>2
<1>5. DOMAIN file = 1 .. n BY <1>2, <1>3
<1>6. Heads = 1 .. n BY <1>4, <1>5 DEF Heads
<1>7. Cardinality(1 .. n) = n
  <2>1. 1 \in Int /\ n \in Int /\ n - 1 + 1 = n BY <1>3
  <2>2. Cardinality(1 .. n) = IF 1 > n THEN 0 ELSE n - 1 + 1 BY <2>1, FS_Interval
  <2> QED BY <1>3, <2>1, <2>2
<1> QED BY <1>1, <1>6, <1>7

LEMMA InvType == IInv => TypeOK
<1> SUFFICES ASSUME IInv PROVE TypeOK OBVIOUS
<1>1. /\ fmt \in Formats /\ kind \in {"spec", "matrix"} /\ made \in BOOLEAN /\ writes \in 0 .. MaxWrites
      /\ (file # << >> => made) /\ file \in Seq(FileLine) /\ log \in Seq(Log)
      /\ got \in [status : {"none", "true", "false", "throws"}, data : Dataset]
  BY DEF IInv, TypeInv, Log
<1>2. Len(log) = Cardinality(Heads)
  <2>1. CASE fmt = "BSON" BY <2>1, DocumentsCounted
  <2>2. CASE fmt # "BSON"
    <3>1. PICK s, o : Layout(file, log, s, o, Outs) BY <2>2 DEF IInv, TextInv
    <3>2. Text BY <1>1, <2>2, FilesAssumption DEF Text
    <3> QED BY <1>1, <3>1, <3>2, HeadFacts
  <2> QED BY <2>1, <2>2
<1>3. \A i \in DOMAIN log : log[i].data \in Datasets /\ log[i].done \in BOOLEAN
  <2>1. ASSUME NEW i \in DOMAIN log PROVE log[i].data \in Datasets /\ log[i].done \in BOOLEAN
    <3>1. log[i] \in Log BY <1>1
    <3> QED BY <3>1 DEF Log, Agreeing
  <2> QED BY <2>1
<1>4. Idle \/ (writer.data \in Datasets /\ writer.lines # << >>)
  BY DEF IInv, TypeInv, Agreeing
<1>5. got.status \in {"none", "true", "false", "throws"} /\ got.data \in Dataset BY <1>1
<1> QED BY <1>1, <1>2, <1>3, <1>4, <1>5 DEF TypeOK

(* The variables keep their types, and the headers in a file, text or BSON,  *)
(* are as many as the entries that were begun (IO.cc writes no line that     *)
(* could be taken for another entry's header).                               *)
THEOREM TypeCorrect == Spec => []TypeOK
<1> QED BY EntriesKept, InvType, PTL

LEMMA SameSeq ==
  ASSUME NEW S, NEW u \in Seq(S), NEW v \in Seq(S), Len(u) = Len(v), \A i \in 1 .. Len(u) : u[i] = v[i]
  PROVE  u = v
OBVIOUS

LEMMA PrefixOf ==
  ASSUME NEW S, NEW u \in Seq(S), NEW v \in Seq(S), Len(u) <= Len(v), \A i \in 1 .. Len(u) : u[i] = v[i]
  PROVE  IsPrefix(u, v)
BY DEF IsPrefix

(* A dataset with all the rows of another has the same rows, and one with    *)
(* the first of them a prefix of them.                                       *)
LEMMA WholeRows ==
  ASSUME Text, log \in Seq(Log), NEW k, NEW e \in Dataset, Truncated(e, Meant(k), NumRows(Meant(k)))
  PROVE  RowsOf(e) = RowsOf(Meant(k))
<1>1. PICK d, n : d = Meant(k) /\ n = NumRows(d) OBVIOUS
<1>2. CASE kind = "spec"
  <2>1. PICK x, y, u, v : x = d.E /\ y = d.F /\ u = e.E /\ v = e.F OBVIOUS
  <2>2. x \in Seq(Number) /\ y \in Seq(Number) /\ Len(x) = n /\ Len(y) = n
    BY <1>1, <1>2, <2>1, MeantSpectrum DEF IsSpectrum
  <2>3. u \in Seq(Number) /\ v \in Seq(Number) BY <1>2, <2>1 DEF Dataset, Flux
  <2>4. Len(u) = n /\ Len(v) = n /\ \A i \in 1 .. n : u[i] = x[i] /\ v[i] = y[i]
    BY <1>1, <1>2, <2>1 DEF Truncated
  <2>5. u = x /\ v = y BY <2>2, <2>3, <2>4, SameSeq
  <2> QED BY <1>1, <1>2, <2>1, <2>5 DEF RowsOf
<1>3. CASE kind = "matrix"
  <2>1. PICK y, v : y = d.M /\ v = e.M OBVIOUS
  <2>2. y \in Seq(Seq(Number)) /\ Len(y) = n BY <1>1, <1>3, <2>1, MeantMatrix DEF IsMatrix
  <2>3. v \in Seq(Seq(Number)) BY <1>3, <2>1 DEF Dataset, Matrix
  <2>4. Len(v) = n /\ \A i \in 1 .. n : v[i] = y[i] BY <1>1, <1>3, <2>1 DEF Truncated
  <2>5. v = y BY <2>2, <2>3, <2>4, SameSeq
  <2>6. CASE fmt = "CSV" BY <1>1, <1>3, <2>1, <2>5, <2>6 DEF RowsOf
  <2>7. CASE fmt = "TXT"
    <3>1. PICK x, u : x = d.ETOA /\ u = e.ETOA OBVIOUS
    <3>2. x \in Seq(Number) /\ Len(x) = n BY <1>1, <1>3, <3>1, MeantMatrix DEF IsMatrix
    <3>3. u \in Seq(Number) BY <1>3, <3>1 DEF Dataset, Matrix
    <3>4. Len(u) = n /\ \A i \in 1 .. n : u[i] = x[i] BY <1>1, <1>3, <2>7, <3>1 DEF Truncated
    <3>5. u = x BY <3>2, <3>3, <3>4, SameSeq
    <3> QED BY <1>1, <1>3, <2>1, <2>5, <2>7, <3>1, <3>5 DEF RowsOf
  <2> QED BY <2>6, <2>7 DEF Text
<1> QED BY <1>2, <1>3 DEF Text

LEMMA FirstRowsPrefix ==
  ASSUME Text, log \in Seq(Log), NEW k, NEW e \in Dataset, NEW c \in 0 .. NumRows(Meant(k)),
         Truncated(e, Meant(k), c), NEW i \in DOMAIN RowsOf(e)
  PROVE  IsPrefix(RowsOf(e)[i], RowsOf(Meant(k))[i])
<1>1. PICK d, n : d = Meant(k) /\ n = NumRows(d) OBVIOUS
<1>2. CASE kind = "spec"
  <2>1. PICK x, y, u, v : x = d.E /\ y = d.F /\ u = e.E /\ v = e.F OBVIOUS
  <2>2. n \in Nat /\ x \in Seq(Number) /\ y \in Seq(Number) /\ Len(x) = n /\ Len(y) = n
    BY <1>1, <1>2, <2>1, MeantSpectrum DEF IsSpectrum
  <2>3. u \in Seq(Number) /\ v \in Seq(Number) BY <1>2, <2>1 DEF Dataset, Flux
  <2>4. Len(u) = c /\ Len(v) = c /\ \A j \in 1 .. c : u[j] = x[j] /\ v[j] = y[j]
    BY <1>1, <1>2, <2>1 DEF Truncated
  <2>5. c <= n BY <1>1, <2>2
  <2>6. IsPrefix(u, x) /\ IsPrefix(v, y) BY <2>2, <2>3, <2>4, <2>5, PrefixOf
  <2>7. RowsOf(e) = <<u, v>> /\ RowsOf(d) = <<x, y>> BY <1>2, <2>1 DEF RowsOf
  <2>8. i \in {1, 2} BY <2>7
  <2> QED BY <1>1, <2>6, <2>7, <2>8
<1>3. CASE kind = "matrix"
  <2>1. PICK y, v : y = d.M /\ v = e.M OBVIOUS
  <2>2. n \in Nat /\ y \in Seq(Seq(Number)) /\ Len(y) = n BY <1>1, <1>3, <2>1, MeantMatrix DEF IsMatrix
  <2>3. v \in Seq(Seq(Number)) BY <1>3, <2>1 DEF Dataset, Matrix
  <2>4. Len(v) = c /\ \A j \in 1 .. c : v[j] = y[j] BY <1>1, <1>3, <2>1 DEF Truncated
  <2>5. c <= n BY <1>1, <2>2
  <2>6. IsPrefix(v, y) BY <2>2, <2>3, <2>4, <2>5, PrefixOf
  <2>7. CASE fmt = "CSV"
    <3>1. RowsOf(e) = <<v>> /\ RowsOf(d) = <<y>> BY <1>3, <2>1, <2>7 DEF RowsOf
    <3>2. i = 1 BY <3>1
    <3> QED BY <1>1, <2>6, <3>1, <3>2
  <2>8. CASE fmt = "TXT"
    <3>1. PICK x, u : x = d.ETOA /\ u = e.ETOA OBVIOUS
    <3>2. x \in Seq(Number) /\ Len(x) = n BY <1>1, <1>3, <3>1, MeantMatrix DEF IsMatrix
    <3>3. u \in Seq(Number) BY <1>3, <3>1 DEF Dataset, Matrix
    <3>4. Len(u) = c /\ \A j \in 1 .. c : u[j] = x[j] BY <1>1, <1>3, <2>8, <3>1 DEF Truncated
    <3>5. IsPrefix(u, x) BY <2>5, <3>2, <3>3, <3>4, PrefixOf
    <3>6. RowsOf(e) = <<u, v>> /\ RowsOf(d) = <<x, y>> BY <1>3, <2>1, <2>8, <3>1 DEF RowsOf
    <3>7. i \in {1, 2} BY <3>6
    <3> QED BY <1>1, <2>6, <3>5, <3>6, <3>7
  <2> QED BY <2>7, <2>8 DEF Text
<1> QED BY <1>2, <1>3 DEF Text

LEMMA FinishedStep ==
  ASSUME IInv, NEW k \in DOMAIN log, Read(k), log[k].done, Readable(k), fmt = "BSON" => \A i \in 1 .. k : log[i].done
  PROVE  got'.status = "true" /\ RowsOf(got'.data) = RowsOf(log[k].data)
<1>1. file \in Seq(FileLine) /\ log \in Seq(Log) BY DEF IInv, TypeInv, Log
<1>2. k \in 1 .. Len(log) /\ k \in Nat \ {0} BY <1>1
<1>3. CASE ReadText(k)
  <2>1. Text BY <1>2, <1>3, ReadTextFacts
  <2>2. made
    <3>1. PICK s, o : Layout(file, log, s, o, Outs) BY <1>3 DEF IInv, TextInv, ReadText
    <3>2. s[k] \in 1 .. Len(file) BY <1>2, <3>1 DEF Layout
    <3>3. file # << >> BY <1>1, <3>2
    <3> QED BY <3>3 DEF IInv, TypeInv
  <2>3. PICK e : e = got'.data OBVIOUS
  <2>4. got'.status = "true" /\ ReadOf(e, k) BY <1>2, <1>3, <2>2, <2>3, ReadTextFacts
  <2>5. e \in Dataset /\ Truncated(e, Meant(k), NumRows(Meant(k))) BY <1>2, <2>4 DEF ReadOf
  <2>6. RowsOf(e) = RowsOf(Meant(k)) BY <1>1, <2>1, <2>5, WholeRows
  <2>7. Meant(k) = log[k].data BY <1>2 DEF Meant
  <2> QED BY <2>3, <2>4, <2>6, <2>7
<1>4. CASE ReadBson(k)
  <2>1. fmt = "BSON" BY <1>4 DEF ReadBson
  <2>2. got' = [status |-> "true", data |-> log[k].data] BY <1>2, <1>4, <2>1, ReadBsonFacts
  <2> QED BY <2>2
<1> QED BY <1>3, <1>4 DEF Read

(* A finished entry is read back, whatever was begun, broken off or is still *)
(* being written after it (readspec and readmatrix against writespec and     *)
(* writematrix).                                                             *)
THEOREM FinishedIsRead == Spec => FinishedRead
<1> DEFINE A == \A k \in DOMAIN log :
                  Read(k) /\ log[k].done /\ Readable(k) /\ (fmt = "BSON" => \A i \in 1 .. k : log[i].done)
                    => got'.status = "true" /\ RowsOf(got'.data) = RowsOf(log[k].data)
<1>1. IInv => A BY FinishedStep
<1>2. [][A]_vars <=> FinishedRead BY DEF FinishedRead
<1> HIDE DEF A
<1> QED BY EntriesKept, <1>1, <1>2, PTL

(* A finished matrix has its axes before its rows, and CSV reads them there. *)
LEMMA AxesStep ==
  ASSUME IInv, fmt = "CSV", kind = "matrix", NEW k \in DOMAIN log, Read(k), log[k].done
  PROVE  /\ got'.data.ELIS = <<0>> \o log[k].data.ELIS
         /\ Len(log[k].data.ETOA) = Len(log[k].data.ELIS) => got'.data.ETOA = <<0>> \o log[k].data.ETOA
<1>1. Text /\ file \in Seq(FileLine) /\ log \in Seq(Log) BY DEF IInv, TypeInv, Log, Text
<1>2. k \in 1 .. Len(log) /\ k \in Nat \ {0} BY <1>1
<1>3. PICK s, o : Layout(file, log, s, o, Outs) BY DEF IInv, TextInv
<1>4. PICK d, w, a, m : d = log[k].data /\ w = o[k] /\ a = s[k] /\ m = End(file, s, k) - s[k] + 1 OBVIOUS
<1>5. d \in Agreeing /\ w \in Output(d)
  <2>1. log[k] \in Log BY <1>1, <1>2
  <2>2. d \in Agreeing BY <1>4, <2>1 DEF Log
  <2>3. w \in Outs[d] BY <1>2, <1>3, <1>4 DEF Layout
  <2> QED BY <2>2, <2>3 DEF Outs
<1>6. /\ Len(w) >= 3 /\ w[1].vals = d.ELIS
      /\ Len(d.ETOA) = Len(d.ELIS) => w[2].vals = d.ETOA
  BY <1>5, AxesWritten
<1>7. m = Len(w) /\ m \in 1 .. Len(w) /\ \A i \in 1 .. m : file[a + i - 1] = w[i]
  BY <1>2, <1>3, <1>4 DEF Layout
<1>8. a \in 1 .. Len(file) /\ End(file, s, k) \in a .. Len(file) BY <1>1, <1>2, <1>3, <1>4, LayoutFacts
<1>9. PICK L \in Nat : L = Len(file) BY <1>1
<1>10. file[a] = w[1] /\ file[a + 1] = w[2] /\ a \in Nat /\ a + 1 <= L
  <2>1. m >= 3 /\ m \in Int BY <1>4, <1>6, <1>7, <1>8
  <2>2. a \in 1 .. L /\ m = End(file, s, k) - a + 1 /\ End(file, s, k) \in a .. L BY <1>4, <1>8, <1>9
  <2>3. a + 1 <= L BY <2>1, <2>2
  <2>4. 1 \in 1 .. m /\ 2 \in 1 .. m /\ a + 1 - 1 = a /\ a + 2 - 1 = a + 1 BY <2>1, <2>2
  <2>5. file[a + 1 - 1] = w[1] /\ file[a + 2 - 1] = w[2] BY <1>7, <2>4
  <2> QED BY <2>2, <2>3, <2>4, <2>5
<1>11. HeadOf(k) = a BY <1>1, <1>2, <1>3, <1>4, HeadFacts
<1>12. Has(k) /\ Rest(k) = SubSeq(file, a + 1, Len(file)) BY <1>1, <1>2, <1>3, <1>11, RestFacts
<1>13. Rest(k) # << >> /\ Head(Rest(k)) = file[a + 1]
  <2>1. PICK r, q : r = Rest(k) /\ q = a + 1 OBVIOUS
  <2>2. q \in Nat \ {0} /\ q <= L BY <1>10, <2>1
  <2>3. /\ r \in Seq(FileLine) /\ Len(r) = L - q + 1
        /\ \A i \in 1 .. L - q + 1 : r[i] = file[q + i - 1]
    BY <1>1, <1>9, <1>12, <2>1, <2>2, SubSeqFacts
  <2>4. 1 \in 1 .. L - q + 1 /\ q + 1 - 1 = q BY <2>2
  <2>5. r[1] = file[q] BY <2>3, <2>4
  <2>6. r # << >> /\ Head(r) = r[1] BY <2>2, <2>3
  <2> QED BY <2>1, <2>5, <2>6
<1>14. Numbers(Rest(k)) = {<<0>> \o w[2].vals} BY <1>10, <1>13 DEF Numbers
<1>15. Numbers(<<file[HeadOf(k)]>>) = {<<0>> \o w[1].vals}
  <2>1. <<file[a]>> # << >> /\ Head(<<file[a]>>) = file[a] OBVIOUS
  <2> QED BY <1>10, <1>11, <2>1 DEF Numbers
<1>16. made
  <2>1. file # << >> BY <1>9, <1>10
  <2> QED BY <2>1 DEF IInv, TypeInv
<1>17. PICK e \in CsvMatrices(k) : got' = [status |-> "true", data |-> e]
  BY <1>16 DEF Read, ReadText, ReadBson, TextEntries
<1>18. e.ETOA \in Numbers(Rest(k)) /\ e.ELIS \in Numbers(<<file[HeadOf(k)]>>)
  BY <1>12, <1>17 DEF CsvMatrices
<1>19. e.ETOA = <<0>> \o w[2].vals /\ e.ELIS = <<0>> \o w[1].vals BY <1>14, <1>15, <1>18
<1>20. got'.data = e BY <1>17
<1> QED BY <1>4, <1>6, <1>19, <1>20

(* The CSV reader finds the axes of a finished matrix in its headers, each   *)
(* after one number that is not of the axis, and ETOA whole where it is as   *)
(* long as ELIS (IO_CSV::readmatrix against IO_CSV::writematrix).            *)
THEOREM AxesAreRead == Spec => AxesRead
<1> DEFINE A == \A k \in DOMAIN log :
                  Read(k) /\ log[k].done /\ fmt = "CSV" /\ kind = "matrix"
                    => LET d == log[k].data
                       IN /\ got'.data.ELIS = <<0>> \o d.ELIS
                          /\ Len(d.ETOA) = Len(d.ELIS) => got'.data.ETOA = <<0>> \o d.ETOA
<1>1. IInv => A BY AxesStep
<1>2. [][A]_vars <=> AxesRead BY DEF AxesRead
<1> HIDE DEF A
<1> QED BY EntriesKept, <1>1, <1>2, PTL

LEMMA UnfinishedStep ==
  ASSUME IInv, NEW k \in 1 .. MaxEntry, Read(k), Readable(k), k \in DOMAIN log => ~log[k].done
  PROVE  IF fmt = "BSON" THEN got'.status # "true" /\ got'.data = got.data
         ELSE \A i \in DOMAIN RowsOf(got'.data) :
                IsPrefix(RowsOf(got'.data)[i],
                         RowsOf(IF k \in DOMAIN log THEN log[k].data ELSE Empty)[i])
<1>1. file \in Seq(FileLine) /\ log \in Seq(Log) BY DEF IInv, TypeInv, Log
<1>2. k \in Nat \ {0} BY FilesAssumption
<1>3. DOMAIN log = 1 .. Len(log) BY <1>1
<1>4. CASE ReadText(k)
  <2>1. Text /\ fmt # "BSON" BY <1>4 DEF ReadText, Text, IInv, TypeInv
  <2>2. (IF k \in DOMAIN log THEN log[k].data ELSE Empty) = Meant(k) BY <1>3 DEF Meant
  <2>3. PICK e : e = got'.data OBVIOUS
  <2>4. \E c \in 0 .. NumRows(Meant(k)) : e \in Dataset /\ Truncated(e, Meant(k), c)
    <3>1. CASE ~made /\ got' = [status |-> "false", data |-> Empty]
      <4>1. e = Empty BY <2>3, <3>1
      <4>2. NumRows(Meant(k)) \in Nat BY <1>1, <2>1, MeantFacts
      <4>3. e \in Dataset BY <2>1, <4>1, EmptyFacts DEF Text
      <4>4. kind = "spec" => Len(Empty.E) = 0 /\ Len(Empty.F) = 0 BY DEF Empty
      <4>5. kind = "matrix" => Len(Empty.M) = 0 /\ Len(Empty.ETOA) = 0 BY DEF Empty
      <4>6. Truncated(e, Meant(k), 0) BY <2>1, <4>1, <4>4, <4>5 DEF Truncated, Text
      <4> QED BY <4>2, <4>3, <4>6
    <3>2. CASE ReadOf(e, k) BY <3>2 DEF ReadOf
    <3> QED BY <1>2, <1>4, <2>3, <3>1, <3>2, ReadTextFacts
  <2>5. \A i \in DOMAIN RowsOf(e) : IsPrefix(RowsOf(e)[i], RowsOf(Meant(k))[i])
    BY <1>1, <2>1, <2>4, FirstRowsPrefix
  <2> QED BY <2>1, <2>2, <2>3, <2>5
<1>5. CASE ReadBson(k)
  <2>1. fmt = "BSON" BY <1>5 DEF ReadBson
  <2>2. ~(k \in 1 .. Len(log) /\ \A i \in 1 .. k : log[i].done)
    <3>1. ASSUME k \in 1 .. Len(log), \A i \in 1 .. k : log[i].done PROVE FALSE
      <4>1. k \in 1 .. k BY <1>2
      <4> QED BY <1>3, <3>1, <4>1
    <3> QED BY <3>1
  <2>3. got' = [got EXCEPT !.status = "false"] \/ got' = [got EXCEPT !.status = "throws"]
    BY <1>2, <1>5, <2>2, ReadBsonFacts
  <2>4. got \in [status : {"none", "true", "false", "throws"}, data : Dataset] BY DEF IInv, TypeInv
  <2>5. got'.status # "true" /\ got'.data = got.data BY <2>3, <2>4
  <2> QED BY <2>1, <2>5
<1> QED BY <1>4, <1>5 DEF Read

(* Of an entry that was not finished a reader gets the first rows that were  *)
(* written of it and none of another entry; a BSON reader reports failure    *)
(* and leaves its caller's data alone.                                       *)
THEOREM NothingIsInvented == Spec => NothingInvented
<1> DEFINE A == \A k \in 1 .. MaxEntry :
                  Read(k) /\ Readable(k) /\ (k \in DOMAIN log => ~log[k].done)
                    => IF fmt = "BSON" THEN got'.status # "true" /\ got'.data = got.data
                       ELSE \A i \in DOMAIN RowsOf(got'.data) :
                              IsPrefix(RowsOf(got'.data)[i],
                                       RowsOf(IF k \in DOMAIN log THEN log[k].data ELSE Empty)[i])
<1>1. IInv => A BY UnfinishedStep
<1>2. [][A]_vars <=> NothingInvented BY DEF NothingInvented
<1> HIDE DEF A
<1> QED BY EntriesKept, <1>1, <1>2, PTL
=============================================================================
