------------------------------ MODULE SpecFiles ------------------------------
(***************************************************************************)
(* The spectrum and matrix files of HelProp (IO.cc): a file holds entries, *)
(* one per program run that wrote to it since it was last made anew, in    *)
(* one of three formats.  A writer may be killed between two lines of text *)
(* or in the middle of a BSON document; a reader asks for an entry by its  *)
(* number at any time.                                                     *)
(*                                                                         *)
(* A text file is a sequence of lines, a line its mark (what makes it a    *)
(* header, "" for a row) and its numbers; a BSON file is a sequence of     *)
(* documents, whole or torn.  Units and the rounding to eight digits are   *)
(* left out; 0 is what a conversion that fails leaves.                     *)
(***************************************************************************)
EXTENDS Integers, Sequences, FiniteSets, SequencesExt

CONSTANTS Formats,    \* the --iotype values considered
          Spectra,    \* the datasets the programs write: [E, F]
          Matrices,   \* and [ETOA, ELIS, M], ELIS not empty
          Vals,       \* the numbers in them
          MaxWrites,  \* bound on the calls of the writer
          MaxEntry    \* bound on ientry

ASSUME FilesAssumption ==
  /\ Formats \subseteq {"TXT", "CSV", "BSON"}
  /\ 0 \notin Vals /\ MaxWrites \in Nat /\ MaxEntry \in Nat
  /\ Spectra \subseteq [E : Seq(Vals), F : Seq(Vals)]
  /\ Matrices \subseteq [ETOA : Seq(Vals), ELIS : Seq(Vals), M : Seq(Seq(Vals))]

VARIABLES fmt, kind,  \* of the file: constant
          file, made, \* its contents, whether it exists
          writer,     \* the dataset being written and the lines to come
          writes,     \* calls of the writer so far
          log,        \* history: the entries begun, [data, done]
          got         \* what the last read left to its caller

vars == <<fmt, kind, file, made, writer, writes, log, got>>

Closed == [data |-> << >>, lines |-> << >>]
Idle == writer = Closed

Empty == IF kind = "spec" THEN [E |-> << >>, F |-> << >>]
                          ELSE [ETOA |-> << >>, ELIS |-> << >>, M |-> << >>]

Init ==
  /\ fmt \in Formats /\ kind \in {"spec", "matrix"}
  /\ file = << >> /\ made = FALSE /\ writer = Closed /\ writes = 0
  /\ log = << >> /\ got = [status |-> "none", data |-> Empty]
-----------------------------------------------------------------------------
(* writespec and writematrix *)

Line(mark, vals) == [mark |-> mark, vals |-> vals]

SpecLines(d) ==
  <<Line("EF", << >>)>> \o [i \in DOMAIN d.E |-> Line("", <<d.E[i], d.F[i]>>)]

TxtMatrixLines(d) ==
  <<Line("#", d.ELIS)>> \o [i \in DOMAIN d.M |-> Line("", <<d.ETOA[i]>> \o d.M[i])]

MutCsvEtoa(d) ==     \* the last value is forgotten
  {s \in [1 .. Len(d.ELIS) - 1 -> Vals] : \A i \in DOMAIN s : i \in DOMAIN d.ETOA => s[i] = d.ETOA[i]}

(* The loop over ETOA ends at ELIS.size() - 1, then its last value follows:  *)
(* a longer ETOA is cut, and beyond a shorter one is whatever memory holds.  *)
CsvEtoa(d) ==
  {s \in [DOMAIN d.ELIS -> Vals] :
     /\ s[Len(d.ELIS)] = Last(d.ETOA)
     /\ \A i \in 1 .. Len(d.ELIS) - 1 : i \in DOMAIN d.ETOA => s[i] = d.ETOA[i]}

CsvMatrixLines(d, etoa) ==
  <<Line("ELIS", d.ELIS), Line("ETOA", etoa), Line("Matrix", << >>)>>
  \o [i \in DOMAIN d.M |-> Line("", d.M[i])]

Document(d) == Line("doc", d)

Output(d) ==
  IF fmt = "BSON" THEN {<<Document(d)>>}
  ELSE IF kind = "spec" THEN {SpecLines(d)}
  ELSE IF fmt = "TXT" THEN {TxtMatrixLines(d)}
  ELSE {CsvMatrixLines(d, etoa) : etoa \in CsvEtoa(d)}

Datasets == IF kind = "spec" THEN Spectra ELSE Matrices
SizesAgree(d) == IF kind = "spec" THEN Len(d.E) = Len(d.F) ELSE Len(d.ETOA) = Len(d.M)

(* RECREATE empties the file as it is opened. *)
OpenFile(append) ==
  /\ made' = TRUE
  /\ IF append THEN UNCHANGED <<file, log>> ELSE file' = << >> /\ log' = << >>

Open(d, append) ==
  /\ Idle /\ writes < MaxWrites /\ SizesAgree(d)
  /\ writes' = writes + 1
  /\ OpenFile(append)
  /\ \E lines \in Output(d) : writer' = [data |-> d, lines |-> lines]
  /\ UNCHANGED <<fmt, kind, got>>

(* Only IO_TXT::writespec has opened the file before it compares the sizes. *)
Refuse(d, append) ==
  /\ Idle /\ writes < MaxWrites /\ ~SizesAgree(d)
  /\ writes' = writes + 1
  /\ IF fmt = "TXT" /\ kind = "spec" THEN OpenFile(append) ELSE UNCHANGED <<file, made, log>>
  /\ UNCHANGED <<fmt, kind, writer, got>>

EntryMarks == {"EF", "#", "ELIS", "doc", "torn"}
Heads == {i \in DOMAIN file : file[i].mark \in EntryMarks}

MutCloseWriter(lines) == [writer EXCEPT !.lines = lines]   \* not closed at the end
CloseWriter(lines) == IF lines = << >> THEN Closed ELSE [writer EXCEPT !.lines = lines]

(* endl flushes every line; a document is written by one fwrite. *)
WriteLine ==
  LET line == Head(writer.lines)
      done == Len(writer.lines) = 1
      entry == IF line.mark \in EntryMarks THEN Append(log, [data |-> writer.data, done |-> done])
               ELSE [log EXCEPT ![Len(log)].done = done]
  IN /\ ~Idle
     /\ file' = Append(file, line) /\ log' = entry
     /\ writer' = CloseWriter(Tail(writer.lines))
     /\ UNCHANGED <<fmt, kind, made, writes, got>>

(* The writer is killed; part of a document may be in the file. *)
Crash ==
  /\ ~Idle /\ writer' = Closed
  /\ \/ UNCHANGED <<file, log>>
     \/ /\ fmt = "BSON" /\ file' = Append(file, Line("torn", << >>))
        /\ log' = Append(log, [data |-> writer.data, done |-> FALSE])
  /\ UNCHANGED <<fmt, kind, made, writes, got>>
-----------------------------------------------------------------------------
(* readspec and readmatrix of entry k *)

HeadOf(k) == CHOOSE i \in Heads : Cardinality({j \in Heads : j <= i}) = k
Has(k) == k <= Cardinality(Heads)

(* The lines after the header of entry k. *)
Rest(k) == IF Has(k) THEN SubSeq(file, HeadOf(k) + 1, Len(file)) ELSE << >>

MutRows(lines) == SelectSeq(lines, LAMBDA l : l.mark = "")   \* headers skipped only
Rows(lines) ==
  LET i == SelectInSeq(lines, LAMBDA l : l.mark # "")
  IN IF i = 0 THEN lines ELSE SubSeq(lines, 1, i - 1)

Column(rows, c) == [i \in DOMAIN rows |-> rows[i].vals[c]]

TxtSpec(k) ==
  LET rows == Rows(Rest(k))
  IN [E |-> Column(rows, 1), F |-> Column(rows, 2)]

(* The loop does not stop at the next header, which converts to 0, 0. *)
CsvSpec(k) ==
  LET rows == [i \in DOMAIN Rest(k) |-> IF Rest(k)[i].mark = "" THEN Rest(k)[i] ELSE Line("", <<0, 0>>)]
  IN [E |-> Column(rows, 1), F |-> Column(rows, 2)]

(* The conversion of '#' fails, and so does everything after it: no ELIS. *)
TxtMatrix(k) ==
  LET rows == Rows(Rest(k))
  IN [ETOA |-> [i \in DOMAIN rows |-> Head(rows[i].vals)], ELIS |-> << >>,
      M |-> [i \in DOMAIN rows |-> Tail(rows[i].vals)]]

(* erase(0, 3) leaves a first word that converts to 0; where a header is     *)
(* missing split() returns one uninitialised number.                         *)
Numbers(lines) == IF lines = << >> THEN {<<v>> : v \in Vals \cup {0}} ELSE {<<0>> \o Head(lines).vals}

CsvMatrices(k) ==
  LET header == IF Has(k) THEN <<file[HeadOf(k)]>> ELSE << >>
      rows == Rows(SubSeq(Rest(k), 3, Len(Rest(k))))
  IN [ETOA : Numbers(Rest(k)), ELIS : Numbers(header), M : {[i \in DOMAIN rows |-> rows[i].vals]}]

TextEntries(k) ==
  IF kind = "matrix" THEN (IF fmt = "TXT" THEN {TxtMatrix(k)} ELSE CsvMatrices(k))
  ELSE {IF fmt = "TXT" THEN TxtSpec(k) ELSE CsvSpec(k)}

ReadText(k) ==
  /\ fmt \in {"TXT", "CSV"}
  /\ \/ (~made) /\ got' = [status |-> "false", data |-> Empty]
     \/ made /\ \E d \in TextEntries(k) : got' = [status |-> "true", data |-> d]

(* readbson finds entry k by the sizes of the documents before it.  Beyond a *)
(* torn one it ends at the end of the file, or the parse throws.             *)
Torn == {i \in DOMAIN file : file[i].mark = "torn"}
Aligned(k) == \A i \in Torn : i > k
MutSizesRead(k) == k <= Len(file)                             \* only the size was read
SizesRead(k) == k <= Len(file) /\ Aligned(k)

ReadBson(k) ==
  /\ fmt = "BSON"
  /\ \/ SizesRead(k) /\ got' = [status |-> "true", data |-> file[k].vals]
     \/ ~SizesRead(k) /\ got' = [got EXCEPT !.status = "false"]
     \/ /\ ~Aligned(k) /\ \E i \in Torn : i < Len(file)
        /\ got' = [got EXCEPT !.status = "throws"]

Read(k) == (ReadText(k) \/ ReadBson(k)) /\ UNCHANGED <<fmt, kind, file, made, writer, writes, log>>
-----------------------------------------------------------------------------
Write == \E d \in Datasets, append \in BOOLEAN : Open(d, append) \/ Refuse(d, append)

Next == Write \/ WriteLine \/ Crash \/ \E k \in 1 .. MaxEntry : Read(k)

Spec == Init /\ [][Next]_vars
-----------------------------------------------------------------------------
Number == Vals \cup {0}
Flux == [E : Seq(Number), F : Seq(Number)]
Matrix == [ETOA : Seq(Number), ELIS : Seq(Number), M : Seq(Seq(Number))]
Dataset == IF kind = "spec" THEN Flux ELSE Matrix

(* The variables keep their types; a writer that is open has lines to come,  *)
(* and the entries of the file are those the log has.                        *)
TypeOK ==
  /\ fmt \in Formats /\ kind \in {"spec", "matrix"} /\ made \in BOOLEAN
  /\ writes \in 0 .. MaxWrites
  /\ Idle \/ (writer.data \in Datasets /\ writer.lines # << >>)
  /\ Len(log) = Cardinality(Heads) /\ (file # << >> => made)
  /\ \A i \in DOMAIN log : log[i].data \in Datasets /\ log[i].done \in BOOLEAN
  /\ got.status \in {"none", "true", "false", "throws"} /\ got.data \in Dataset

(* What a reader is meant to get of entry k: its rows, nothing after them,   *)
(* those of a matrix with their energies.  Left out are ELIS, which does not *)
(* come back in TXT (TxtMatrix), the axes in CSV (see AxesRead) and there    *)
(* all spectra but the last (CsvSpec; see EveryEntryRead).                   *)
RowsOf(d) == IF kind = "spec" THEN <<d.E, d.F>>
             ELSE IF fmt = "CSV" THEN <<d.M>> ELSE <<d.ETOA, d.M>>
Readable(k) == fmt = "CSV" /\ kind = "spec" => k >= Len(log)

(* A finished entry is read back whatever happened to the others: a writer   *)
(* killed in one of them, or still at work on a later one.  A BSON file      *)
(* needs the entries before it to be whole.                                  *)
FinishedRead ==
  [][\A k \in DOMAIN log :
       Read(k) /\ log[k].done /\ Readable(k) /\ (fmt = "BSON" => \A i \in 1 .. k : log[i].done)
         => got'.status = "true" /\ RowsOf(got'.data) = RowsOf(log[k].data)]_vars

(* The axes of a finished CSV matrix come back after the one number that     *)
(* erase(0, 3) leaves before them, from the headers of the entry asked for.  *)
(* Of ETOA this is true only where it is as long as ELIS (CsvEtoa).          *)
AxesRead ==
  [][\A k \in DOMAIN log :
       Read(k) /\ log[k].done /\ fmt = "CSV" /\ kind = "matrix"
         => LET d == log[k].data
            IN /\ got'.data.ELIS = <<0>> \o d.ELIS
               /\ Len(d.ETOA) = Len(d.ELIS) => got'.data.ETOA = <<0>> \o d.ETOA]_vars

(* Of an entry that was not finished, or does not exist, a reader gets no    *)
(* rows but the ones that were written of it: none of another entry, none    *)
(* made up.  A BSON reader says so and leaves its caller's data alone.       *)
NothingInvented ==
  [][\A k \in 1 .. MaxEntry :
       Read(k) /\ Readable(k) /\ (k \in DOMAIN log => ~log[k].done)
         => IF fmt = "BSON" THEN got'.status # "true" /\ got'.data = got.data
            ELSE \A i \in DOMAIN RowsOf(got'.data) :
                   IsPrefix(RowsOf(got'.data)[i],
                            RowsOf(IF k \in DOMAIN log THEN log[k].data ELSE Empty)[i])]_vars

(* IOTest.cc reads the entries by number and prints each as one spectrum: in *)
(* CSV the reader of one entry runs on into the next (CsvSpec).              *)
EveryEntryRead ==
  [][\A k \in DOMAIN log :
       Read(k) /\ kind = "spec" /\ (\A i \in 1 .. k : log[i].done)
         => got'.data = log[k].data]_vars
=============================================================================
