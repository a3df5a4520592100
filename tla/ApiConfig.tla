------------------------------ MODULE ApiConfig ------------------------------
(***************************************************************************)
(* The text of api-config.conf, one section per API provider, and what the *)
(* "api provider" commands make of it.                                     *)
(*                                                                         *)
(* A text is a sequence of pieces.  A newline is a piece, so that lines can *)
(* run together; the settings of a section, and its comments, are one piece *)
(* each that names the provider they were written for.  A line is known by  *)
(* where it starts.                                                         *)
(***************************************************************************)
EXTENDS Naturals, Sequences, SequencesExt, FiniteSetsExt

NL == <<"newline">>
Header(v)   == <<"[", v>>
Note(v)     == <<"#", v>>
Settings(v) == <<"=", v>>

Section(v) == <<Header(v), NL, Note(v), NL, NL, Settings(v), NL, NL>>

\* std::getline() over the text: a last line needs no newline.
LineStarts(text) == {i \in DOMAIN text : i = 1 \/ text[i - 1] = NL}

Begins(text, i, mark) == text[i][1] = mark

\* The header of v is anywhere in the line that starts at i.
HasHeader(text, i, v) ==
  \E k \in DOMAIN text : k >= i /\ text[k] = Header(v) /\ \A m \in i..k : text[m] # NL

\* The first line with the header of v; 0 if there is none.
HeaderLine(text, v) ==
  LET found == {i \in LineStarts(text) : HasHeader(text, i, v)}
  IN  IF found = {} THEN 0 ELSE Min(found)

LinesAfter(text, i) == {j \in LineStarts(text) : j > i}

\* The first line after the section whose header is in line i.  A header in the
\* last line leaves section_end at its initial value, the start of the file.
SectionEnd_LastSection(text, i) == IF LinesAfter(text, i) = {} THEN 1 ELSE Len(text) + 1
SectionEnd(text, i) ==
  LET heads == {j \in LinesAfter(text, i) : Begins(text, j, "[")}
  IN  IF LinesAfter(text, i) = {} THEN 1 ELSE IF heads = {} THEN Len(text) + 1 ELSE Min(heads)

Before(text, i) == SubSeq(text, 1, i - 1)
After(text, i)  == SubSeq(text, SectionEnd(text, i), Len(text))

\* What addProvider() writes in place of the text when v has a section: the old
\* lines, which lost their newlines in getline(), around the new section.
Joined(lines) == SelectSeq(lines, LAMBDA piece : piece # NL)
Replaced(text, v) ==
  LET i == HeaderLine(text, v)
  IN  Joined(Before(text, i)) \o Section(v) \o Joined(After(text, i))

HasSection(text, v) == HeaderLine(text, v) # 0

\* What removeProvider() writes; it ends every line.
Ended(lines) == IF lines = <<>> \/ Last(lines) = NL THEN lines ELSE Append(lines, NL)
Removed(text, v) ==
  LET i == HeaderLine(text, v)
  IN  Before(text, i) \o Ended(After(text, i))

\* listProviders(): the headers that begin a line.
Listed(text) == {text[i][2] : i \in {j \in LineStarts(text) : Begins(text, j, "[")}}

\* showProvider(): the settings in the lines that follow the header of v, up to
\* a line that begins with the header of another section.
Shown(text, v) ==
  LET i == HeaderLine(text, v)
      Ends(j) == Begins(text, j, "[") /\ ~HasHeader(text, j, v)
      shown == {j \in LinesAfter(text, i) :
                  ~\E k \in LinesAfter(text, i) : k <= j /\ Ends(k)}
  IN  IF i = 0 THEN {}
      ELSE {text[j][2] : j \in {k \in shown : Begins(text, k, "=")}}

=============================================================================
