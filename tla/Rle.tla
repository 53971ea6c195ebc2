-------------------------------- MODULE Rle --------------------------------
(***************************************************************************)
(* The run-length code of project_1.  A run of MIN_RUN or more bits is     *)
(* written as a marker, sign, length in decimal, sign; everything else     *)
(* stands for itself.  Two scanners exist: the one of MyCompress and       *)
(* ParFork looks at bits only, the one of PipeCompress and ParThread at    *)
(* every character that is no blank or newline.  Files are sequences of    *)
(* one-character strings; Eof is the byte 0xFF, which a char confuses with *)
(* the constant EOF.                                                       *)
(***************************************************************************)
EXTENDS Integers, Sequences, SequencesExt

CONSTANT MIN_RUN   \* 16

ASSUME RunAssumption == MIN_RUN \in Nat \ {0}

Bits == {"0", "1"}
Digits == <<"0", "1", "2", "3", "4", "5", "6", "7", "8", "9">>
Eof == "\\377"

Repeat(ch, n) == [i \in 1 .. n |-> ch]

write_uint_dec[x \in Nat] ==
  IF x < 10 THEN <<Digits[x + 1]>>
            ELSE write_uint_dec[x \div 10] \o <<Digits[(x % 10) + 1]>>

flush_run(bit, len) ==
  IF len >= MIN_RUN
  THEN LET sign == IF bit = "1" THEN "+" ELSE "-"
       IN <<sign>> \o write_uint_dec[len] \o <<sign>>
  ELSE Repeat(bit, len)

-----------------------------------------------------------------------------
\* What a compressor remembers from one character, and one block, to the next.
Scanning == [out : Seq(STRING), cur : STRING, run : Nat]
Start == [out |-> <<>>, cur |-> Eof, run |-> 0]

Flushed(st) == st.out \o flush_run(st.cur, st.run)

NewRun(st, ch) == [out |-> Flushed(st), cur |-> ch, run |-> 1]
Longer(st) == [st EXCEPT !.run = @ + 1]
Literal(st, ch) == [out |-> Append(Flushed(st), ch), cur |-> Eof, run |-> 0]

\* MyCompress, ParFork.
ScanBit[st \in Scanning, ch \in STRING] ==
  IF ch \notin Bits THEN Literal(st, ch)
  ELSE IF st.run > 0 /\ ch = st.cur THEN Longer(st)
  ELSE NewRun(st, ch)

\* PipeCompress, ParThread: a current character equal to EOF means no run, so
\* the run of one byte 0xFF is dropped.
ScanAny[st \in Scanning, ch \in STRING] ==
  IF ch \in {" ", "\n"} THEN Literal(st, ch)
  ELSE IF st.cur = Eof THEN [st EXCEPT !.cur = ch, !.run = 1]
  ELSE IF ch = st.cur THEN Longer(st)
  ELSE NewRun(st, ch)

ScanBits(st, block) == FoldLeft(LAMBDA s, ch : ScanBit[s, ch], st, block)
ScanAll(st, block) == FoldLeft(LAMBDA s, ch : ScanAny[s, ch], st, block)

-----------------------------------------------------------------------------
\* MyDecompress.  sign is the marker being read, num its number so far and d the
\* last character read for it, both kept when the file ends in the middle.
Decoding == [out : Seq(STRING), sign : STRING, num : Nat, d : STRING]
Reading == [out |-> <<>>, sign |-> "", num |-> 0, d |-> ""]

DigitValue(ch) == (CHOOSE i \in 1 .. 10 : Digits[i] = ch) - 1
IsDigit(ch) == ch \in ToSet(Digits)

Malformed(st) ==
  st.out \o <<st.sign>> \o (IF st.num > 0 THEN write_uint_dec[st.num] ELSE <<>>)

ReadChar[st \in Decoding, ch \in STRING] ==
  IF st.sign = ""
  THEN IF ch \in {"+", "-"} THEN [out |-> st.out, sign |-> ch, num |-> 0, d |-> ""]
                            ELSE [st EXCEPT !.out = Append(@, ch)]
  ELSE IF IsDigit(ch) THEN [st EXCEPT !.num = 10 * @ + DigitValue(ch), !.d = ch]
  ELSE [Reading EXCEPT !.out =
          IF ch = st.sign /\ st.num > 0
          THEN st.out \o Repeat(IF ch = "+" THEN "1" ELSE "0", st.num)
          ELSE Append(Malformed(st), ch)]

\* The results MyDecompress may have: d is written again when the file ends after
\* a digit, and is not initialised when it ends after the sign.
decompress_fd(s) ==
  LET st == FoldLeft(LAMBDA r, ch : ReadChar[r, ch], Reading, s)
  IN IF st.sign = "" THEN {st.out}
     ELSE IF st.d # "" THEN {Append(Malformed(st), st.d)}
     ELSE {Malformed(st)} \cup {Append(Malformed(st), ch) : ch \in ToSet(s) \cup {Eof}}

-----------------------------------------------------------------------------
\* Text the code is meant for: no character of it is a sign.
NoSigns(s) == ToSet(s) \cap {"+", "-"} = {}

\* Text that the second scanner handles as the first one does: no byte 0xFF and
\* no long run of a character that is no bit.
ShortWords(s) ==
  /\ Eof \notin ToSet(s)
  /\ \A i \in 1 .. Len(s) - MIN_RUN + 1 :
        s[i] \notin Bits \cup {" ", "\n"}
          => \E j \in i .. i + MIN_RUN - 1 : s[j] # s[i]

Decodes(coded, s) == decompress_fd(coded) = {s}
=============================================================================
