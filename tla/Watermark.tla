------------------------------ MODULE Watermark ------------------------------
(***************************************************************************)
(* deception/disinformation_injector.py: the mark DisinformationInjector   *)
(* writes into a payload in characters of zero width, and what it reads    *)
(* back, one digit at a time as the code does.  Visible characters, and so *)
(* the place of the mark among them, do not matter: extract_watermark      *)
(* drops them first.  Those of zero width that the payload had before do   *)
(* matter; a payload of several lines may have some on both sides of the   *)
(* line that is the mark.                                                  *)
(***************************************************************************)
EXTENDS Integers, Sequences

CONSTANTS
  MarkLength,  \* 16 hexadecimal digits of the signature
  Stray        \* what a payload may have of characters of zero width

WatermarkAssumption ==
  /\ MarkLength \in Nat \ {0}
  /\ Stray \subseteq Seq(0 .. 4)

VARIABLES
  sig,     \* the digits written
  stray,   \* the payload's own characters of zero width before the mark
  after,   \* and after it
  ex, i,   \* those of the marked payload, and how far they are read
  starts,  \* history: where in ex each piece written begins, and the next would
  res,     \* digits read so far
  answer   \* of extract_watermark, or Unread

vars == <<sig, stray, after, ex, i, starts, res, answer>>

Digits == 0 .. 15
Unread == <<-1>>
NoMark == <<-2>>   \* None

-----------------------------------------------------------------------------
(* A definition named X_Y is X with the slip Y in it; it is used only to    *)
(* confirm that a property notices the slip.                               *)

\* The characters are numbered U+200B, U+200C, U+200D, U+2060, U+FEFF: five
\* digits take one of them, eleven take two.
Code ==
  << <<0>>, <<1>>, <<2>>, <<3>>, <<4>>,
     <<0, 1>>, <<0, 2>>, <<0, 3>>, <<0, 4>>, <<1, 0>>, <<1, 2>>, <<1, 3>>, <<1, 4>>,
     <<2, 0>>, <<2, 1>>, <<2, 3>> >>

CodeOf(digit) == Code[digit + 1]
Codes == {CodeOf(d) : d \in Digits}
DigitOf(code) == CHOOSE d \in Digits : CodeOf(d) = code

Init ==
  /\ sig \in [1 .. MarkLength -> Digits]
  /\ stray \in Stray
  /\ after \in Stray
  /\ ex = stray
  /\ starts = <<Len(stray) + 1>>
  /\ i = 1
  /\ res = <<>>
  /\ answer = Unread

\* watermark_payload: the digits, and then the rest of the payload.
Piece(n) == IF n <= MarkLength THEN CodeOf(sig[n]) ELSE after
Written == Len(starts) > MarkLength + 1

WritePiece ==
  /\ ~Written
  /\ ex' = ex \o Piece(Len(starts))
  /\ starts' = Append(starts, Len(ex') + 1)
  /\ UNCHANGED <<sig, stray, after, i, res, answer>>

\* Two characters are taken if they are a code, whatever they were written as.
Taken_Shortest(n) == 1
Taken(n) == IF n < Len(ex) /\ SubSeq(ex, n, n + 1) \in Codes THEN 2 ELSE 1

ReadDigit ==
  /\ Written
  /\ i <= Len(ex)
  /\ res' = Append(res, DigitOf(SubSeq(ex, i, i + Taken(i) - 1)))
  /\ i' = i + Taken(i)
  /\ UNCHANGED <<sig, stray, after, ex, starts, answer>>

\* Only the number of digits is checked.
Accepts == Len(res) = MarkLength

Finish ==
  /\ Written
  /\ i > Len(ex)
  /\ answer = Unread
  /\ answer' = IF Accepts THEN res ELSE NoMark
  /\ UNCHANGED <<sig, stray, after, ex, starts, i, res>>

Next == WritePiece \/ ReadDigit \/ Finish

Spec == Init /\ [][Next]_vars

-----------------------------------------------------------------------------
(* Properties *)

\* Two digits next to each other are run together when the first takes one
\* character and the next begins with one that would complete a pair.
Readable(digits) ==
  \A n \in 1 .. Len(digits) - 1 :
    \/ Len(CodeOf(digits[n])) = 2
    \/ CodeOf(digits[n]) \o <<CodeOf(digits[n + 1])[1]>> \notin Codes

\* Which marks survive: a mark is read back exactly if no two of its digits
\* run together and the payload had no characters of zero width on either
\* side, an earlier mark for one; any other mark is lost or read as another.
MarkReadBack ==
  answer # Unread => (answer = sig <=> stray = <<>> /\ after = <<>> /\ Readable(sig))

=============================================================================
