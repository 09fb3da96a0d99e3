-------------------------------- MODULE Text --------------------------------
(***************************************************************************)
(* Text on its way to a line buffer of INPUT_MAX_LEN characters            *)
(* (code/src/tinyusb/usb.c:45-68): how characters make lines.              *)
(***************************************************************************)
EXTENDS Naturals, SequencesExt, FiniteSetsExt

CONSTANT INPUT_MAX_LEN  \* 100 (line 33); what goes beyond it is cut off a line

LF  == "\n"
CR  == "\r"
NUL == "0"              \* the character that ends a C string

(* The C string in a buffer. *)
CString(text) ==
  LET nuls == { i \in DOMAIN text : text[i] = NUL }
  IN  IF nuls = {} THEN text ELSE SubSeq(text, 1, Min(nuls) - 1)

(* Whole lines, and the text after them. *)
NoText == [lines |-> << >>, typed |-> << >>]

After(stream, char) ==
  IF char = LF
    THEN [lines |-> Append(stream.lines, stream.typed), typed |-> << >>]
    ELSE IF char = CR \/ Len(stream.typed) >= INPUT_MAX_LEN
      THEN stream
      ELSE [stream EXCEPT !.typed = Append(@, char)]

Written(stream, text) == FoldLeft(After, stream, text)
=============================================================================
