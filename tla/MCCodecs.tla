------------------------------ MODULE MCCodecs ------------------------------
(* Formats and Codecs for TLC.  For hex: digits of both cases, a space, a      *)
(* newline, a letter that is no digit, and the largest byte.  For base64:      *)
(* bytes whose sextets reach both ends of the alphabet, up to two groups and a *)
(* tail.  For C: an escape, a letter, a newline, a quote, and a 0, whose code  *)
(* ends in the digit a token begins with.  For sizes: 0 2 x k m b - and a      *)
(* blank.  For PEM: a dash, the B and E of markers of one dash, a label, a     *)
(* newline.  For BER: a sequence, an integer, a string, a null, a tag and a    *)
(* length of more bytes.  Line lengths: none, odd, one byte or group per line, *)
(* two of them.                                                                *)
EXTENDS Formats

MCTrials   == {[kind |-> "hex", chars |-> {48, 57, 97, 70, 32, 10, 103, 255}, max |-> 4],
               [kind |-> "bytes", chars |-> {0, 107, 251}, max |-> 7],
               [kind |-> "c", chars |-> {92, 110, 10, 34, 48}, max |-> 5],
               [kind |-> "size", chars |-> {48, 50, 120, 107, 109, 98, 45, 32}, max |-> 4],
               [kind |-> "pem", chars |-> {45, 66, 69, 97, 10}, max |-> 6],
               [kind |-> "ber", chars |-> {48, 2, 4, 0, 129, 31}, max |-> 6]}
MCLineLens == {0, 2, 3, 4, 6, 8}
=============================================================================
