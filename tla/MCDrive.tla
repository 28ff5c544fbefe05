------------------------------ MODULE MCDrive -------------------------------
(* Instance of Drive for TLC: uploads for every branch of the handlers, of *)
(* the lengths around MaxFileSize and around the limit of the body.        *)
EXTENDS Drive

Name(s, e) == [stem |-> s, ext |-> e]
File(size, filename, name) ==
  [file |-> TRUE, size |-> size, filename |-> filename, name |-> name, overhead |-> 1]

MCUploads ==
  { File(2, Name("a", "com"), NoName),
    File(2, Name("b", "TXT"), Name("a", "none")),
    File(1, Name("b", "COM"), NoName),
    File(0, Name("a", "COM"), Name("b", "TXT")),
    File(1, NoName, NoName),
    File(1, Name("*", "COM"), NoName),
    File(3, Name("a", "COM"), NoName),
    File(4, Name("b", "COM"), NoName),
    [File(0, NoName, Name("a", "COM")) EXCEPT !.file = FALSE] }
=============================================================================
