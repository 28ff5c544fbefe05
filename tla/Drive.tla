------------------------------- MODULE Drive --------------------------------
(***************************************************************************)
(* The files of one session: POST and GET /sessions/{id}/files             *)
(* (handleUploadFile and handleListFiles in internal/server/server.go,     *)
(* UploadCOM and ListFiles in internal/server/manager.go), while the       *)
(* session's own program uses the same drive and DELETE or the sweep       *)
(* removes its directory.  None of them takes the lock of the session.     *)
(*                                                                         *)
(* The drive itself is external (retronet-cpm): one file operation on it   *)
(* is one step, none of them succeeds in a removed directory, and any of   *)
(* them may fail.  The cleanup of a session removes the files that it      *)
(* finds and then the directory, which fails if there is a file in it.     *)
(***************************************************************************)
EXTENDS Integers, FiniteSets

CONSTANTS
  Handlers,     \* goroutines that serve requests
  Stems,        \* names of files, less the extension
  BadStems,     \* those that NormalizeName refuses
  Uploads,      \* the uploads clients make
  MaxFileSize,  \* Config.MaxFileSize
  Slack,        \* what the body of a request may have beyond: a megabyte
  MaxFiles      \* Config.MaxFiles

(* A name as it is typed, or the lack of one.                              *)
NoName == [stem |-> "", ext |-> "none"]
Names == [stem : Stems, ext : {"none", "com", "COM", "TXT"}] \cup {NoName}

(* The parts of the form: the field file (or none), its length and its     *)
(* filename, the field name, and the bytes of the body around the file.    *)
UploadRequests ==
  [file : BOOLEAN, size : Nat, filename : Names, name : Names, overhead : Nat]

ASSUME DriveAssumption ==
  /\ BadStems \subseteq Stems
  /\ Uploads \subseteq UploadRequests
  /\ MaxFileSize \in Nat \ {0} /\ Slack \in Nat \ {0} /\ MaxFiles \in Nat \ {0}

VARIABLES
  kind,        \* ManagedSession.Kind
  removal,     \* who deleted the session from Manager.sessions, if anyone
  dir,         \* its directory exists
  files,       \* what is in it: the name, the bytes kept, the bytes sent
  pc,          \* where each handler stands
  req,         \* the upload it serves
  data,        \* the bytes it has read
  status,      \* the status it answers
  faults,      \* history: what the file system failed, "request" or "cleanup"
  late         \* history: a file was stored under the directory's removal

sessionVars == <<kind, removal, dir>>
handlerVars == <<pc, req, data, status>>
history == <<faults, late>>
vars == <<sessionVars, files, handlerVars, history>>

registered == removal = "no"

NoUpload ==
  [file |-> FALSE, size |-> 0, filename |-> NoName, name |-> NoName, overhead |-> 0]

Init ==
  /\ kind \in {"cpm", "bare"}
  /\ removal = "no"
  /\ dir = (kind = "cpm")
  /\ files = {}
  /\ pc = [h \in Handlers |-> "ready"]
  /\ req = [h \in Handlers |-> NoUpload]
  /\ data = [h \in Handlers |-> 0]
  /\ status = [h \in Handlers |-> 0]
  /\ faults = {}
  /\ late = FALSE

Goto(h, label) == pc' = [pc EXCEPT ![h] = label]

Answer(h, code) ==
  /\ Goto(h, "answered")
  /\ status' = [status EXCEPT ![h] = code]

(* statusForError, for the errors of uploads and lists.                    *)
StatusForError(err) ==
  CASE err \in {"ErrSessionNotFound", "ErrUnsupportedForBare"} -> 404
    [] err \in {"ErrInvalidUpload", "ErrInvalidName"} -> 400
    [] err = "ErrFileTooLarge" -> 413
    [] err = "ErrTooManyFiles" -> 507
    [] OTHER -> 500

(* The file system fails an operation.                                     *)
Fault(op) == faults' = faults \cup {op}

-----------------------------------------------------------------------------
(* handleUploadFile.                                                       *)

Upload(h) ==
  /\ pc[h] = "ready"
  /\ \E r \in Uploads : req' = [req EXCEPT ![h] = r]
  /\ Goto(h, "parse")
  /\ UNCHANGED <<sessionVars, files, data, status, history>>

(* MaxBytesReader cuts a body that is far too long, and the form cannot be *)
(* parsed; nor can one that does not arrive whole or has no file.          *)
ParseForm(h) ==
  LET r == req[h]
      parsed == r.size + r.overhead <= MaxFileSize + Slack /\ r.file
  IN /\ pc[h] = "parse"
     /\ \/ Answer(h, 400)
        \/ parsed /\ Goto(h, "read") /\ UNCHANGED status
     /\ UNCHANGED <<sessionVars, files, req, data, history>>

(* Mutant of LimitReader: the byte that tells a file is too long is not    *)
(* read.                                                                   *)
LimitReaderShort(size) == IF size < MaxFileSize THEN size ELSE MaxFileSize

(* One byte more than is allowed is read, if reading goes well.            *)
LimitReader(size) == IF size < MaxFileSize + 1 THEN size ELSE MaxFileSize + 1

ReadAll(h) ==
  LET n == LimitReader(req[h].size)
  IN /\ pc[h] = "read"
     /\ \/ n > MaxFileSize /\ Answer(h, 413) /\ UNCHANGED data
        \/ /\ n <= MaxFileSize
           /\ Goto(h, "get")
           /\ data' = [data EXCEPT ![h] = n]
           /\ UNCHANGED status
        \/ Answer(h, 400) /\ UNCHANGED data
     /\ UNCHANGED <<sessionVars, files, req, history>>

(* The field name, or else the name the file had.                          *)
GivenName(r) == IF r.name = NoName THEN r.filename ELSE r.name

-----------------------------------------------------------------------------
(* UploadCOM.                                                              *)

(* disk.NormalizeName: capital letters.                                    *)
NormalizeName(name) == [name EXCEPT !.ext = IF @ = "com" THEN "COM" ELSE @]

(* normalizeCOMName: an extension is added before, and tested after the    *)
(* name is normalised.                                                     *)
WithExtension(name) == [name EXCEPT !.ext = IF @ = "none" THEN "COM" ELSE @]

NameError(name) ==
  IF name = NoName THEN "ErrInvalidUpload"
  ELSE IF name.stem \in BadStems THEN "ErrInvalidName"
  ELSE IF NormalizeName(WithExtension(name)).ext # "COM" THEN "ErrInvalidUpload"
  ELSE "none"

(* Mutant of FindError: the extension of a name is not tested.             *)
FindErrorAnyName(h) ==
  IF ~registered THEN "ErrSessionNotFound"
  ELSE IF kind = "bare" THEN "ErrUnsupportedForBare"
  ELSE "none"

(* Get, under Manager.mu, the kind of the session, and the name.           *)
FindError(h) ==
  IF ~registered THEN "ErrSessionNotFound"
  ELSE IF kind = "bare" THEN "ErrUnsupportedForBare"
  ELSE NameError(GivenName(req[h]))

FindSession(h) ==
  /\ pc[h] = "get"
  /\ \/ FindError(h) # "none" /\ Answer(h, StatusForError(FindError(h)))
     \/ FindError(h) = "none" /\ Goto(h, "write") /\ UNCHANGED status
  /\ UNCHANGED <<sessionVars, files, req, data, history>>

(* WriteFile of the drive: a file of the same name is replaced.            *)
Stored(name) == {f \in files : f.name = name}

WriteError(name, n) ==
  IF ~dir THEN "io"
  ELSE IF n > MaxFileSize THEN "ErrFileTooLarge"
  ELSE IF Stored(name) = {} /\ Cardinality(files) >= MaxFiles THEN "ErrTooManyFiles"
  ELSE "none"

Put(name, kept, sent) ==
  /\ files' = (files \ Stored(name))
                \cup {[name |-> name, kept |-> kept, sent |-> sent]}
  /\ late' = (late \/ \E g \in Handlers : pc[g] = "rmdir")

(* A write that the file system fails may leave a part of the file.        *)
WriteFile(h) ==
  LET name == NormalizeName(WithExtension(GivenName(req[h])))
      err == WriteError(name, data[h])
  IN /\ pc[h] = "write"
     /\ \/ /\ err # "none"
           /\ Answer(h, StatusForError(err))
           /\ UNCHANGED <<files, history>>
        \/ /\ err = "none"
           /\ Answer(h, 201)
           /\ Put(name, data[h], req[h].size)
           /\ UNCHANGED faults
        \/ /\ err = "none"
           /\ Fault("request")
           /\ Answer(h, StatusForError("io"))
           /\ \/ UNCHANGED <<files, late>>
              \/ \E part \in 0 .. data[h] : Put(name, part, req[h].size)
     /\ UNCHANGED <<sessionVars, req, data>>

(* The answer is sent.                                                     *)
Done(h) ==
  /\ pc[h] = "answered"
  /\ Goto(h, "ready")
  /\ req' = [req EXCEPT ![h] = NoUpload]
  /\ data' = [data EXCEPT ![h] = 0]
  /\ status' = [status EXCEPT ![h] = 0]
  /\ UNCHANGED <<sessionVars, files, history>>

-----------------------------------------------------------------------------
(* handleListFiles: Get, and then the directory is read.                   *)

ListFiles(h) ==
  /\ pc[h] = "ready"
  /\ \/ ~registered /\ Answer(h, StatusForError("ErrSessionNotFound"))
     \/ /\ registered /\ kind = "bare"
        /\ Answer(h, StatusForError("ErrUnsupportedForBare"))
     \/ registered /\ kind = "cpm" /\ Goto(h, "list") /\ UNCHANGED status
  /\ UNCHANGED <<sessionVars, files, req, data, history>>

ReadDir(h) ==
  /\ pc[h] = "list"
  /\ \/ dir /\ Answer(h, 200) /\ UNCHANGED faults
     \/ ~dir /\ Answer(h, StatusForError("io")) /\ UNCHANGED faults
     \/ Answer(h, StatusForError("io")) /\ Fault("request")
  /\ UNCHANGED <<sessionVars, files, req, data, late>>

-----------------------------------------------------------------------------
(* Manager.Delete and the sweep: the key goes first, the directory after.  *)

(* Mutant of Delete: the session is closed before its key is deleted.      *)
DeleteLate(h) ==
  /\ pc[h] = "ready"
  /\ registered
  /\ dir' = FALSE
  /\ files' = {}
  /\ Goto(h, "close")
  /\ UNCHANGED <<kind, removal, req, data, status, history>>

Delete(h) ==
  /\ pc[h] = "ready"
  /\ \/ registered /\ removal' = "delete" /\ Goto(h, "close") /\ UNCHANGED status
     \/ /\ ~registered
        /\ Answer(h, StatusForError("ErrSessionNotFound"))
        /\ UNCHANGED removal
  /\ UNCHANGED <<kind, dir, files, req, data, history>>

(* A request, for this session or another, finds that it has expired.      *)
Sweep(h) ==
  /\ pc[h] = "ready"
  /\ registered
  /\ removal' = "sweep"
  /\ Goto(h, "close")
  /\ UNCHANGED <<kind, dir, files, req, data, status, history>>

(* What close() returned is the answer to DELETE; the sweep ignores it.    *)
Closed(h, code) ==
  \/ removal = "delete" /\ Answer(h, code)
  \/ removal = "sweep" /\ Goto(h, "ready") /\ UNCHANGED status

(* A bare session has no cleanup.                                          *)
CloseBare(h) ==
  /\ pc[h] = "close"
  /\ kind = "bare"
  /\ Closed(h, 204)
  /\ UNCHANGED <<sessionVars, files, req, data, history>>

(* Mutant of RemoveFiles: close() without the cleanup.                     *)
CloseOnly(h) ==
  /\ pc[h] = "close"
  /\ kind = "cpm"
  /\ Closed(h, 204)
  /\ UNCHANGED <<sessionVars, files, req, data, history>>

RemoveFiles(h) ==
  /\ pc[h] = "close"
  /\ kind = "cpm"
  /\ Goto(h, "rmdir")
  /\ \/ files' = {} /\ UNCHANGED faults
     \/ files' \in SUBSET files /\ Fault("cleanup")
  /\ UNCHANGED <<sessionVars, req, data, status, late>>

RemoveDir(h) ==
  /\ pc[h] = "rmdir"
  /\ \/ files = {} /\ dir' = FALSE /\ Closed(h, 204) /\ UNCHANGED faults
     \/ files # {} /\ Closed(h, StatusForError("io")) /\ UNCHANGED <<dir, faults>>
     \/ Fault("cleanup") /\ Closed(h, StatusForError("io")) /\ UNCHANGED dir
  /\ UNCHANGED <<kind, removal, files, req, data, late>>

-----------------------------------------------------------------------------
(* The program of a CP/M session: BDOS calls on the drive, also when the   *)
(* session has been removed meanwhile.                                     *)
ProgramWrites ==
  \E s \in Stems \ BadStems :
    LET name == [stem |-> s, ext |-> "TXT"]
    IN /\ dir
       /\ WriteError(name, MaxFileSize) = "none"
       /\ Put(name, MaxFileSize, MaxFileSize)
       /\ UNCHANGED <<sessionVars, handlerVars, faults>>

ProgramErases ==
  /\ \E f \in files : files' = files \ {f}
  /\ UNCHANGED <<sessionVars, handlerVars, history>>

-----------------------------------------------------------------------------
Serve(h) ==
  \/ ParseForm(h) \/ ReadAll(h) \/ FindSession(h) \/ WriteFile(h) \/ ReadDir(h)
  \/ CloseBare(h) \/ RemoveFiles(h) \/ RemoveDir(h) \/ Done(h)

Next ==
  \/ \E h \in Handlers : Upload(h) \/ ListFiles(h) \/ Delete(h) \/ Sweep(h) \/ Serve(h)
  \/ ProgramWrites
  \/ ProgramErases

(* The goroutine of a request runs.                                        *)
Fairness == \A h \in Handlers : WF_vars(Serve(h))

Spec == Init /\ [][Next]_vars /\ Fairness

-----------------------------------------------------------------------------
(* Type invariant: the session, its files and the requests.                *)
TypeOK ==
  /\ kind \in {"cpm", "bare"} /\ dir \in BOOLEAN
  /\ removal \in {"no", "delete", "sweep"}
  /\ files \subseteq [name : Names, kept : Nat, sent : Nat]
  /\ pc \in [Handlers -> {"ready", "parse", "read", "get", "write", "list",
                          "close", "rmdir", "answered"}]
  /\ req \in [Handlers -> UploadRequests]
  /\ data \in [Handlers -> Nat]
  /\ status \in [Handlers -> {0, 200, 201, 204, 400, 404, 413, 500, 507}]
  /\ faults \subseteq {"request", "cleanup"} /\ late \in BOOLEAN

(* No file of the drive is cut short, unless the file system failed: what  *)
(* a client uploaded is there with all its bytes or not at all, under one  *)
(* name, within the limits.                                                *)
FilesWhole ==
  /\ \A f \in files : f.kept = f.sent \/ "request" \in faults
  /\ \A f \in files : f.kept <= MaxFileSize /\ f.name.ext \in {"COM", "TXT"}
  /\ \A f, g \in files : f.name = g.name => f = g
  /\ Cardinality(files) <= MaxFiles

(* What a request is told is so: a file is too large if it exceeds the     *)
(* limit (and the body is small enough to be read); a session is not found *)
(* only when it has gone or is a bare one; a DELETE that succeeded left    *)
(* nothing; and the server blames itself (500) for a session that clients  *)
(* can still find only when the file system failed.                        *)
AnswersTrue ==
  \A h \in Handlers :
    /\ status[h] = 413 => /\ MaxFileSize < req[h].size
                          /\ req[h].size + req[h].overhead <= MaxFileSize + Slack
    /\ status[h] = 201 => /\ req[h].size <= MaxFileSize
                          /\ NameError(GivenName(req[h])) = "none"
    /\ status[h] = 404 => ~registered \/ kind = "bare"
    /\ status[h] = 204 => ~registered /\ files = {} /\ ~dir
    /\ status[h] = 500 => kind = "cpm" /\ (~registered \/ "request" \in faults)

(* Once a session is removed, by a DELETE or by the sweep, its files and   *)
(* its directory go for good: an upload that had found the session before, *)
(* or its program, does not bring them back.  Only a failure of the file   *)
(* system, or a file stored in the middle of the removal, can keep them.   *)
NothingLeft == ~registered ~> [](files = {} /\ ~dir) \/ "cleanup" \in faults \/ late
=============================================================================
