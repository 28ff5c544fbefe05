---------------------------- MODULE DriveProofs -----------------------------
(***************************************************************************)
(* Theorems about Drive, for every set of handlers, of uploads and of      *)
(* names, and for all limits: no file is cut short, the limit of files is  *)
(* kept, what clients are told about their requests is so, a directory     *)
(* that was removed does not come back, and one that was not removed had a *)
(* failing file system or a file stored in the middle of the removal.      *)
(***************************************************************************)
EXTENDS Drive, FiniteSetTheorems, TLAPS

(* How far a request has come, and what is known of it by then.            *)
Checked(h) == data[h] = req[h].size /\ data[h] <= MaxFileSize

RequestsKnown ==
  \A h \in Handlers :
    /\ pc[h] = "read" => req[h].size + req[h].overhead <= MaxFileSize + Slack
    /\ pc[h] \in {"get", "write"} => Checked(h)
    /\ pc[h] = "write" => NameError(GivenName(req[h])) = "none" /\ kind = "cpm"
    /\ pc[h] = "list" => kind = "cpm"
    /\ pc[h] \in {"close", "rmdir"} => ~registered
    /\ pc[h] = "rmdir" => kind = "cpm"
    /\ pc[h] # "answered" => status[h] = 0

(* The directory is there as long as the session of a CP/M machine, and    *)
(* afterwards only while it is being removed, or for a reason.             *)
Excused == "cleanup" \in faults \/ late

Removing(h) == pc[h] \in {"close", "rmdir"}

DirFollowsKey ==
  /\ ~dir => files = {}
  /\ kind = "bare" => ~dir
  /\ kind = "cpm" /\ ~dir => ~registered
  /\ ~registered /\ dir => (\E h \in Handlers : Removing(h)) \/ Excused
  /\ \A h \in Handlers : pc[h] = "rmdir" => files = {} \/ Excused

Inv == TypeOK /\ IsFiniteSet(files) /\ FilesWhole /\ RequestsKnown /\ DirFollowsKey /\ AnswersTrue

(* What is true of a request that was answered so.                         *)
Truth(code, r) ==
  /\ code = 413 => MaxFileSize < r.size /\ r.size + r.overhead <= MaxFileSize + Slack
  /\ code = 201 => r.size <= MaxFileSize /\ NameError(GivenName(r)) = "none"
  /\ code = 404 => ~registered \/ kind = "bare"
  /\ code = 204 => ~registered /\ files = {} /\ ~dir
  /\ code = 500 => kind = "cpm" /\ (~registered \/ "request" \in faults)

LEMMA AnswersTruth == AnswersTrue <=> \A h \in Handlers : Truth(status[h], req[h])
BY DEF AnswersTrue, Truth

-----------------------------------------------------------------------------
(* The name under which an upload is stored is a .COM name.                *)
LEMMA StoredName ==
  ASSUME NEW name \in Names, NameError(name) = "none"
  PROVE  /\ NormalizeName(WithExtension(name)) \in Names
         /\ NormalizeName(WithExtension(name)).ext = "COM"
<1>1. name # NoName
  BY DEF NameError
<1>2. name \in [stem : Stems, ext : {"none", "com", "COM", "TXT"}]
  BY <1>1 DEF Names
<1>3. NormalizeName(WithExtension(name)) \in [stem : Stems, ext : {"none", "com", "COM", "TXT"}]
  BY <1>2 DEF NormalizeName, WithExtension
<1>4. NormalizeName(WithExtension(name)).ext = "COM"
  BY DEF NameError
<1> QED BY <1>3, <1>4 DEF Names

(* A file in place of those of its name, whole or for a reason: the drive  *)
(* stays as it should be.                                                  *)
FilesTyped == files \subseteq [name : Names, kept : Nat, sent : Nat] /\ IsFiniteSet(files)

LEMMA PutWhole ==
  ASSUME NEW name \in Names, name.ext \in {"COM", "TXT"}, NEW n \in Nat, n <= MaxFileSize,
         NEW m \in Nat, n = m \/ "request" \in faults', faults \subseteq faults', NEW k \in Nat,
         FilesTyped, FilesWhole, WriteError(name, k) = "none", Put(name, n, m)
  PROVE  FilesTyped' /\ FilesWhole'
<1> DEFINE new == [name |-> name, kept |-> n, sent |-> m]
           rest == files \ Stored(name)
<1>0. files \subseteq [name : Names, kept : Nat, sent : Nat] /\ IsFiniteSet(files)
  BY DEF FilesTyped
<1>1. files' = rest \cup {new}
  BY DEF Put
<1>2. new \in [name : Names, kept : Nat, sent : Nat] /\ new.name = name /\ new.kept = n /\ new.sent = m
  OBVIOUS
<1>3. \A f \in rest : f \in files /\ f.name # name
  BY DEF Stored
<1> HIDE DEF new, rest
<1>4. files' \subseteq [name : Names, kept : Nat, sent : Nat]
  BY <1>0, <1>1, <1>2, <1>3
<1>5. /\ \A f \in files' : f.kept = f.sent \/ "request" \in faults'
      /\ \A f \in files' : f.kept <= MaxFileSize /\ f.name.ext \in {"COM", "TXT"}
      /\ \A f, g \in files' : f.name = g.name => f = g
  BY <1>1, <1>2, <1>3 DEF FilesWhole
<1>6. IsFiniteSet(rest) /\ Cardinality(rest) \in Nat /\ Cardinality(rest) < MaxFiles
  <2>1. Cardinality(files) \in Nat /\ Cardinality(files) <= MaxFiles
    BY <1>0, FS_CardinalityType DEF FilesWhole
  <2>2. CASE Stored(name) = {}
    <3>1. rest = files
      BY <2>2 DEF rest
    <3>2. ~(Cardinality(files) >= MaxFiles)
      BY <2>2 DEF WriteError
    <3> QED BY <1>0, <2>1, <3>1, <3>2, DriveAssumption
  <2>3. CASE Stored(name) # {}
    <3>1. PICK f \in files : f \in Stored(name)
      BY <2>3 DEF Stored
    <3>2. rest \subseteq files \ {f}
      BY <3>1 DEF rest
    <3>3. IsFiniteSet(files \ {f}) /\ Cardinality(files \ {f}) = Cardinality(files) - 1
      BY <1>0, <3>1, FS_RemoveElement
    <3>4. IsFiniteSet(rest) /\ Cardinality(rest) <= Cardinality(files \ {f})
      BY <3>2, <3>3, FS_Subset
    <3>5. Cardinality(rest) \in Nat
      BY <3>4, FS_CardinalityType
    <3> QED BY <2>1, <3>3, <3>4, <3>5, DriveAssumption
  <2> QED BY <2>2, <2>3
<1>7. IsFiniteSet(files') /\ Cardinality(files') <= MaxFiles
  <2>1. IsFiniteSet(files') /\ (Cardinality(files') = Cardinality(rest) \/ Cardinality(files') = Cardinality(rest) + 1)
    BY <1>1, <1>6, FS_AddElement
  <2> QED BY <1>6, <2>1, DriveAssumption
<1> QED BY <1>4, <1>5, <1>7 DEF FilesWhole, FilesTyped

(* So it does when files go, or the file system fails.                     *)
LEMMA FewerWhole ==
  ASSUME FilesTyped, FilesWhole, files' \subseteq files, faults \subseteq faults'
  PROVE  FilesTyped' /\ FilesWhole'
<1>1. IsFiniteSet(files') /\ Cardinality(files') <= Cardinality(files)
  BY FS_Subset DEF FilesTyped
<1>2. Cardinality(files') \in Nat /\ Cardinality(files) \in Nat
  BY <1>1, FS_CardinalityType DEF FilesTyped
<1>3. Cardinality(files') <= MaxFiles
  BY <1>1, <1>2, DriveAssumption DEF FilesWhole
<1> QED BY <1>1, <1>3 DEF FilesWhole, FilesTyped
-----------------------------------------------------------------------------
LEMMA InitInv == Init => Inv
<1> SUFFICES ASSUME Init PROVE Inv
  OBVIOUS
<1> USE DEF Init
<1>1. NoUpload \in UploadRequests
  BY DEF NoUpload, UploadRequests, Names
<1>2. TypeOK
  BY <1>1 DEF TypeOK
<1>3. IsFiniteSet(files) /\ FilesWhole
  BY FS_EmptySet, DriveAssumption DEF FilesWhole
<1>4. \A h \in Handlers : pc[h] = "ready" /\ status[h] = 0
  OBVIOUS
<1>5. RequestsKnown /\ AnswersTrue
  BY <1>4 DEF RequestsKnown, AnswersTrue
<1>6. DirFollowsKey
  BY <1>4 DEF DirFollowsKey, registered
<1> QED BY <1>2, <1>3, <1>5, <1>6 DEF Inv

Labels == {"ready", "parse", "read", "get", "write", "list", "close", "rmdir", "answered"}
Codes == {0, 200, 201, 204, 400, 404, 413, 500, 507}

(* A step of one handler that changes neither session nor files, but goes  *)
(* to a label, with an upload, bytes and a status that are right there.    *)
Moves(h, label, r, n, code) ==
  /\ UNCHANGED <<sessionVars, files, late>>
  /\ faults \subseteq faults' /\ faults' \subseteq {"request", "cleanup"}
  /\ pc' = [pc EXCEPT ![h] = label] /\ req' = [req EXCEPT ![h] = r]
  /\ data' = [data EXCEPT ![h] = n] /\ status' = [status EXCEPT ![h] = code]

Right(h, label, r, n, code) ==
  /\ label \in Labels \ {"close", "rmdir"}
  /\ ~Removing(h) \/ ~dir \/ "cleanup" \in faults' \/ late
  /\ r \in UploadRequests /\ n \in Nat /\ code \in Codes
  /\ label = "read" => r.size + r.overhead <= MaxFileSize + Slack
  /\ label \in {"get", "write"} => n = r.size /\ n <= MaxFileSize
  /\ label = "write" => NameError(GivenName(r)) = "none" /\ kind = "cpm"
  /\ label = "list" => kind = "cpm"
  /\ label # "answered" => code = 0
  /\ code = 500 => kind = "cpm" /\ (~registered \/ "request" \in faults')
  /\ code # 500 => Truth(code, r)

LEMMA HandlerStep ==
  ASSUME Inv, NEW h \in Handlers, NEW label, NEW r, NEW n, NEW code,
         Moves(h, label, r, n, code), Right(h, label, r, n, code)
  PROVE  Inv'
<1>0. /\ TypeOK /\ IsFiniteSet(files) /\ FilesWhole /\ RequestsKnown /\ DirFollowsKey
      /\ \A g \in Handlers : Truth(status[g], req[g])
  BY AnswersTruth DEF Inv
<1>1. /\ UNCHANGED <<kind, removal, dir, files, late>> /\ registered' = registered
      /\ faults \subseteq faults' /\ faults' \subseteq {"request", "cleanup"}
  BY DEF Moves, sessionVars, registered
<1>2. TypeOK'
  BY <1>0, <1>1 DEF TypeOK, Moves, Right, Labels, Codes
<1>3. IsFiniteSet(files)' /\ FilesWhole'
  BY <1>0, <1>1 DEF FilesWhole
<1>4. /\ pc'[h] = label /\ req'[h] = r /\ data'[h] = n /\ status'[h] = code
      /\ \A g \in Handlers \ {h} :
           pc'[g] = pc[g] /\ req'[g] = req[g] /\ data'[g] = data[g] /\ status'[g] = status[g]
  BY <1>0 DEF TypeOK, Moves
<1>5. RequestsKnown'
  BY <1>0, <1>1, <1>4 DEF RequestsKnown, Checked, Right
<1>6. DirFollowsKey'
  <2>1. ~registered /\ dir => (\E g \in Handlers : Removing(g)') \/ Excused'
    <3> SUFFICES ASSUME ~registered, dir PROVE (\E g \in Handlers : Removing(g)') \/ Excused'
      OBVIOUS
    <3>1. CASE Excused
      BY <1>1, <3>1 DEF Excused
    <3>2. CASE Removing(h)
      BY <1>1, <3>2 DEF Right, Excused
    <3>3. CASE \E g \in Handlers \ {h} : Removing(g)
      BY <1>4, <3>3 DEF Removing
    <3> QED BY <1>0, <3>1, <3>2, <3>3 DEF DirFollowsKey
  <2>2. ASSUME NEW g \in Handlers, pc'[g] = "rmdir" PROVE files = {} \/ Excused'
    <3>1. g # h /\ pc[g] = "rmdir"
      BY <1>4, <2>2 DEF Right
    <3> QED BY <1>0, <1>1, <3>1 DEF DirFollowsKey, Excused
  <2> QED BY <1>0, <1>1, <2>1, <2>2 DEF DirFollowsKey
<1>7. AnswersTrue'
  <2>1. \A g \in Handlers \ {h} : Truth(status[g], req[g])'
    BY <1>0, <1>1, <1>4 DEF Truth
  <2>2. Truth(status[h], req[h])'
    BY <1>1, <1>4 DEF Truth, Right
  <2> QED BY <2>1, <2>2 DEF AnswersTrue, Truth
<1> QED BY <1>2, <1>3, <1>5, <1>6, <1>7 DEF Inv

(* What a step leaves alone, as an update.                                 *)
LEMMA Unchanged ==
  ASSUME TypeOK, NEW h \in Handlers
  PROVE  /\ req = [req EXCEPT ![h] = req[h]] /\ data = [data EXCEPT ![h] = data[h]]
         /\ status = [status EXCEPT ![h] = status[h]]
         /\ req[h] \in UploadRequests /\ req[h].size \in Nat /\ data[h] \in Nat
         /\ faults \subseteq {"request", "cleanup"} /\ late \in BOOLEAN
BY DEF TypeOK, UploadRequests

(* statusForError, error by error.                                         *)
LEMMA Statuses ==
  /\ StatusForError("ErrSessionNotFound") = 404 /\ StatusForError("ErrUnsupportedForBare") = 404
  /\ StatusForError("ErrInvalidUpload") = 400 /\ StatusForError("ErrInvalidName") = 400
  /\ StatusForError("ErrFileTooLarge") = 413 /\ StatusForError("ErrTooManyFiles") = 507
  /\ StatusForError("io") = 500
BY DEF StatusForError

(* A handler that answers, the session and the files being as they were.   *)
LEMMA AnswerInv ==
  ASSUME Inv, NEW h \in Handlers, NEW code \in Codes, code # 500 => Truth(code, req[h]),
         code = 500 => kind = "cpm" /\ (~registered \/ "request" \in faults'),
         ~Removing(h) \/ ~dir \/ "cleanup" \in faults' \/ late,
         Answer(h, code), UNCHANGED <<sessionVars, files, req, data, late>>,
         faults \subseteq faults', faults' \subseteq {"request", "cleanup"}
  PROVE  Inv'
<1>1. TypeOK
  BY DEF Inv
<1>2. /\ req = [req EXCEPT ![h] = req[h]] /\ data = [data EXCEPT ![h] = data[h]]
      /\ req[h] \in UploadRequests /\ data[h] \in Nat
  BY <1>1, Unchanged
<1>3. Moves(h, "answered", req[h], data[h], code)
  BY <1>2 DEF Moves, Answer, Goto
<1>4. Right(h, "answered", req[h], data[h], code)
  BY <1>2 DEF Right, Labels
<1> QED BY <1>3, <1>4, HandlerStep

LEMMA PlainTruth ==
  ASSUME NEW r, NEW code \in {200, 400, 507}
  PROVE  code \in Codes /\ code # 500 /\ Truth(code, r)
BY DEF Truth, Codes

(* The steps of an upload up to the drive.                                 *)
LEMMA UploadInv ==
  ASSUME Inv, NEW h \in Handlers,
         Upload(h) \/ ParseForm(h) \/ ReadAll(h) \/ FindSession(h) \/ Done(h)
  PROVE  Inv'
<1>1. TypeOK /\ RequestsKnown
  BY DEF Inv
<1>2. /\ req = [req EXCEPT ![h] = req[h]] /\ data = [data EXCEPT ![h] = data[h]]
      /\ status = [status EXCEPT ![h] = status[h]]
      /\ req[h] \in UploadRequests /\ req[h].size \in Nat /\ data[h] \in Nat
      /\ faults \subseteq {"request", "cleanup"}
  BY <1>1, Unchanged
<1>3. /\ UNCHANGED <<sessionVars, files, late>> /\ ~Removing(h)
      /\ faults \subseteq faults' /\ faults' \subseteq {"request", "cleanup"}
  BY <1>2 DEF Upload, ParseForm, ReadAll, FindSession, Done, history, Removing
<1>4. pc[h] # "answered" => status[h] = 0
  BY <1>1 DEF RequestsKnown
<1>5. CASE Upload(h)
  <2>1. PICK r \in UploadRequests : req' = [req EXCEPT ![h] = r]
    BY <1>5, DriveAssumption DEF Upload
  <2>2. Moves(h, "parse", r, data[h], 0)
    BY <1>2, <1>3, <1>4, <1>5, <2>1 DEF Upload, Goto, Moves
  <2>3. Right(h, "parse", r, data[h], 0)
    BY <1>2, <1>3 DEF Right, Labels, Codes, Truth
  <2> QED BY <2>2, <2>3, HandlerStep
<1>6. CASE ParseForm(h)
  <2>1. UNCHANGED <<req, data>> /\ status[h] = 0
    BY <1>4, <1>6 DEF ParseForm
  <2>2. CASE Answer(h, 400)
    BY <1>3, <2>1, <2>2, AnswerInv, PlainTruth
  <2>3. CASE ~Answer(h, 400)
    <3>1. Moves(h, "read", req[h], data[h], 0) /\ req[h].size + req[h].overhead <= MaxFileSize + Slack
      BY <1>2, <1>3, <1>6, <2>1, <2>3 DEF ParseForm, Goto, Moves
    <3>2. Right(h, "read", req[h], data[h], 0)
      BY <1>2, <1>3, <3>1 DEF Right, Labels, Codes, Truth
    <3> QED BY <3>1, <3>2, HandlerStep
  <2> QED BY <2>2, <2>3
<1>7. CASE ReadAll(h)
  <2>1. /\ pc[h] = "read" /\ req' = req /\ status[h] = 0
        /\ req[h].size + req[h].overhead <= MaxFileSize + Slack
    BY <1>1, <1>4, <1>7 DEF ReadAll, RequestsKnown
  <2>2. CASE LimitReader(req[h].size) > MaxFileSize /\ Answer(h, 413) /\ data' = data
    <3>1. req[h].size > MaxFileSize
      BY <1>2, <2>2, DriveAssumption DEF LimitReader
    <3>2. Truth(413, req[h]) /\ 413 \in Codes
      BY <1>2, <2>1, <3>1, DriveAssumption DEF Truth, Codes
    <3> QED BY <1>3, <2>1, <2>2, <3>2, AnswerInv
  <2>3. CASE Answer(h, 400) /\ data' = data
    BY <1>3, <2>1, <2>3, AnswerInv, PlainTruth
  <2>4. CASE /\ LimitReader(req[h].size) <= MaxFileSize /\ Goto(h, "get") /\ UNCHANGED status
             /\ data' = [data EXCEPT ![h] = LimitReader(req[h].size)]
    <3>1. PICK n : n = LimitReader(req[h].size)
      OBVIOUS
    <3>2. n \in Nat /\ n = req[h].size /\ n <= MaxFileSize
      BY <1>2, <2>4, <3>1, DriveAssumption DEF LimitReader
    <3>3. Moves(h, "get", req[h], n, 0)
      BY <1>2, <1>3, <2>1, <2>4, <3>1 DEF Moves, Goto
    <3>4. Right(h, "get", req[h], n, 0)
      BY <1>2, <1>3, <3>2 DEF Right, Labels, Codes, Truth
    <3> QED BY <3>3, <3>4, HandlerStep
  <2> QED BY <1>7, <2>2, <2>3, <2>4 DEF ReadAll
<1>8. CASE FindSession(h)
  <2>1. UNCHANGED <<req, data>> /\ status[h] = 0 /\ data[h] = req[h].size /\ data[h] <= MaxFileSize
    BY <1>1, <1>4, <1>8 DEF FindSession, RequestsKnown, Checked
  <2>2. CASE FindError(h) = "none" /\ Goto(h, "write") /\ UNCHANGED status
    <3>1. NameError(GivenName(req[h])) = "none" /\ kind = "cpm"
      BY <1>1, <2>2 DEF FindError, TypeOK
    <3>2. Moves(h, "write", req[h], data[h], 0)
      BY <1>2, <1>3, <2>1, <2>2 DEF Moves, Goto
    <3>3. Right(h, "write", req[h], data[h], 0)
      BY <1>2, <1>3, <2>1, <3>1 DEF Right, Labels, Codes, Truth
    <3> QED BY <3>2, <3>3, HandlerStep
  <2>3. CASE FindError(h) # "none" /\ Answer(h, StatusForError(FindError(h)))
    <3>1. PICK code : code = StatusForError(FindError(h))
      OBVIOUS
    <3>2. \/ FindError(h) = "ErrSessionNotFound" /\ ~registered
          \/ FindError(h) = "ErrUnsupportedForBare" /\ kind = "bare"
          \/ FindError(h) \in {"ErrInvalidUpload", "ErrInvalidName"}
      BY <2>3 DEF FindError, NameError
    <3>3. (code = 404 /\ (~registered \/ kind = "bare")) \/ code = 400
      BY <3>1, <3>2, Statuses
    <3>4. code \in Codes /\ code # 500 /\ Truth(code, req[h])
      BY <3>3 DEF Truth, Codes
    <3>5. Answer(h, code)
      BY <2>3, <3>1
    <3> QED BY <1>3, <2>1, <3>4, <3>5, AnswerInv
  <2> QED BY <1>8, <2>2, <2>3 DEF FindSession
<1>9. CASE Done(h)
  <2>1. NoUpload \in UploadRequests
    BY DEF NoUpload, UploadRequests, Names
  <2>2. Moves(h, "ready", NoUpload, 0, 0)
    BY <1>3, <1>9 DEF Done, Goto, Moves
  <2>3. Right(h, "ready", NoUpload, 0, 0)
    BY <1>3, <2>1 DEF Right, Labels, Codes, Truth
  <2> QED BY <2>2, <2>3, HandlerStep
<1> QED BY <1>5, <1>6, <1>7, <1>8, <1>9

(* Those of a list.                                                        *)
LEMMA ListInv ==
  ASSUME Inv, NEW h \in Handlers, ListFiles(h) \/ ReadDir(h)
  PROVE  Inv'
<1>1. TypeOK /\ RequestsKnown /\ DirFollowsKey
  BY DEF Inv
<1>2. /\ req = [req EXCEPT ![h] = req[h]] /\ data = [data EXCEPT ![h] = data[h]]
      /\ status = [status EXCEPT ![h] = status[h]]
      /\ req[h] \in UploadRequests /\ data[h] \in Nat /\ faults \subseteq {"request", "cleanup"}
  BY <1>1, Unchanged
<1>3. /\ UNCHANGED <<sessionVars, files, req, data, late>> /\ ~Removing(h) /\ status[h] = 0
      /\ faults \subseteq faults' /\ faults' \subseteq {"request", "cleanup"}
  <2>1. /\ UNCHANGED <<sessionVars, files, req, data, late>> /\ ~Removing(h) /\ pc[h] # "answered"
        /\ faults' = faults \/ faults' = faults \cup {"request"}
    BY DEF ListFiles, ReadDir, history, Removing, Fault
  <2> QED BY <1>1, <1>2, <2>1 DEF RequestsKnown
<1>4. CASE ListFiles(h)
  <2>1. CASE Answer(h, 404) /\ (~registered \/ kind = "bare")
    <3>1. Truth(404, req[h]) /\ 404 \in Codes
      BY <2>1 DEF Truth, Codes
    <3> QED BY <1>3, <2>1, <3>1, AnswerInv
  <2>2. CASE kind = "cpm" /\ Goto(h, "list") /\ UNCHANGED status
    <3>1. Moves(h, "list", req[h], data[h], 0)
      BY <1>2, <1>3, <2>2 DEF Moves, Goto
    <3>2. Right(h, "list", req[h], data[h], 0)
      BY <1>2, <1>3, <2>2 DEF Right, Labels, Codes, Truth
    <3> QED BY <3>1, <3>2, HandlerStep
  <2> QED BY <1>4, <2>1, <2>2, Statuses DEF ListFiles
<1>5. CASE ReadDir(h)
  <2>1. kind = "cpm"
    BY <1>1, <1>5 DEF ReadDir, RequestsKnown
  <2>2. CASE Answer(h, 200)
    BY <1>3, <2>2, AnswerInv, PlainTruth
  <2>3. CASE Answer(h, 500) /\ (~dir \/ "request" \in faults')
    <3>1. ~registered \/ "request" \in faults'
      BY <1>1, <2>1, <2>3 DEF DirFollowsKey
    <3>2. 500 \in Codes
      BY DEF Codes
    <3> QED BY <1>3, <2>1, <2>3, <3>1, <3>2, AnswerInv
  <2> QED BY <1>5, <2>2, <2>3, Statuses DEF ReadDir, Fault
<1> QED BY <1>4, <1>5

(* WriteFile: an upload that fails before it is stored is answered as the  *)
(* others; else the drive has all of its bytes, or a part if the file      *)
(* system failed.                                                          *)
LEMMA StoreInv ==
  ASSUME Inv, NEW h \in Handlers, NEW name \in Names, name.ext = "COM", NEW part \in 0 .. data[h],
         pc[h] = "write", WriteError(name, data[h]) = "none", Put(name, part, req[h].size),
         UNCHANGED <<sessionVars, req, data>>,
         \/ Answer(h, 201) /\ part = data[h] /\ faults' = faults
         \/ Answer(h, 500) /\ Fault("request")
  PROVE  Inv'
<1>1. /\ TypeOK /\ RequestsKnown /\ DirFollowsKey /\ FilesWhole /\ IsFiniteSet(files) /\ FilesTyped
      /\ \A g \in Handlers : Truth(status[g], req[g])
  BY AnswersTruth DEF Inv, FilesTyped, TypeOK
<1>2. /\ data[h] = req[h].size /\ data[h] <= MaxFileSize /\ kind = "cpm"
      /\ NameError(GivenName(req[h])) = "none" /\ data[h] \in Nat
  BY <1>1, Unchanged DEF RequestsKnown, Checked
<1>3. /\ UNCHANGED <<kind, removal, dir>> /\ registered' = registered /\ dir
      /\ late' = (late \/ \E g \in Handlers : pc[g] = "rmdir")
  BY DEF sessionVars, registered, WriteError, Put
<1>4. /\ faults \subseteq faults' /\ faults' \subseteq {"request", "cleanup"}
      /\ part = req[h].size \/ "request" \in faults'
  <2>1. faults \subseteq {"request", "cleanup"}
    BY <1>1 DEF TypeOK
  <2>2. CASE part = data[h] /\ faults' = faults
    BY <1>2, <2>1, <2>2
  <2>3. CASE faults' = faults \cup {"request"}
    BY <2>1, <2>3
  <2> QED BY <2>2, <2>3 DEF Fault
<1>5. FilesTyped' /\ FilesWhole'
  <2>1. /\ part \in Nat /\ part <= MaxFileSize /\ req[h].size \in Nat /\ name.ext \in {"COM", "TXT"}
    BY <1>2, DriveAssumption
  <2> QED BY <1>1, <1>2, <1>4, <2>1, PutWhole
<1>6. PICK code : (code = 201 \/ (code = 500 /\ "request" \in faults')) /\ Answer(h, code)
  <2>1. CASE Answer(h, 201)
    BY <2>1
  <2>2. CASE Answer(h, 500) /\ Fault("request")
    <3>1. "request" \in faults'
      BY <2>2 DEF Fault
    <3> QED BY <2>2, <3>1
  <2> QED BY <2>1, <2>2
<1>7. /\ pc'[h] = "answered" /\ status'[h] = code
      /\ \A g \in Handlers \ {h} : pc'[g] = pc[g] /\ status'[g] = status[g]
  BY <1>1, <1>6 DEF TypeOK, Answer, Goto
<1>8. TypeOK'
  <2>1. /\ pc' \in [Handlers -> Labels] /\ status' \in [Handlers -> Codes]
    BY <1>1, <1>6 DEF TypeOK, Answer, Goto, Labels, Codes
  <2>2. late' \in BOOLEAN /\ files' \subseteq [name : Names, kept : Nat, sent : Nat]
    BY <1>3, <1>5 DEF FilesTyped
  <2> QED BY <1>1, <1>3, <1>4, <2>1, <2>2 DEF TypeOK, Labels, Codes
<1>9. RequestsKnown'
  BY <1>1, <1>3, <1>7 DEF RequestsKnown, Checked
<1>10. DirFollowsKey'
  <2>1. ~registered => (\E g \in Handlers : Removing(g)') \/ Excused'
    <3> SUFFICES ASSUME ~registered PROVE (\E g \in Handlers : Removing(g)') \/ Excused'
      OBVIOUS
    <3>1. CASE Excused
      BY <1>3, <1>4, <3>1 DEF Excused
    <3>2. CASE \E g \in Handlers : Removing(g)
      <4>1. PICK g \in Handlers : Removing(g)
        BY <3>2
      <4>2. g # h
        BY <4>1 DEF Removing
      <4> QED BY <1>7, <4>1, <4>2 DEF Removing
    <3> QED BY <1>1, <1>3, <3>1, <3>2 DEF DirFollowsKey
  <2>2. ASSUME NEW g \in Handlers, pc'[g] = "rmdir" PROVE Excused'
    <3>1. pc[g] = "rmdir"
      BY <1>7, <2>2
    <3> QED BY <1>3, <3>1 DEF Excused
  <2> QED BY <1>1, <1>3, <2>1, <2>2 DEF DirFollowsKey
<1>11. AnswersTrue'
  <2>1. ASSUME NEW g \in Handlers \ {h} PROVE Truth(status[g], req[g])'
    <3>1. Truth(status[g], req[g]) /\ status'[g] = status[g] /\ req' = req
      BY <1>1, <1>7
    <3> QED BY <1>3, <1>4, <3>1 DEF Truth
  <2>2. Truth(status[h], req[h])'
    BY <1>2, <1>3, <1>6, <1>7 DEF Truth
  <2> QED BY <2>1, <2>2 DEF AnswersTrue, Truth
<1> QED BY <1>5, <1>8, <1>9, <1>10, <1>11 DEF Inv, FilesTyped

LEMMA WriteInv ==
  ASSUME Inv, NEW h \in Handlers, WriteFile(h)
  PROVE  Inv'
<1>n. PICK name : name = NormalizeName(WithExtension(GivenName(req[h])))
  OBVIOUS
<1>e. PICK err : err = WriteError(name, data[h])
  OBVIOUS
<1>1. TypeOK /\ RequestsKnown /\ DirFollowsKey
  BY DEF Inv
<1>2. req[h] \in UploadRequests /\ data[h] \in Nat /\ faults \subseteq {"request", "cleanup"}
  BY <1>1, Unchanged
<1>3. /\ pc[h] = "write" /\ data[h] <= MaxFileSize /\ ~Removing(h)
      /\ NameError(GivenName(req[h])) = "none" /\ kind = "cpm" /\ UNCHANGED <<sessionVars, req, data>>
  BY <1>1 DEF WriteFile, RequestsKnown, Checked, Removing
<1>4. name \in Names /\ name.ext = "COM"
  <2>1. GivenName(req[h]) \in Names
    BY <1>2 DEF GivenName, UploadRequests
  <2> QED BY <1>n, <1>3, <2>1, StoredName
<1>5. CASE err = "none" /\ Answer(h, 201) /\ Put(name, data[h], req[h].size) /\ UNCHANGED faults
  <2>1. data[h] \in 0 .. data[h]
    BY <1>2
  <2> QED BY <1>e, <1>3, <1>4, <1>5, <2>1, StoreInv
<1>6. CASE /\ err = "none" /\ Fault("request") /\ Answer(h, 500)
           /\ \E part \in 0 .. data[h] : Put(name, part, req[h].size)
  BY <1>e, <1>3, <1>4, <1>6, StoreInv
<1>7. CASE err = "none" /\ Fault("request") /\ Answer(h, 500) /\ UNCHANGED <<files, late>>
  <2>1. "request" \in faults' /\ faults \subseteq faults' /\ faults' \subseteq {"request", "cleanup"}
    BY <1>2, <1>7 DEF Fault
  <2>2. 500 \in Codes
    BY DEF Codes
  <2> QED BY <1>3, <1>7, <2>1, <2>2, AnswerInv
<1>8. CASE err # "none" /\ Answer(h, StatusForError(err)) /\ UNCHANGED <<files, history>>
  <2>1. PICK code : code = StatusForError(err)
    OBVIOUS
  <2>2. (err = "io" /\ ~dir) \/ err = "ErrTooManyFiles"
    BY <1>e, <1>2, <1>3, <1>8, DriveAssumption DEF WriteError
  <2>3. (code = 500 /\ ~registered) \/ code = 507
    BY <1>1, <1>3, <2>1, <2>2, Statuses DEF DirFollowsKey
  <2>4. Answer(h, code) /\ faults' = faults /\ UNCHANGED <<files, late>>
    BY <1>8, <2>1 DEF history
  <2>5. code \in Codes /\ (code # 500 => Truth(code, req[h])) /\ (code = 500 => ~registered)
    BY <2>3, PlainTruth DEF Codes
  <2> QED BY <1>2, <1>3, <2>4, <2>5, AnswerInv
<1> QED BY <1>n, <1>e, <1>5, <1>6, <1>7, <1>8, Statuses DEF WriteFile

(* Removal: the key first, then the files, then the directory.             *)
LEMMA RemoveInv ==
  ASSUME Inv, NEW h \in Handlers, Delete(h) \/ Sweep(h) \/ CloseBare(h) \/ RemoveFiles(h) \/ RemoveDir(h)
  PROVE  Inv'
<1>1. /\ TypeOK /\ RequestsKnown /\ DirFollowsKey /\ FilesWhole /\ IsFiniteSet(files) /\ FilesTyped
      /\ \A g \in Handlers : Truth(status[g], req[g])
  BY AnswersTruth DEF Inv, FilesTyped, TypeOK
<1>2. /\ req = [req EXCEPT ![h] = req[h]] /\ data = [data EXCEPT ![h] = data[h]]
      /\ status = [status EXCEPT ![h] = status[h]]
      /\ req[h] \in UploadRequests /\ data[h] \in Nat /\ faults \subseteq {"request", "cleanup"}
  BY <1>1, Unchanged
<1>3. CASE (Delete(h) /\ registered) \/ Sweep(h)
  <2>1. /\ pc[h] = "ready" /\ pc' = [pc EXCEPT ![h] = "close"] /\ registered
        /\ removal' \in {"delete", "sweep"} /\ UNCHANGED <<kind, dir, files, req, data, status, faults, late>>
    BY <1>3 DEF Delete, Sweep, Goto, history
  <2>2. /\ pc'[h] = "close" /\ ~registered' /\ \A g \in Handlers \ {h} : pc'[g] = pc[g]
    BY <1>1, <2>1 DEF TypeOK, registered
  <2>3. TypeOK'
    BY <1>1, <2>1 DEF TypeOK
  <2>4. IsFiniteSet(files)' /\ FilesWhole'
    BY <1>1, <2>1 DEF FilesWhole
  <2>5. RequestsKnown'
    BY <1>1, <2>1, <2>2 DEF RequestsKnown, Checked
  <2>6. DirFollowsKey'
    BY <1>1, <2>1, <2>2 DEF DirFollowsKey, Excused, Removing
  <2>7. AnswersTrue'
    <3>1. ASSUME NEW g \in Handlers PROVE Truth(status[g], req[g])'
      BY <1>1, <2>1, <2>2 DEF Truth
    <3> QED BY <3>1 DEF AnswersTrue, Truth
  <2> QED BY <2>3, <2>4, <2>5, <2>6, <2>7 DEF Inv
<1>4. CASE Delete(h) /\ ~registered
  <2>1. /\ Answer(h, 404) /\ UNCHANGED <<sessionVars, files, req, data, late>> /\ ~Removing(h)
        /\ faults' = faults
    BY <1>4, Statuses DEF Delete, history, sessionVars, Removing
  <2>2. Truth(404, req[h]) /\ 404 \in Codes
    BY <1>4 DEF Truth, Codes
  <2> QED BY <1>2, <2>1, <2>2, AnswerInv
(* A close() of which nobody hears, or that is the answer to DELETE.       *)
<1>5. ASSUME NEW code \in {204, 500}, code = 204 => ~registered /\ files = {} /\ ~dir,
             code = 500 => kind = "cpm" /\ ~registered,
             Removing(h), ~dir \/ "cleanup" \in faults' \/ late, Closed(h, code),
             UNCHANGED <<sessionVars, files, req, data, late>>,
             faults \subseteq faults', faults' \subseteq {"request", "cleanup"}
      PROVE  Inv'
  <2>1. code \in Codes /\ (code # 500 => Truth(code, req[h]))
    BY <1>5 DEF Truth, Codes
  <2>2. CASE Answer(h, code)
    BY <1>5, <2>1, <2>2, AnswerInv
  <2>3. CASE Goto(h, "ready") /\ UNCHANGED status
    <3>1. status[h] = 0
      BY <1>1, <1>5 DEF RequestsKnown, Removing
    <3>2. Moves(h, "ready", req[h], data[h], 0)
      BY <1>2, <1>5, <2>3, <3>1 DEF Moves, Goto
    <3>3. Right(h, "ready", req[h], data[h], 0)
      BY <1>2, <1>5 DEF Right, Labels, Codes, Truth
    <3> QED BY <3>2, <3>3, HandlerStep
  <2> QED BY <1>5, <2>2, <2>3 DEF Closed
<1>6. CASE CloseBare(h)
  <2>1. /\ Removing(h) /\ ~registered /\ files = {} /\ ~dir
    BY <1>1, <1>6 DEF CloseBare, RequestsKnown, DirFollowsKey, Removing
  <2>2. Closed(h, 204) /\ UNCHANGED <<sessionVars, files, req, data, late>> /\ faults' = faults
    BY <1>6 DEF CloseBare, history
  <2> QED BY <1>2, <1>5, <2>1, <2>2
<1>7. CASE RemoveFiles(h)
  <2>1. /\ UNCHANGED <<kind, removal, dir, req, data, status, late>> /\ registered' = registered
        /\ pc[h] = "close" /\ pc' = [pc EXCEPT ![h] = "rmdir"] /\ kind = "cpm" /\ ~registered
    BY <1>1, <1>7 DEF RemoveFiles, RequestsKnown, sessionVars, Goto, registered
  <2>2. /\ files' \subseteq files /\ faults \subseteq faults' /\ faults' \subseteq {"request", "cleanup"}
        /\ files' = {} \/ "cleanup" \in faults'
    BY <1>2, <1>7 DEF RemoveFiles, Fault
  <2>3. /\ pc'[h] = "rmdir" /\ \A g \in Handlers \ {h} : pc'[g] = pc[g]
    BY <1>1, <2>1 DEF TypeOK
  <2>4. FilesTyped' /\ FilesWhole'
    BY <1>1, <2>2, FewerWhole
  <2>5. TypeOK'
    BY <1>1, <2>1, <2>2, <2>4 DEF TypeOK, FilesTyped
  <2>6. RequestsKnown'
    BY <1>1, <2>1, <2>3 DEF RequestsKnown, Checked
  <2>7. DirFollowsKey'
    <3>1. \A g \in Handlers : pc'[g] = "rmdir" => files' = {} \/ Excused'
      BY <1>1, <2>1, <2>2, <2>3 DEF DirFollowsKey, Excused
    <3>2. \E g \in Handlers : Removing(g)'
      BY <2>3 DEF Removing
    <3> QED BY <1>1, <2>1, <2>2, <3>1, <3>2 DEF DirFollowsKey
  <2>8. AnswersTrue'
    <3>1. ASSUME NEW g \in Handlers PROVE Truth(status[g], req[g])'
      BY <1>1, <2>1, <2>2 DEF Truth
    <3> QED BY <3>1 DEF AnswersTrue, Truth
  <2> QED BY <2>4, <2>5, <2>6, <2>7, <2>8 DEF Inv, FilesTyped
<1>8. CASE RemoveDir(h)
  <2>1. /\ pc[h] = "rmdir" /\ Removing(h) /\ ~registered /\ kind = "cpm"
        /\ UNCHANGED <<kind, removal, files, req, data, late>> /\ registered' = registered
    BY <1>1, <1>8 DEF RemoveDir, RequestsKnown, registered, Removing
  <2>2. CASE files # {} /\ Closed(h, 500) /\ UNCHANGED <<dir, faults>>
    <3>1. "cleanup" \in faults \/ late
      BY <1>1, <2>1, <2>2 DEF DirFollowsKey, Excused
    <3>2. UNCHANGED <<sessionVars, files, req, data, late>>
      BY <2>1, <2>2 DEF sessionVars
    <3> QED BY <1>2, <1>5, <2>1, <2>2, <3>1, <3>2
  <2>3. CASE Fault("cleanup") /\ Closed(h, 500) /\ UNCHANGED dir
    <3>1. "cleanup" \in faults' /\ faults \subseteq faults' /\ faults' \subseteq {"request", "cleanup"}
      BY <1>2, <2>3 DEF Fault
    <3>2. UNCHANGED <<sessionVars, files, req, data, late>>
      BY <2>1, <2>3 DEF sessionVars
    <3>3. ~dir \/ "cleanup" \in faults' \/ late
      BY <3>1
    <3>4. 500 \in {204, 500} /\ (500 = 204 => ~registered /\ files = {} /\ ~dir)
      OBVIOUS
    <3>5. Closed(h, 500) /\ Removing(h) /\ (500 = 500 => kind = "cpm" /\ ~registered)
      BY <2>1, <2>3
    <3> QED BY <1>5, <3>1, <3>2, <3>3, <3>4, <3>5
  <2>4. CASE files = {} /\ dir' = FALSE /\ Closed(h, 204) /\ UNCHANGED faults
    <3>1. PICK label, code : /\ pc' = [pc EXCEPT ![h] = label] /\ status' = [status EXCEPT ![h] = code]
                             /\ (label = "answered" /\ code = 204) \/ (label = "ready" /\ code = 0)
      <4>1. CASE Answer(h, 204)
        BY <4>1 DEF Answer, Goto
      <4>2. CASE Goto(h, "ready") /\ UNCHANGED status
        <5>1. status[h] = 0
          BY <1>1, <2>1 DEF RequestsKnown
        <5> QED BY <1>2, <4>2, <5>1 DEF Goto
      <4> QED BY <2>4, <4>1, <4>2 DEF Closed
    <3>2. /\ pc'[h] = label /\ status'[h] = code
          /\ \A g \in Handlers \ {h} : pc'[g] = pc[g] /\ status'[g] = status[g]
      BY <1>1, <3>1 DEF TypeOK
    <3>3. TypeOK'
      <4>1. pc' \in [Handlers -> Labels] /\ status' \in [Handlers -> Codes]
        BY <1>1, <3>1 DEF TypeOK, Labels, Codes
      <4>2. UNCHANGED <<kind, removal, files, req, data, late, faults>>
        BY <2>1, <2>4
      <4>3. dir' \in BOOLEAN
        BY <2>4, Zenon
      <4>4. late' \in BOOLEAN
        BY <1>1, <4>2, Zenon DEF TypeOK
      <4> QED BY <1>1, <4>1, <4>2, <4>3, <4>4 DEF TypeOK, Labels, Codes
    <3>4. IsFiniteSet(files)' /\ FilesWhole'
      BY <1>1, <2>1, <2>4 DEF FilesWhole
    <3>5. RequestsKnown'
      BY <1>1, <2>1, <3>1, <3>2 DEF RequestsKnown, Checked
    <3>6. DirFollowsKey'
      BY <2>1, <2>4 DEF DirFollowsKey
    <3>7. AnswersTrue'
      <4>1. ASSUME NEW g \in Handlers PROVE Truth(status[g], req[g])'
        <5>1. status'[g] = status[g] \/ status'[g] = 204 \/ status'[g] = 0
          BY <3>1, <3>2
        <5>2. CASE status'[g] = status[g]
          BY <1>1, <2>1, <2>4, <5>2 DEF Truth
        <5>3. CASE status'[g] = 204 \/ status'[g] = 0
          BY <2>1, <2>4, <5>3 DEF Truth
        <5> QED BY <5>1, <5>2, <5>3
      <4> QED BY <4>1 DEF AnswersTrue, Truth
    <3> QED BY <3>3, <3>4, <3>5, <3>6, <3>7 DEF Inv
  <2> QED BY <1>8, <2>2, <2>3, <2>4, Statuses DEF RemoveDir
<1> QED BY <1>3, <1>4, <1>6, <1>7, <1>8

(* The program's own files.                                                *)
LEMMA ProgramInv ==
  ASSUME Inv, ProgramWrites \/ ProgramErases
  PROVE  Inv'
<1>1. /\ TypeOK /\ RequestsKnown /\ DirFollowsKey /\ FilesWhole /\ IsFiniteSet(files) /\ FilesTyped
      /\ \A g \in Handlers : Truth(status[g], req[g])
  BY AnswersTruth DEF Inv, FilesTyped, TypeOK
<1>2. /\ UNCHANGED <<kind, removal, dir, pc, req, data, status, faults>> /\ registered' = registered
      /\ late \in BOOLEAN
  BY <1>1 DEF ProgramWrites, ProgramErases, sessionVars, handlerVars, history, registered, TypeOK
<1>3. /\ FilesTyped' /\ FilesWhole' /\ late' \in BOOLEAN /\ (late => late')
      /\ ~dir => files' \subseteq files
      /\ (\E g \in Handlers : pc[g] = "rmdir") => late' \/ files' \subseteq files
  <2>1. CASE ProgramWrites
    <3>1. PICK s \in Stems : /\ WriteError([stem |-> s, ext |-> "TXT"], MaxFileSize) = "none" /\ dir
                             /\ Put([stem |-> s, ext |-> "TXT"], MaxFileSize, MaxFileSize)
      BY <2>1 DEF ProgramWrites
    <3>2. PICK name : name = [stem |-> s, ext |-> "TXT"]
      OBVIOUS
    <3>3. name \in Names /\ name.ext \in {"COM", "TXT"}
      BY <3>2 DEF Names
    <3>4. MaxFileSize \in Nat /\ MaxFileSize <= MaxFileSize
      BY DriveAssumption
    <3>5. FilesTyped' /\ FilesWhole'
      BY <1>1, <1>2, <3>1, <3>2, <3>3, <3>4, PutWhole
    <3>6. late' = (late \/ \E g \in Handlers : pc[g] = "rmdir")
      BY <3>1 DEF Put
    <3> QED BY <1>2, <3>1, <3>5, <3>6
  <2>2. CASE ProgramErases
    <3>1. files' \subseteq files /\ late' = late
      BY <2>2 DEF ProgramErases, history
    <3> QED BY <1>1, <1>2, <3>1, FewerWhole
  <2> QED BY <2>1, <2>2
<1>4. TypeOK'
  BY <1>1, <1>2, <1>3 DEF TypeOK, FilesTyped
<1>5. RequestsKnown'
  BY <1>1, <1>2 DEF RequestsKnown, Checked
<1>6. DirFollowsKey'
  <2>1. Excused => Excused'
    BY <1>2, <1>3 DEF Excused
  <2>2. \A g \in Handlers : Removing(g)' <=> Removing(g)
    BY <1>2 DEF Removing
  <2>3. ASSUME NEW g \in Handlers, pc[g] = "rmdir" PROVE files' = {} \/ Excused'
    <3>1. files = {} \/ Excused
      BY <1>1, <2>3 DEF DirFollowsKey
    <3>2. late' \/ files' \subseteq files
      BY <1>3, <2>3
    <3> QED BY <2>1, <3>1, <3>2 DEF Excused
  <2> QED BY <1>1, <1>2, <1>3, <2>1, <2>2, <2>3 DEF DirFollowsKey
<1>7. AnswersTrue'
  <2>1. ASSUME NEW g \in Handlers PROVE Truth(status[g], req[g])'
    BY <1>1, <1>2, <1>3 DEF Truth
  <2> QED BY <2>1 DEF AnswersTrue, Truth
<1> QED BY <1>3, <1>4, <1>5, <1>6, <1>7 DEF Inv, FilesTyped
-----------------------------------------------------------------------------
LEMMA StepInv == Inv /\ [Next]_vars => Inv'
<1> SUFFICES ASSUME Inv, [Next]_vars PROVE Inv'
  OBVIOUS
<1>1. CASE \E h \in Handlers : Upload(h) \/ ListFiles(h) \/ Delete(h) \/ Sweep(h) \/ Serve(h)
  BY <1>1, UploadInv, ListInv, WriteInv, RemoveInv DEF Serve
<1>2. CASE ProgramWrites \/ ProgramErases
  BY <1>2, ProgramInv
<1>3. CASE UNCHANGED vars
  <2>1. UNCHANGED <<kind, removal, dir, files, pc, req, data, status, faults, late>>
    BY <1>3 DEF vars, sessionVars, handlerVars, history
  <2> QED BY <2>1 DEF Inv, TypeOK, FilesWhole, RequestsKnown, Checked, DirFollowsKey, AnswersTrue,
                      Excused, Removing, registered
<1> QED BY <1>1, <1>2, <1>3 DEF Next

(* Every reachable state satisfies the inductive invariant.                *)
THEOREM Invariance == Spec => []Inv
BY InitInv, StepInv, PTL DEF Spec

(* Every reachable state has the types of TypeOK.                          *)
THEOREM TypeCorrect == Spec => []TypeOK
<1>1. Inv => TypeOK
  BY DEF Inv
<1> QED BY Invariance, <1>1, PTL

(* No upload, list, removal or program leaves a file cut short while the   *)
(* file system works, and the limit of files is never exceeded, for any    *)
(* limits and any uploads.                                                 *)
THEOREM AllFilesWhole == Spec => []FilesWhole
<1>1. Inv => FilesWhole
  BY DEF Inv
<1> QED BY Invariance, <1>1, PTL

(* The status of every answer tells the truth about the request and the    *)
(* session, however the requests interleave with a removal and whatever    *)
(* operation of the file system fails.                                     *)
THEOREM AllAnswersTrue == Spec => []AnswersTrue
<1>1. Inv => AnswersTrue
  BY DEF Inv
<1> QED BY Invariance, <1>1, PTL

-----------------------------------------------------------------------------
(* A directory that was removed is empty, and no step makes it again: not  *)
(* the upload that had found the session, and not its program.             *)
Gone == files = {} /\ ~dir

LEMMA GoneStep ==
  ASSUME [Next]_vars
  PROVE  (~dir => ~dir') /\ (~registered => ~registered')
<1>1. ASSUME NEW h \in Handlers, WriteFile(h) \/ RemoveFiles(h) \/ RemoveDir(h)
      PROVE  (~dir => ~dir') /\ (~registered => ~registered')
  <2>1. removal' = removal /\ (dir' = dir \/ dir' = FALSE)
    BY <1>1 DEF WriteFile, RemoveFiles, RemoveDir, sessionVars
  <2> QED BY <2>1 DEF registered
<1>2. CASE ProgramWrites \/ ProgramErases
  <2>1. UNCHANGED <<removal, dir>>
    BY <1>2 DEF ProgramWrites, ProgramErases, sessionVars
  <2> QED BY <2>1 DEF registered
<1>3. ASSUME NEW h \in Handlers, Delete(h) \/ Sweep(h) \/ CloseBare(h)
      PROVE  (~dir => ~dir') /\ (~registered => ~registered')
  <2>1. dir' = dir /\ (removal' = removal \/ removal' \in {"delete", "sweep"})
    BY <1>3 DEF Delete, Sweep, CloseBare, sessionVars
  <2> QED BY <2>1 DEF registered
<1>4. CASE \E h \in Handlers : \/ Upload(h) \/ ListFiles(h) \/ ParseForm(h) \/ ReadAll(h)
                              \/ FindSession(h) \/ ReadDir(h) \/ Done(h)
  BY <1>4 DEF Upload, ListFiles, ParseForm, ReadAll, FindSession, ReadDir, Done, sessionVars, registered
<1>5. CASE UNCHANGED vars
  BY <1>5 DEF vars, sessionVars, registered
<1> QED BY <1>1, <1>2, <1>3, <1>4, <1>5 DEF Next, Serve

(* Once the directory of a session is removed nothing of it comes back,    *)
(* whatever uploads are under way and whatever its program does.           *)
THEOREM RemovedForGood == Spec => [](~dir => []Gone)
<1>1. [Next]_vars => (~dir => ~dir')
  BY GoneStep
<1>2. Inv => (~dir <=> Gone)
  BY DEF Inv, DirFollowsKey, Gone
<1> QED BY Invariance, <1>1, <1>2, PTL DEF Spec

(* When the removal of a session is over its directory is gone, or the     *)
(* file system failed the cleanup, or a file was stored in the middle of   *)
(* it: an upload that wrote before the removal began does no harm.         *)
Over == \A h \in Handlers : ~Removing(h)

THEOREM RemovalRemoves == Spec => [](~registered /\ Over => Gone \/ Excused)
<1>1. Inv => (~registered /\ Over => Gone \/ Excused)
  BY DEF Inv, DirFollowsKey, Gone, Over
<1> QED BY Invariance, <1>1, PTL

(* Hence the only thing NothingLeft takes from fairness is that the close  *)
(* of a removed session comes to its end.                                  *)
THEOREM NothingLeftOnceClosed == Spec /\ (~registered ~> Over) => NothingLeft
<1>1. [Next]_vars => (~registered => ~registered')
  BY GoneStep
<1>2. Gone => ~dir
  BY DEF Gone
<1>3. Excused <=> "cleanup" \in faults \/ late
  BY DEF Excused
<1>4. Gone <=> files = {} /\ ~dir
  BY DEF Gone
<1> QED BY RemovedForGood, RemovalRemoves, <1>1, <1>2, <1>3, <1>4, PTL DEF NothingLeft, Spec
=============================================================================
