------------------------------ MODULE PostBody ------------------------------
(***************************************************************************)
(* The body of one POST request: proxygen's RFC1867Codec takes it apart    *)
(* and calls HandlerBase::PostBodyCallback, which keeps the parameters and *)
(* writes the files; at its end EditHandler::processUpload reports the     *)
(* file.  The codec, std::ofstream and the disk are external, modelled     *)
(* from how the code uses them: a part begins, its data comes in pieces,   *)
(* each an IOBuf that may be a chain of buffers, and it ends; a negative   *)
(* answer stops the codec; a body that ends early ends the part under way  *)
(* with onFileEnd(false), and may be reported by onError as well.          *)
(***************************************************************************)
EXTENDS Naturals, Sequences

CONSTANTS
    Names,               \* names of form fields
    Csrf, Upload,        \* two of them: the fields the handler asks for
    MaxParts,            \* bound: parts of a body
    MaxPieces,           \* bound: pieces of a part
    MaxBuffers,          \* bound: buffers of a piece
    Failures,            \* which of "open", "write", "close" may fail
    None

ASSUME PostBodyAssumption ==
    /\ Csrf \in Names /\ Upload \in Names
    /\ MaxParts \in Nat /\ MaxPieces \in Nat /\ MaxBuffers \in Nat
    /\ Failures \subseteq {"open", "write", "close"}

Parts == 1..MaxParts

ASSUME NoneAssumption == None \notin Names \cup Parts

Types == {"VALUE", "FILE_UPLOAD"}

VARIABLES
    codec,               \* what postParser is doing
    parts,               \* the parts begun so far
    params,              \* postParams
    stream,              \* saveFile: the file it is open for, and good()
    uploadFileParam,     \* the name in it, or None before the first
    disk,                \* disk[p]: buffers in the file made for part p
    page,                \* the answer
    failed               \* <<op, p>>: op failed on the file of p; history

vars == <<codec, parts, params, stream, uploadFileParam, disk, page, failed>>

(* A parameter stands for the part it came from.                           *)
Param == [type : Types, part : Parts]

TypeOK ==
    /\ codec \in {"absent", "between", "value", "file", "stopped",
                  "malformed", "over"}
    /\ parts \in Seq([name : Names, type : Types, buffers : Nat,
                     rest : Nat, ended : BOOLEAN])
    /\ Len(parts) <= MaxParts
    /\ params \in [Names -> Param \cup {None}]
    /\ stream \in [file : Parts \cup {None}, good : BOOLEAN]
    /\ uploadFileParam \in Names \cup {None}
    /\ disk \in [Parts -> 0..MaxPieces]
    /\ page \in [kind : {"none", "error"}] \cup
                [kind : {"saved"}, part : Parts]
    /\ failed \subseteq {"open", "write", "close"} \X Parts

(* onRequest makes a codec for multipart/form-data only.                   *)
Init ==
    /\ codec \in {"absent", "between"}
    /\ parts = <<>>
    /\ params = [n \in Names |-> None]
    /\ stream = [file |-> None, good |-> TRUE]
    /\ uploadFileParam = None
    /\ disk = [p \in Parts |-> 0]
    /\ page = [kind |-> "none"]
    /\ failed = {}

-----------------------------------------------------------------------------
(* Operations of std::ofstream.  open on a stream that is open fails, and  *)
(* leaves it open; a successful open clears the state.                     *)

This == Len(parts)

Outcomes(op) == IF op \in Failures THEN {"ok", "failed"} ELSE {"ok"}

Note(op, p, outcome) ==
    failed' = IF outcome = "failed" THEN failed \cup {<<op, p>>} ELSE failed

NoParams == [n \in Names |-> None]

Opened(p, outcome) ==
    IF stream.file = None /\ outcome = "ok" THEN [file |-> p, good |-> TRUE]
                                            ELSE [stream EXCEPT !.good = FALSE]

(* Closing writes what was buffered; failing, some of it is lost.          *)
Close(outcome) ==
    /\ stream' = [file |-> None, good |-> outcome = "ok"]
    /\ \E left \in 0..MaxPieces :
          /\ disk' = [disk EXCEPT ![stream.file] = left]
          /\ IF outcome = "ok" THEN left = disk[stream.file]
                               ELSE left < disk[stream.file]

-----------------------------------------------------------------------------
(* The codec's calls.                                                      *)

NextPart(n, type) == /\ codec = "between" /\ This < MaxParts
                     /\ parts' = Append(parts, [name |-> n, type |-> type,
                                                buffers |-> 0, rest |-> 0,
                                                ended |-> FALSE])

EndPart == /\ codec' = "between"
           /\ parts' = [parts EXCEPT ![This].ended = TRUE]

ValueStart(n) ==
    /\ NextPart(n, "VALUE")
    /\ codec' = "value"
    /\ UNCHANGED <<params, stream, uploadFileParam, disk, page, failed>>

OnParam ==
    /\ codec = "value" /\ EndPart
    /\ params' = [params EXCEPT ![parts[This].name] =
                     [type |-> "VALUE", part |-> This]]
    /\ UNCHANGED <<stream, uploadFileParam, disk, page, failed>>

OnFileStart(n) ==
    /\ NextPart(n, "FILE_UPLOAD")
    /\ \E outcome \in Outcomes("open") :
          /\ stream' = Opened(This + 1, outcome)
          /\ Note("open", This + 1, outcome)
    /\ IF stream'.file = None
       THEN codec' = "stopped" /\ UNCHANGED <<params, uploadFileParam>>
       ELSE /\ codec' = "file"
            /\ uploadFileParam' = n
            /\ params' = [params EXCEPT ![n] = [type |-> "FILE_UPLOAD",
                                                part |-> This + 1]]
    /\ UNCHANGED <<disk, page>>

(* Mutant: the data is written before the check and after it.              *)
WrittenTwice == [disk EXCEPT ![stream.file] = @ + 2]

(* data() and length() are those of the first buffer of the chain.         *)
Written == [disk EXCEPT ![stream.file] = @ + 1]

(* Failing, a write may lose what was still buffered of the earlier ones.  *)
Damaged == {[disk EXCEPT ![stream.file] = left] : left \in 0..disk[stream.file]}

Writes(outcome) == /\ outcome = "ok"      => disk' = Written
                   /\ outcome = "failed"  => disk' \in Damaged
                   /\ outcome = "refused" => disk' = disk

(* A stream that is not good refuses the data.  Without it, and after a    *)
(* write that failed, the codec stops; the parameter stays.                *)
OnFileData ==
    /\ codec = "file"
    /\ parts[This].buffers - parts[This].rest < MaxPieces
    /\ \E n \in 1..MaxBuffers :
          parts' = [parts EXCEPT ![This].buffers = @ + n,
                                 ![This].rest = @ + (n - 1)]
    /\ \E outcome \in IF stream.good THEN Outcomes("write") ELSE {"refused"} :
          /\ stream' = [stream EXCEPT !.good = (outcome = "ok")]
          /\ codec' = IF outcome = "ok" THEN "file" ELSE "stopped"
          /\ Note("write", This, outcome)
          /\ Writes(outcome)
    /\ UNCHANGED <<params, uploadFileParam, page>>

(* Mutant: the file is closed by the destructor.                           *)
LeaveOpen ==
    /\ codec = "file" /\ EndPart
    /\ UNCHANGED <<params, stream, uploadFileParam, disk, page, failed>>

(* onFileEnd(true): whether close() worked is not looked at.               *)
OnFileEnd ==
    /\ codec = "file" /\ EndPart
    /\ IF stream.good
       THEN \E outcome \in Outcomes("close") :
               /\ outcome = "failed" => disk[stream.file] > 0
               /\ Close(outcome) /\ Note("close", This, outcome)
       ELSE UNCHANGED <<stream, disk, failed>>
    /\ UNCHANGED <<params, uploadFileParam, page>>

(* onError: the body is malformed; nothing more is read from it.           *)
OnError ==
    /\ codec \in {"between", "value", "file", "stopped"}
    /\ codec' = "malformed"
    /\ params' = NoParams
    /\ UNCHANGED <<parts, stream, uploadFileParam, disk, page, failed>>

-----------------------------------------------------------------------------
(* The end of the request.                                                 *)

(* Mutant: onFileEnd(false) only logs.                                     *)
JustLogged == params

(* onFileEnd(false); the name of a part that is a value was never kept, so *)
(* it is the last file's that is erased.                                   *)
Abandoned == IF stream.good /\ uploadFileParam # None
             THEN [params EXCEPT ![uploadFileParam] = None] ELSE params

(* What onIngressEOM leaves of the parameters: a part under way is         *)
(* abandoned, and onError may have been called.                            *)
AtEom == CASE codec \in {"absent", "between"} -> {params}
           [] codec = "file" -> {Abandoned}
           [] codec \in {"value", "stopped", "malformed"} ->
                  {params, Abandoned}

(* processUpload, for whom Sessions has the rest: the key may be wrong.    *)
Uploaded(ps) ==
    IF /\ ps[Csrf] # None /\ ps[Csrf].type = "VALUE"
       /\ ps[Upload] # None /\ ps[Upload].type = "FILE_UPLOAD"
    THEN {[kind |-> "error"], [kind |-> "saved", part |-> ps[Upload].part]}
    ELSE {[kind |-> "error"]}

OnEOM ==
    /\ codec # "over" /\ codec' = "over"
    /\ params' \in AtEom \cup IF codec = "absent" THEN {} ELSE {NoParams}
    /\ page' \in Uploaded(params')
    /\ UNCHANGED <<parts, stream, uploadFileParam, disk, failed>>

(* The connection is lost: ~ofstream closes the file, which stays.         *)
Disconnect ==
    /\ codec # "over" /\ codec' = "over"
    /\ UNCHANGED <<parts, params, stream, uploadFileParam, disk, page, failed>>

Next == \/ \E n \in Names : ValueStart(n) \/ OnFileStart(n)
        \/ OnParam \/ OnFileData \/ OnFileEnd \/ OnError
        \/ OnEOM \/ Disconnect

Spec == Init /\ [][Next]_vars

-----------------------------------------------------------------------------
(* Properties.                                                             *)

(* What processRequest reads was sent to its end, whatever came before it: *)
(* no parameter stands for a part that was cut short or refused, unless    *)
(* writing that part's own file failed, for then the parameter stays.      *)
SeenHasEnded ==
    page.kind # "none" =>
        \A n \in Names : LET p == params[n].part
                         IN  params[n] # None => \/ parts[p].ended
                                                 \/ <<"write", p>> \in failed

(* A file that the page says was uploaded and saved holds every piece that *)
(* was sent for it, but for what followed the first buffer of a chain,     *)
(* unless writing or closing that very file failed: no other part of the   *)
(* body, whatever became of it, takes anything from it.                    *)
ReportedIsWhole ==
    page.kind = "saved" =>
        LET p == page.part
        IN  \/ disk[p] = parts[p].buffers - parts[p].rest
            \/ <<"write", p>> \in failed \/ <<"close", p>> \in failed

(* The handler stops the codec only when opening or writing the file of    *)
(* the part under way failed: however many files come in one body, and     *)
(* however they end, none finds the stream unusable because of the ones    *)
(* before it.                                                              *)
StopsOnlyOnFailure ==
    codec = "stopped" => <<"open", This>> \in failed \/ <<"write", This>> \in failed

=============================================================================
