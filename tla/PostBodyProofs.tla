--------------------------- MODULE PostBodyProofs ---------------------------
(***************************************************************************)
(* Proofs about PostBody for bodies of any number of parts and pieces, in  *)
(* chains of any length, whichever file operations fail.                   *)
(***************************************************************************)
EXTENDS PostBody, TLAPS

Part == [name : Names, type : Types, buffers : Nat, rest : Nat, ended : BOOLEAN]

(* The file of part p holds the first buffer of each of its pieces.        *)
Holds(p) == disk[p] = parts[p].buffers - parts[p].rest

Failed(op, p) == <<op, p>> \in failed

(* The stream is open for the part under way, and for no other.            *)
StreamFits ==
    /\ codec \in {"absent", "between", "value"} => stream.file = None
    /\ codec \in {"value", "file"} => Len(parts) > 0
    /\ codec = "file" => /\ stream.good /\ stream.file = This
                         /\ uploadFileParam \in Names
                         /\ Holds(This)
    /\ \A p \in Parts : p > Len(parts) => disk[p] = 0
    /\ codec = "stopped" => Failed("open", This) \/ Failed("write", This)

IInv == TypeOK /\ StreamFits

(* Of the parameters only the file under way has not ended, and one whose  *)
(* file could not be written.                                              *)
Known(n) == params[n] # None => /\ params[n].part \in 1..Len(parts)
                                /\ params[n].type = parts[params[n].part].type

Ended(n) == params[n] # None => \/ parts[params[n].part].ended
                                \/ Failed("write", params[n].part)

UnderWay(n) == codec = "file" /\ n = uploadFileParam /\ params[n].part = This

ParamsFit ==
    /\ codec = "value" => parts[This].type = "VALUE"
    /\ codec = "file" => ~parts[This].ended
    /\ codec # "over" => /\ page.kind = "none"
                         /\ \A n \in Names : Known(n) /\ (Ended(n) \/ UnderWay(n))
    /\ page.kind # "none" => \A n \in Names : Known(n) /\ Ended(n)

FilesWhole ==
    /\ \A p \in 1..Len(parts) :
          parts[p].type = "FILE_UPLOAD" /\ parts[p].ended =>
              Holds(p) \/ Failed("close", p)
    /\ page.kind = "saved" =>
          /\ page.part \in 1..Len(parts)
          /\ \/ Holds(page.part)
             \/ Failed("write", page.part) \/ Failed("close", page.part)

-----------------------------------------------------------------------------

THEOREM InitIInv == Init => IInv /\ ParamsFit /\ FilesWhole
<1> SUFFICES ASSUME Init PROVE IInv /\ ParamsFit /\ FilesWhole
  OBVIOUS
<1>1. parts = <<>> /\ Len(parts) = 0
  BY DEF Init
<1>2. TypeOK
  <2>1. parts \in Seq([name : Names, type : Types, buffers : Nat,
                       rest : Nat, ended : BOOLEAN]) /\ Len(parts) <= MaxParts
    BY <1>1, PostBodyAssumption
  <2>2. disk \in [Parts -> 0..MaxPieces]
    BY PostBodyAssumption DEF Init
  <2> QED BY <2>1, <2>2 DEF Init, TypeOK
<1>3. StreamFits
  BY <1>1, PostBodyAssumption DEF Init, StreamFits
<1>4. ParamsFit /\ FilesWhole
  BY <1>1 DEF Init, ParamsFit, Known, Ended, FilesWhole
<1> QED BY <1>2, <1>3, <1>4 DEF IInv

(* A part begins.                                                          *)
LEMMA NextPartGrows ==
    ASSUME TypeOK, NEW n \in Names, NEW type \in Types, NextPart(n, type)
    PROVE  /\ parts' \in Seq(Part) /\ Len(parts') = Len(parts) + 1
           /\ Len(parts') \in Parts
           /\ \A p \in 1..Len(parts) : parts'[p] = parts[p]
           /\ parts'[Len(parts')] = [name |-> n, type |-> type, buffers |-> 0,
                                     rest |-> 0, ended |-> FALSE]
<1>1. parts \in Seq(Part) /\ Len(parts) < MaxParts
  BY DEF TypeOK, Part, NextPart, This
<1>2. [name |-> n, type |-> type, buffers |-> 0, rest |-> 0, ended |-> FALSE] \in Part
  BY PostBodyAssumption DEF Part
<1>3. parts' = Append(parts, [name |-> n, type |-> type, buffers |-> 0,
                              rest |-> 0, ended |-> FALSE])
  BY DEF NextPart
<1> HIDE DEF Part
<1>4. Len(parts) \in Nat
  BY <1>1
<1>5. Len(parts) + 1 \in Parts
  BY <1>1, <1>4, PostBodyAssumption DEF Parts
<1> QED BY <1>1, <1>2, <1>3, <1>4, <1>5

(* A part ends.                                                            *)
LEMMA EndPartKeeps ==
    ASSUME IInv, codec \in {"value", "file"}, EndPart
    PROVE  /\ parts' \in Seq(Part) /\ Len(parts') = Len(parts)
           /\ This \in 1..Len(parts) /\ This \in Parts
           /\ \A p \in 1..Len(parts) :
                 /\ parts'[p].type = parts[p].type
                 /\ parts'[p].buffers = parts[p].buffers
                 /\ parts'[p].rest = parts[p].rest
                 /\ parts'[p].name = parts[p].name
                 /\ parts'[p].ended = (parts[p].ended \/ p = This)
<1>1. parts \in Seq(Part) /\ Len(parts) > 0 /\ Len(parts) <= MaxParts
  BY DEF IInv, TypeOK, StreamFits, Part
<1>2. This \in 1..Len(parts) /\ This \in Parts
  BY <1>1, PostBodyAssumption DEF This, Parts
<1>3. parts' = [parts EXCEPT ![This].ended = TRUE]
  BY DEF EndPart
<1>4. \A p \in 1..Len(parts) : parts[p] \in Part
  BY <1>1
<1>5. PICK last : last = [parts[This] EXCEPT !.ended = TRUE]
  OBVIOUS
<1>6. last \in Part /\ last.type = parts[This].type /\ last.ended = TRUE
      /\ last.buffers = parts[This].buffers /\ last.rest = parts[This].rest
      /\ last.name = parts[This].name
  BY <1>2, <1>4, <1>5 DEF Part
<1>7. parts' = [parts EXCEPT ![This] = last]
  BY <1>3, <1>5
<1> HIDE DEF Part
<1>8. parts' \in Seq(Part) /\ Len(parts') = Len(parts)
      /\ parts'[This] = last
      /\ \A p \in 1..Len(parts) \ {This} : parts'[p] = parts[p]
  BY <1>1, <1>2, <1>6, <1>7
<1>9. \A p \in 1..Len(parts) : parts[p].ended \in BOOLEAN
  BY <1>4 DEF Part
<1> QED BY <1>2, <1>6, <1>8, <1>9

-----------------------------------------------------------------------------
(* Each step keeps IInv.                                                   *)

LEMMA ValueStartStep ==
    ASSUME IInv, NEW n \in Names, ValueStart(n) PROVE IInv'
<1>1. "VALUE" \in Types
  BY DEF Types
<1>2. /\ parts' \in Seq(Part) /\ Len(parts') = Len(parts) + 1
      /\ Len(parts') \in Parts
  BY <1>1, NextPartGrows DEF ValueStart, IInv
<1>3. Len(parts) \in Nat /\ Len(parts') <= MaxParts
  BY <1>2, PostBodyAssumption DEF IInv, TypeOK, Parts
<1>4. TypeOK'
  BY <1>2, <1>3 DEF ValueStart, IInv, TypeOK, Part
<1>5. StreamFits'
  BY <1>2, <1>3, PostBodyAssumption
     DEF ValueStart, NextPart, IInv, TypeOK, StreamFits, Parts
<1> QED BY <1>4, <1>5 DEF IInv

LEMMA OnParamStep == ASSUME IInv, OnParam PROVE IInv'
<1>1. /\ parts' \in Seq(Part) /\ Len(parts') = Len(parts)
      /\ This \in 1..Len(parts) /\ This \in Parts
  BY EndPartKeeps DEF OnParam
<1>2. codec' = "between" /\ codec = "value"
  BY DEF OnParam, EndPart
<1>3. params' \in [Names -> Param \cup {None}]
  <2>1. [type |-> "VALUE", part |-> This] \in Param
    BY <1>1 DEF Param, Types
  <2> QED BY <2>1 DEF OnParam, IInv, TypeOK
<1>4. TypeOK'
  BY <1>1, <1>2, <1>3 DEF OnParam, IInv, TypeOK, Part
<1>5. StreamFits'
  BY <1>1, <1>2 DEF OnParam, IInv, StreamFits
<1> QED BY <1>4, <1>5 DEF IInv

(* Between parts the stream is closed, so that opening it fails only if    *)
(* the file system says so.                                                *)
LEMMA OpensOrFails ==
    ASSUME IInv, NEW n \in Names, OnFileStart(n)
    PROVE  \/ /\ codec' = "stopped" /\ failed' = failed \cup {<<"open", Len(parts')>>}
              /\ stream' = [file |-> None, good |-> FALSE]
              /\ UNCHANGED <<params, uploadFileParam>>
           \/ /\ codec' = "file" /\ failed' = failed
              /\ stream' = [file |-> Len(parts'), good |-> TRUE]
              /\ uploadFileParam' = n
              /\ params' = [params EXCEPT ![n] = [type |-> "FILE_UPLOAD",
                                                  part |-> Len(parts')]]
<1>1. stream.file = None /\ stream \in [file : Parts \cup {None}, good : BOOLEAN]
  BY DEF OnFileStart, NextPart, IInv, StreamFits, TypeOK
<1>2. Len(parts') = This + 1 /\ Len(parts') # None
  <2>1. "FILE_UPLOAD" \in Types
    BY DEF Types
  <2>2. Len(parts') = Len(parts) + 1 /\ Len(parts') \in Parts
    BY <2>1, NextPartGrows DEF OnFileStart, IInv
  <2> QED BY <2>2, NoneAssumption DEF This
<1>3. PICK outcome \in {"ok", "failed"} :
          stream' = Opened(This + 1, outcome) /\ Note("open", This + 1, outcome)
  BY DEF OnFileStart, Outcomes
<1>4. CASE outcome = "ok"
  <2>1. stream' = [file |-> Len(parts'), good |-> TRUE]
    BY <1>1, <1>2, <1>3, <1>4 DEF Opened
  <2>2. failed' = failed
    BY <1>3, <1>4 DEF Note
  <2> QED BY <1>2, <2>1, <2>2 DEF OnFileStart
<1>5. CASE outcome = "failed"
  <2>1. stream' = [file |-> None, good |-> FALSE]
    BY <1>1, <1>3, <1>5 DEF Opened
  <2>2. failed' = failed \cup {<<"open", Len(parts')>>}
    BY <1>2, <1>3, <1>5 DEF Note
  <2> QED BY <2>1, <2>2 DEF OnFileStart
<1> QED BY <1>3, <1>4, <1>5

LEMMA OnFileStartStep ==
    ASSUME IInv, NEW n \in Names, OnFileStart(n) PROVE IInv'
<1>1. "FILE_UPLOAD" \in Types
  BY DEF Types
<1>2. /\ parts' \in Seq(Part) /\ Len(parts') = Len(parts) + 1
      /\ Len(parts') \in Parts /\ parts'[Len(parts')].buffers = 0
      /\ parts'[Len(parts')].rest = 0
  <2>1. NextPart(n, "FILE_UPLOAD") /\ TypeOK
    BY DEF OnFileStart, IInv
  <2>2. /\ parts' \in Seq(Part) /\ Len(parts') = Len(parts) + 1
        /\ Len(parts') \in Parts
        /\ parts'[Len(parts')] = [name |-> n, type |-> "FILE_UPLOAD",
                                  buffers |-> 0, rest |-> 0, ended |-> FALSE]
    BY <1>1, <2>1, NextPartGrows
  <2> QED BY <2>2
<1>3. Len(parts) \in Nat /\ Len(parts') <= MaxParts /\ Len(parts') \in Nat
  BY <1>2, PostBodyAssumption DEF IInv, TypeOK, Parts
<1>4. disk'[Len(parts')] = 0 /\ disk' = disk /\ page' = page
  BY <1>2, <1>3 DEF OnFileStart, IInv, StreamFits
<1>5. CASE /\ codec' = "stopped" /\ failed' = failed \cup {<<"open", Len(parts')>>}
           /\ stream' = [file |-> None, good |-> FALSE]
           /\ UNCHANGED <<params, uploadFileParam>>
  <2>1. TypeOK'
    BY <1>2, <1>3, <1>4, <1>5 DEF IInv, TypeOK, Part
  <2>2. StreamFits'
    BY <1>2, <1>3, <1>4, <1>5, PostBodyAssumption
       DEF IInv, StreamFits, Parts, This, Failed
  <2> QED BY <2>1, <2>2 DEF IInv
<1>6. CASE /\ codec' = "file" /\ failed' = failed
           /\ stream' = [file |-> Len(parts'), good |-> TRUE]
           /\ uploadFileParam' = n
           /\ params' = [params EXCEPT ![n] = [type |-> "FILE_UPLOAD",
                                               part |-> Len(parts')]]
  <2>1. [type |-> "FILE_UPLOAD", part |-> Len(parts')] \in Param
    BY <1>1, <1>2 DEF Param
  <2>2. params' \in [Names -> Param \cup {None}]
    BY <1>6, <2>1 DEF IInv, TypeOK
  <2>3. TypeOK'
    BY <1>2, <1>3, <1>4, <1>6, <2>2 DEF IInv, TypeOK, Part
  <2>4. StreamFits'
    BY <1>2, <1>3, <1>4, <1>6, PostBodyAssumption
       DEF IInv, StreamFits, Parts, This, Holds
  <2> QED BY <2>3, <2>4 DEF IInv
<1> QED BY <1>5, <1>6, OpensOrFails

LEMMA DataGrows ==
    ASSUME IInv, OnFileData
    PROVE  /\ This \in 1..Len(parts) /\ This \in Parts
           /\ parts' \in Seq(Part) /\ Len(parts') = Len(parts)
           /\ parts[This].buffers \in Nat /\ parts[This].rest \in Nat
           /\ parts'[This].buffers - parts'[This].rest =
                  parts[This].buffers - parts[This].rest + 1
           /\ parts[This].buffers - parts[This].rest < MaxPieces
           /\ \A p \in 1..Len(parts) : /\ parts'[p].type = parts[p].type
                                      /\ parts'[p].ended = parts[p].ended
           /\ \A p \in 1..Len(parts) \ {This} : parts'[p] = parts[p]
<1>1. parts \in Seq(Part) /\ Len(parts) > 0 /\ Len(parts) <= MaxParts
  BY DEF IInv, TypeOK, StreamFits, Part, OnFileData
<1>2. This \in 1..Len(parts) /\ This \in Parts
  BY <1>1, PostBodyAssumption DEF This, Parts
<1>3. parts[This] \in Part
  BY <1>1, <1>2
<1>4. PICK n \in 1..MaxBuffers :
          parts' = [parts EXCEPT ![This].buffers = @ + n,
                                 ![This].rest = @ + (n - 1)]
  BY DEF OnFileData
<1>5. PICK last : last = [parts[This] EXCEPT !.buffers = @ + n,
                                             !.rest = @ + (n - 1)]
  OBVIOUS
<1>6. n \in Nat /\ n - 1 \in Nat
  BY <1>4, PostBodyAssumption
<1>7. /\ parts[This].buffers \in Nat /\ parts[This].rest \in Nat
      /\ last.buffers = parts[This].buffers + n
      /\ last.rest = parts[This].rest + (n - 1)
      /\ last.type = parts[This].type /\ last.ended = parts[This].ended
      /\ last \in Part
  <2>1. parts[This].buffers \in Nat /\ parts[This].rest \in Nat
    BY <1>3 DEF Part
  <2>2. PICK b \in Nat, r \in Nat :
            b = parts[This].buffers + n /\ r = parts[This].rest + (n - 1)
    BY <1>6, <2>1
  <2>3. last = [parts[This] EXCEPT !.buffers = b, !.rest = r]
    BY <1>5, <2>2
  <2>4. last \in Part /\ last.buffers = b /\ last.rest = r
        /\ last.type = parts[This].type /\ last.ended = parts[This].ended
    BY <1>3, <2>3 DEF Part
  <2> QED BY <2>1, <2>2, <2>4
<1>8. parts' = [parts EXCEPT ![This] = last]
  BY <1>4, <1>5
<1> HIDE DEF Part
<1>9. parts' \in Seq(Part) /\ Len(parts') = Len(parts)
      /\ parts'[This] = last
      /\ \A p \in 1..Len(parts) \ {This} : parts'[p] = parts[p]
  BY <1>1, <1>2, <1>7, <1>8
<1>10. parts'[This].buffers - parts'[This].rest =
           parts[This].buffers - parts[This].rest + 1
  BY <1>6, <1>7, <1>9
<1>11. parts[This].buffers - parts[This].rest < MaxPieces
  BY DEF OnFileData
<1> QED BY <1>2, <1>7, <1>9, <1>10, <1>11

(* The data goes to the file under way, or writing it fails.               *)
LEMMA WritesOrFails ==
    ASSUME IInv, OnFileData
    PROVE  /\ codec = "file" /\ stream.file = This /\ Holds(This)
           /\ UNCHANGED <<params, uploadFileParam, page>>
           /\ \/ /\ codec' = "file" /\ failed' = failed /\ disk' = Written
                 /\ stream' = [stream EXCEPT !.good = TRUE]
              \/ /\ codec' = "stopped" /\ disk' \in Damaged
                 /\ failed' = failed \cup {<<"write", This>>}
                 /\ stream' = [stream EXCEPT !.good = FALSE]
<1>1. /\ codec = "file" /\ stream.good /\ stream.file = This /\ Holds(This)
      /\ UNCHANGED <<params, uploadFileParam, page>>
  BY DEF OnFileData, IInv, StreamFits
<1>2. PICK outcome \in {"ok", "failed"} :
          /\ stream' = [stream EXCEPT !.good = (outcome = "ok")]
          /\ codec' = IF outcome = "ok" THEN "file" ELSE "stopped"
          /\ Note("write", This, outcome)
          /\ Writes(outcome)
  BY <1>1 DEF OnFileData, Outcomes
<1>3. CASE outcome = "ok"
  BY <1>1, <1>2, <1>3 DEF Note, Writes
<1>4. CASE outcome = "failed"
  BY <1>1, <1>2, <1>4 DEF Note, Writes
<1> QED BY <1>3, <1>4

LEMMA OnFileDataStep == ASSUME IInv, OnFileData PROVE IInv'
<1>1. /\ codec = "file" /\ stream.file = This
      /\ stream \in [file : Parts \cup {None}, good : BOOLEAN]
      /\ uploadFileParam \in Names /\ This' = This
  BY WritesOrFails, DataGrows DEF IInv, StreamFits, TypeOK, This
<1>2. /\ disk \in [Parts -> 0..MaxPieces] /\ This \in Parts
      /\ \A p \in Parts : p > Len(parts) => disk[p] = 0
      /\ This \in 1..Len(parts)
  BY DataGrows DEF IInv, TypeOK, StreamFits
<1>3. CASE /\ codec' = "file" /\ failed' = failed /\ disk' = Written
           /\ stream' = [stream EXCEPT !.good = TRUE]
  <2>1. disk' = [disk EXCEPT ![This] = disk[This] + 1]
    BY <1>1, <1>3 DEF Written
  <2>2. disk[This] + 1 \in 0..MaxPieces
    BY <1>2, WritesOrFails, DataGrows, PostBodyAssumption DEF Holds
  <2>3. /\ disk' \in [Parts -> 0..MaxPieces]
        /\ \A p \in Parts : p > Len(parts) => disk'[p] = 0
    BY <1>2, <2>1, <2>2
  <2>4. disk'[This] = parts'[This].buffers - parts'[This].rest
    BY <1>2, <2>1, WritesOrFails, DataGrows DEF Holds
  <2>5. TypeOK'
    BY <1>1, <1>3, <2>3, WritesOrFails, DataGrows DEF IInv, TypeOK, Part
  <2>6. StreamFits'
    BY <1>1, <1>3, <2>3, <2>4, WritesOrFails, DataGrows
       DEF StreamFits, Holds
  <2> QED BY <2>5, <2>6 DEF IInv
<1>4. CASE /\ codec' = "stopped" /\ disk' \in Damaged
           /\ failed' = failed \cup {<<"write", This>>}
           /\ stream' = [stream EXCEPT !.good = FALSE]
  <2>1. PICK left \in 0..disk[This] : disk' = [disk EXCEPT ![This] = left]
    BY <1>1, <1>4 DEF Damaged
  <2>2. left \in 0..MaxPieces
    BY <1>2, <2>1, PostBodyAssumption
  <2>3. /\ disk' \in [Parts -> 0..MaxPieces]
        /\ \A p \in Parts : p > Len(parts) => disk'[p] = 0
    BY <1>2, <2>1, <2>2
  <2>4. failed' \subseteq {"open", "write", "close"} \X Parts
    BY <1>2, <1>4 DEF IInv, TypeOK
  <2>6. TypeOK'
    BY <1>1, <1>4, <2>3, <2>4, WritesOrFails, DataGrows DEF IInv, TypeOK, Part
  <2>5. StreamFits'
    BY <1>1, <1>2, <1>4, <2>3, DataGrows DEF StreamFits, Failed
  <2> QED BY <2>5, <2>6 DEF IInv
<1> QED BY <1>3, <1>4, WritesOrFails

LEMMA CloseWorks ==
    ASSUME IInv, NEW outcome \in {"ok", "failed"}, Close(outcome),
           stream.file \in Parts
    PROVE  /\ stream' = [file |-> None, good |-> outcome = "ok"]
           /\ disk' \in [Parts -> 0..MaxPieces]
           /\ \A p \in Parts \ {stream.file} : disk'[p] = disk[p]
           /\ outcome = "ok" => disk' = disk
<1>1. PICK left \in 0..MaxPieces :
          /\ disk' = [disk EXCEPT ![stream.file] = left]
          /\ IF outcome = "ok" THEN left = disk[stream.file]
                               ELSE left < disk[stream.file]
  BY DEF Close
<1>2. disk \in [Parts -> 0..MaxPieces]
  BY DEF IInv, TypeOK
<1> QED BY <1>1, <1>2 DEF Close

LEMMA OnFileEndStep == ASSUME IInv, OnFileEnd PROVE IInv'
<1>1. /\ parts' \in Seq(Part) /\ Len(parts') = Len(parts)
      /\ This \in 1..Len(parts) /\ This \in Parts
  BY EndPartKeeps DEF OnFileEnd
<1>2. /\ codec = "file" /\ codec' = "between"
      /\ stream.good /\ stream.file = This
      /\ UNCHANGED <<params, uploadFileParam, page>>
  BY DEF OnFileEnd, EndPart, IInv, StreamFits
<1>3. PICK outcome \in {"ok", "failed"} : Close(outcome) /\ Note("close", This, outcome)
  BY <1>2 DEF OnFileEnd, Outcomes
<1>4. /\ stream' = [file |-> None, good |-> outcome = "ok"]
      /\ disk' \in [Parts -> 0..MaxPieces]
      /\ \A p \in Parts \ {This} : disk'[p] = disk[p]
  BY <1>1, <1>2, <1>3, CloseWorks
<1>5. TypeOK'
  BY <1>1, <1>2, <1>3, <1>4 DEF IInv, TypeOK, Part, Note
<1>6. StreamFits'
  BY <1>1, <1>2, <1>4 DEF IInv, StreamFits
<1> QED BY <1>5, <1>6 DEF IInv

LEMMA OnErrorStep == ASSUME IInv, OnError PROVE IInv'
BY DEF OnError, NoParams, IInv, TypeOK, StreamFits

LEMMA AbandonedType == ASSUME TypeOK PROVE Abandoned \in [Names -> Param \cup {None}]
BY DEF TypeOK, Abandoned

LEMMA OnEOMStep == ASSUME IInv, OnEOM PROVE IInv'
<1>1. params' \in {params, Abandoned, NoParams}
  BY DEF OnEOM, AtEom, IInv, TypeOK
<1>2. params' \in [Names -> Param \cup {None}]
  BY <1>1, AbandonedType DEF IInv, TypeOK, NoParams
<1>3. page' \in [kind : {"none", "error"}] \cup [kind : {"saved"}, part : Parts]
  <2>1. \/ page' = [kind |-> "error"]
        \/ /\ params'[Upload] # None
           /\ page' = [kind |-> "saved", part |-> params'[Upload].part]
    BY DEF OnEOM, Uploaded
  <2>2. params'[Upload] # None => params'[Upload].part \in Parts
    BY <1>2, PostBodyAssumption DEF Param
  <2> QED BY <2>1, <2>2
<1>4. codec' = "over" /\ UNCHANGED <<parts, stream, uploadFileParam, disk, failed>>
  BY DEF OnEOM
<1>5. TypeOK'
  BY <1>2, <1>3, <1>4 DEF IInv, TypeOK
<1>6. StreamFits'
  BY <1>4 DEF IInv, StreamFits
<1> QED BY <1>5, <1>6 DEF IInv

LEMMA StutterStep ==
    ASSUME IInv, Disconnect \/ UNCHANGED vars PROVE IInv'
BY DEF Disconnect, vars, IInv, TypeOK, StreamFits, This, Holds, Failed

THEOREM NextIInv == IInv /\ [Next]_vars => IInv'
BY ValueStartStep, OnParamStep, OnFileStartStep, OnFileDataStep, OnFileEndStep,
   OnErrorStep, OnEOMStep, StutterStep DEF Next

(* The stream is open for the part under way, whatever fails.              *)
THEOREM Invariance == Spec => []IInv
<1>1. Init => IInv
  BY InitIInv
<1> QED BY <1>1, NextIInv, PTL DEF Spec

(* The state is well typed, for bodies of any number of parts and pieces.  *)
THEOREM TypeCorrect == Spec => []TypeOK
<1>1. IInv => TypeOK
  BY DEF IInv
<1> QED BY <1>1, Invariance, PTL

(* However many files a body has, the parser stops only when opening or    *)
(* writing the file of the part under way failed.                          *)
THEOREM StopsOnlyOnFailureHolds == Spec => []StopsOnlyOnFailure
<1>1. IInv => StopsOnlyOnFailure
  BY DEF IInv, StreamFits, Failed, StopsOnlyOnFailure
<1> QED BY <1>1, Invariance, PTL

-----------------------------------------------------------------------------
(* Whoever reads the parameters finds whole ones.                          *)

WInv == IInv /\ ParamsFit /\ FilesWhole

(* What failed stays so.                                                   *)
StillFailed == \A op \in {"write", "close"}, p \in Nat : Failed(op, p) => Failed(op, p)'

(* Parameters stay known, and parts that ended stay so, when the parts grow *)
(* and params does not change.                                             *)
Longer == /\ Len(parts) \in Nat /\ Len(parts') = Len(parts) + 1
          /\ \A p \in 1..Len(parts) : parts'[p] = parts[p]
          /\ parts'[Len(parts')].ended = FALSE

LEMMA NextPartLonger ==
    ASSUME WInv, NEW n \in Names, NEW type \in Types, NextPart(n, type)
    PROVE  /\ Longer /\ parts'[Len(parts')].type = type
           /\ page.kind = "none"
           /\ \A m \in Names : Known(m) /\ Ended(m)
<1>1. TypeOK
  BY DEF WInv, IInv
<1>2. /\ Len(parts') = Len(parts) + 1
      /\ \A p \in 1..Len(parts) : parts'[p] = parts[p]
      /\ parts'[Len(parts')] = [name |-> n, type |-> type,
                                buffers |-> 0, rest |-> 0, ended |-> FALSE]
  BY <1>1, NextPartGrows
<1>3. Len(parts) \in Nat
  BY <1>1 DEF TypeOK
<1>4. codec = "between"
  BY DEF NextPart
<1> QED BY <1>2, <1>3, <1>4 DEF Longer, WInv, ParamsFit, UnderWay

LEMMA LongerKeeps ==
    ASSUME Longer, StillFailed,
           NEW m \in Names, Known(m), Ended(m), params'[m] = params[m]
    PROVE  Known(m)' /\ Ended(m)'
<1>1. CASE params[m] = None
  BY <1>1 DEF Known, Ended
<1>2. CASE params[m] # None
  <2>1. params[m].part \in 1..Len(parts) /\ params[m].part \in 1..Len(parts')
    BY <1>2 DEF Known, Longer
  <2>2. parts'[params[m].part] = parts[params[m].part]
    BY <2>1 DEF Longer
  <2> QED BY <1>2, <2>1, <2>2 DEF Known, Ended, StillFailed
<1> QED BY <1>1, <1>2

LEMMA LongerWhole ==
    ASSUME WInv, Longer, StillFailed, page.kind = "none", UNCHANGED <<disk, page>>
    PROVE  FilesWhole'
<1>1. \A p \in 1..Len(parts') : p \in 1..Len(parts) \/ p = Len(parts')
  BY DEF Longer
<1>2. ASSUME NEW p \in 1..Len(parts'), parts'[p].type = "FILE_UPLOAD",
             parts'[p].ended
      PROVE  Holds(p)' \/ Failed("close", p)'
  <2>1. p \in 1..Len(parts) /\ parts'[p] = parts[p]
    BY <1>1, <1>2 DEF Longer
  <2>2. Holds(p) \/ Failed("close", p)
    BY <1>2, <2>1 DEF WInv, FilesWhole
  <2>3. Holds(p) => Holds(p)'
    BY <2>1 DEF Holds
  <2> QED BY <2>1, <2>2, <2>3 DEF StillFailed
<1> QED BY <1>2 DEF FilesWhole

LEMMA ValueStartWhole ==
    ASSUME WInv, NEW n \in Names, ValueStart(n) PROVE ParamsFit' /\ FilesWhole'
<1>1. NextPart(n, "VALUE") /\ "VALUE" \in Types
      /\ codec' = "value" /\ UNCHANGED <<params, disk, page>> /\ StillFailed
  BY DEF ValueStart, Types, StillFailed, Failed
<1>2. /\ Longer /\ parts'[Len(parts')].type = "VALUE" /\ page.kind = "none"
      /\ \A m \in Names : Known(m) /\ Ended(m)
  BY <1>1, NextPartLonger
<1>3. \A m \in Names : Known(m)' /\ Ended(m)'
  BY <1>1, <1>2, LongerKeeps
<1>4. ParamsFit'
  BY <1>1, <1>2, <1>3 DEF ParamsFit, This
<1> QED BY <1>1, <1>2, <1>4, LongerWhole

LEMMA OnFileStartWhole ==
    ASSUME WInv, NEW n \in Names, OnFileStart(n) PROVE ParamsFit' /\ FilesWhole'
<1>1. NextPart(n, "FILE_UPLOAD") /\ "FILE_UPLOAD" \in Types
      /\ UNCHANGED <<disk, page>> /\ StillFailed
  BY DEF OnFileStart, Types, Note, StillFailed, Failed
<1>2. /\ Longer /\ parts'[Len(parts')].type = "FILE_UPLOAD"
      /\ page.kind = "none" /\ \A m \in Names : Known(m) /\ Ended(m)
  BY <1>1, NextPartLonger
<1>3. CASE codec' = "stopped" /\ params' = params
  <2>1. \A m \in Names : Known(m)' /\ Ended(m)'
    BY <1>1, <1>2, <1>3, LongerKeeps
  <2> QED BY <1>1, <1>2, <1>3, <2>1, LongerWhole DEF ParamsFit
<1>4. CASE /\ codec' = "file" /\ uploadFileParam' = n
           /\ params' = [params EXCEPT ![n] = [type |-> "FILE_UPLOAD",
                                               part |-> Len(parts')]]
  <2>1. params \in [Names -> Param \cup {None}]
    BY DEF WInv, IInv, TypeOK
  <2>2. params'[n] = [type |-> "FILE_UPLOAD", part |-> Len(parts')]
        /\ \A m \in Names \ {n} : params'[m] = params[m]
    BY <1>4, <2>1
  <2>3. \A m \in Names \ {n} : Known(m)' /\ Ended(m)'
    BY <1>1, <1>2, <2>2, LongerKeeps
  <2>4. Known(n)'
    BY <1>2, <2>2 DEF Known, Longer
  <2>6. UnderWay(n)'
    BY <1>4, <2>2 DEF UnderWay, This
  <2>7. ParamsFit'
    BY <1>1, <1>2, <1>4, <2>3, <2>4, <2>6 DEF ParamsFit, Longer, This
  <2> QED BY <1>1, <1>2, <2>7, LongerWhole
<1>5. WInv => IInv
  BY DEF WInv
<1> QED BY <1>3, <1>4, <1>5, OpensOrFails

LEMMA EndKeeps ==
    ASSUME WInv, codec \in {"value", "file"}, EndPart, StillFailed,
           NEW m \in Names, params'[m] = params[m]
    PROVE  Known(m)' /\ Ended(m)'
<1>1. IInv /\ Known(m) /\ (Ended(m) \/ UnderWay(m))
  BY DEF WInv, ParamsFit
<1>2. /\ Len(parts') = Len(parts) /\ This \in 1..Len(parts)
      /\ \A p \in 1..Len(parts) :
            /\ parts'[p].type = parts[p].type
            /\ parts'[p].ended = (parts[p].ended \/ p = This)
  BY <1>1, EndPartKeeps
<1>3. CASE params[m] = None
  BY <1>3 DEF Known, Ended
<1>4. CASE params[m] # None
  <2>1. params[m].part \in 1..Len(parts)
        /\ params[m].type = parts[params[m].part].type
    BY <1>1, <1>4 DEF Known
  <2>2. \/ parts[params[m].part].ended \/ params[m].part = This
        \/ Failed("write", params[m].part)
    BY <1>1, <1>4 DEF Ended, UnderWay
  <2>3. Failed("write", params[m].part) => Failed("write", params[m].part)'
    BY <2>1 DEF StillFailed
  <2> QED BY <1>2, <1>4, <2>1, <2>2, <2>3 DEF Known, Ended, Failed
<1> QED BY <1>3, <1>4

LEMMA OnParamWhole == ASSUME WInv, OnParam PROVE ParamsFit' /\ FilesWhole'
<1>1. /\ codec = "value" /\ codec' = "between" /\ EndPart
      /\ params' = [params EXCEPT ![parts[This].name] =
                       [type |-> "VALUE", part |-> This]]
      /\ UNCHANGED <<disk, page, failed>> /\ StillFailed
  BY DEF OnParam, EndPart, StillFailed, Failed
<1>2. IInv /\ codec \in {"value", "file"}
  BY <1>1 DEF WInv
<1>3. /\ Len(parts') = Len(parts) /\ This \in 1..Len(parts)
      /\ \A p \in 1..Len(parts) :
            /\ parts'[p].type = parts[p].type
            /\ parts'[p].buffers = parts[p].buffers
            /\ parts'[p].rest = parts[p].rest
            /\ parts'[p].ended = (parts[p].ended \/ p = This)
  BY <1>1, <1>2, EndPartKeeps
<1>4. params \in [Names -> Param \cup {None}] /\ parts[This].type = "VALUE"
      /\ page.kind = "none"
  BY <1>1 DEF WInv, IInv, TypeOK, ParamsFit
<1>5. ASSUME NEW m \in Names PROVE Known(m)' /\ Ended(m)'
  <2>1. CASE params'[m] = params[m]
    BY <1>1, <1>2, <2>1, EndKeeps
  <2>2. CASE params'[m] = [type |-> "VALUE", part |-> This]
    <3>1. parts'[This].ended /\ parts'[This].type = "VALUE"
      BY <1>3, <1>4
    <3>2. params'[m].part = This /\ params'[m].type = "VALUE"
      BY <2>2
    <3> QED BY <1>3, <3>1, <3>2 DEF Known, Ended
  <2> QED BY <1>1, <1>4, <2>1, <2>2
<1>6. ParamsFit'
  BY <1>1, <1>4, <1>5 DEF ParamsFit
<1>7. FilesWhole'
  BY <1>1, <1>3, <1>4 DEF WInv, FilesWhole, Holds, Failed
<1> QED BY <1>6, <1>7

LEMMA OnFileDataWhole == ASSUME WInv, OnFileData PROVE ParamsFit' /\ FilesWhole'
<1>1. /\ codec = "file" /\ page.kind = "none" /\ IInv
      /\ disk \in [Parts -> 0..MaxPieces] /\ stream.file = This
      /\ UNCHANGED <<params, uploadFileParam, page>>
      /\ codec' \in {"file", "stopped"}
  BY WritesOrFails DEF OnFileData, WInv, IInv, TypeOK, ParamsFit
<1>2. /\ This \in 1..Len(parts) /\ This \in Parts
      /\ Len(parts') = Len(parts) /\ This' = This
      /\ \A p \in 1..Len(parts) : /\ parts'[p].type = parts[p].type
                                 /\ parts'[p].ended = parts[p].ended
      /\ \A p \in 1..Len(parts) \ {This} : parts'[p] = parts[p]
  BY <1>1, DataGrows DEF This
<1>3. \A op \in {"write", "close"}, p \in Nat : Failed(op, p) => Failed(op, p)'
  BY <1>1, WritesOrFails DEF Failed
<1>4. codec' = "stopped" => Failed("write", This)'
  <2>1. codec' = "stopped" => <<"write", This>> \in failed'
    BY <1>1, WritesOrFails
  <2> QED BY <1>2, <2>1 DEF Failed
<1>5. ASSUME NEW m \in Names PROVE Known(m)' /\ (Ended(m)' \/ UnderWay(m)')
  <2>1. Known(m) /\ (Ended(m) \/ UnderWay(m))
    BY <1>1 DEF WInv, ParamsFit
  <2>2. CASE params[m] = None
    BY <1>1, <2>2 DEF Known, Ended
  <2>3. CASE params[m] # None
    <3>1. Known(m)' /\ params[m].part \in Nat
      BY <1>1, <1>2, <2>1, <2>3 DEF Known
    <3>2. Ended(m) => Ended(m)'
      BY <1>1, <1>2, <1>3, <2>1, <2>3, <3>1 DEF Known, Ended
    <3>3. CASE UnderWay(m) /\ codec' = "file"
      BY <1>1, <1>2, <3>1, <3>3 DEF UnderWay
    <3>4. CASE UnderWay(m) /\ codec' = "stopped"
      <4>1. params'[m].part = This
        BY <1>1, <3>4 DEF UnderWay
      <4>2. Failed("write", params[m].part)'
        BY <1>2, <1>4, <3>4, <4>1 DEF Failed
      <4> QED BY <3>1, <4>2 DEF Ended
    <3> QED BY <1>1, <2>1, <3>1, <3>2, <3>3, <3>4
  <2> QED BY <2>2, <2>3
<1>6. ~parts'[This].ended
  BY <1>1, <1>2 DEF WInv, ParamsFit
<1>7. ParamsFit'
  BY <1>1, <1>2, <1>5, <1>6 DEF ParamsFit
<1>8. \A p \in 1..Len(parts) \ {This} : disk'[p] = disk[p]
  <2>1. CASE disk' = Written
    BY <1>1, <2>1 DEF Written
  <2>2. CASE disk' \in Damaged
    <3>1. PICK left \in 0..disk[This] : disk' = [disk EXCEPT ![This] = left]
      BY <1>1, <2>2 DEF Damaged
    <3> QED BY <3>1
  <2> QED BY <1>1, <2>1, <2>2, WritesOrFails
<1>9. \A p \in 1..Len(parts) \ {This} :
          parts'[p].type = "FILE_UPLOAD" /\ parts'[p].ended =>
              Holds(p)' \/ Failed("close", p)'
  <2> TAKE p \in 1..Len(parts) \ {This}
  <2> HAVE parts'[p].type = "FILE_UPLOAD" /\ parts'[p].ended
  <2>1. Holds(p) \/ Failed("close", p)
    BY <1>2 DEF WInv, FilesWhole
  <2>2. Holds(p) => Holds(p)'
    BY <1>2, <1>8 DEF Holds
  <2> QED BY <1>3, <2>1, <2>2
<1>10. ~parts[This].ended
  BY <1>1 DEF WInv, ParamsFit
<1>11. FilesWhole'
  BY <1>1, <1>2, <1>9, <1>10 DEF FilesWhole
<1> QED BY <1>7, <1>11

LEMMA OnFileEndWhole == ASSUME WInv, OnFileEnd PROVE ParamsFit' /\ FilesWhole'
<1>1. /\ codec = "file" /\ codec' = "between" /\ EndPart
      /\ stream.good /\ stream.file = This
      /\ Holds(This) /\ page.kind = "none" /\ IInv
      /\ UNCHANGED <<params, uploadFileParam, page>>
  BY DEF OnFileEnd, EndPart, WInv, IInv, StreamFits, ParamsFit
<1>2. /\ Len(parts') = Len(parts) /\ This \in 1..Len(parts) /\ This \in Parts
      /\ \A p \in 1..Len(parts) :
            /\ parts'[p].type = parts[p].type
            /\ parts'[p].buffers = parts[p].buffers
            /\ parts'[p].rest = parts[p].rest
            /\ parts'[p].ended = (parts[p].ended \/ p = This)
  BY <1>1, EndPartKeeps
<1>3. PICK outcome \in {"ok", "failed"} :
          Close(outcome) /\ Note("close", This, outcome)
  BY <1>1 DEF OnFileEnd, Outcomes
<1>4. /\ \A p \in Parts \ {This} : disk'[p] = disk[p]
      /\ outcome = "ok" => disk' = disk
  BY <1>1, <1>2, <1>3, CloseWorks
<1>5. StillFailed /\ \A p : p = This /\ outcome = "failed" => Failed("close", p)'
  <2>1. failed \subseteq failed'
    BY <1>3 DEF Note
  <2>2. outcome = "failed" => <<"close", This>> \in failed'
    BY <1>3 DEF Note
  <2> QED BY <2>1, <2>2 DEF StillFailed, Failed
<1>6. \A m \in Names : Known(m)' /\ Ended(m)'
  BY <1>1, <1>5, EndKeeps
<1>7. ParamsFit'
  BY <1>1, <1>6 DEF ParamsFit
<1>8. 1..Len(parts) \subseteq Parts /\ Len(parts) \in Nat
  BY <1>1, PostBodyAssumption DEF IInv, TypeOK, Parts
<1>9. ASSUME NEW p \in 1..Len(parts'), parts'[p].type = "FILE_UPLOAD",
             parts'[p].ended
      PROVE  Holds(p)' \/ Failed("close", p)'
  <2>1. CASE p = This
    <3>1. CASE outcome = "ok"
      <4>1. disk[p] = parts[p].buffers - parts[p].rest
        BY <1>1, <2>1 DEF Holds
      <4>2. p \in 1..Len(parts) /\ disk' = disk
        BY <1>2, <1>4, <2>1, <3>1
      <4> QED BY <1>2, <4>1, <4>2 DEF Holds
    <3>2. CASE outcome = "failed"
      BY <1>5, <2>1, <3>2
    <3> QED BY <1>3, <3>1, <3>2
  <2>2. CASE p # This
    <3>1. Holds(p) \/ Failed("close", p)
      BY <1>2, <1>9, <2>2 DEF WInv, FilesWhole
    <3>2. disk'[p] = disk[p]
      BY <1>2, <1>4, <1>8, <2>2
    <3>3. Failed("close", p) => Failed("close", p)'
      BY <1>5, <1>8, <2>2 DEF StillFailed, Parts
    <3> QED BY <1>2, <3>1, <3>2, <3>3 DEF Holds
  <2> QED BY <2>1, <2>2
<1>10. FilesWhole'
  BY <1>1, <1>9 DEF FilesWhole
<1> QED BY <1>7, <1>10

LEMMA OnErrorWhole == ASSUME WInv, OnError PROVE ParamsFit' /\ FilesWhole'
<1>1. /\ codec' = "malformed" /\ codec # "over"
      /\ UNCHANGED <<parts, disk, page, failed>>
      /\ \A m \in Names : params'[m] = None
  BY DEF OnError, NoParams
<1>2. page'.kind = "none"
  BY <1>1 DEF WInv, ParamsFit
<1> QED BY <1>1, <1>2 DEF WInv, ParamsFit, Known, Ended, FilesWhole, Holds, Failed

(* What onEOM leaves of the parameters has ended.                          *)
LEMMA EomEnded ==
    ASSUME WInv, OnEOM, NEW m \in Names PROVE Known(m)' /\ Ended(m)'
<1>1. /\ codec # "over" /\ params' \in AtEom \cup {NoParams}
      /\ UNCHANGED <<parts, failed>>
      /\ Known(m) /\ (Ended(m) \/ UnderWay(m))
      /\ params \in [Names -> Param \cup {None}]
  BY DEF OnEOM, WInv, IInv, TypeOK, ParamsFit
<1>2. CASE params'[m] = None
  BY <1>2 DEF Known, Ended
<1>3. CASE params'[m] = params[m] /\ Ended(m)
  BY <1>1, <1>3 DEF Known, Ended, Failed
<1>4. codec # "file" => Ended(m)
  BY <1>1 DEF UnderWay
<1>5. params' = NoParams => params'[m] = None
  BY DEF NoParams
<1>6. params' = Abandoned => params'[m] \in {None, params[m]}
  BY <1>1 DEF Abandoned
<1>7. CASE codec = "file"
  <2>1. params' = Abandoned \/ params' = NoParams
    BY <1>1, <1>7 DEF AtEom
  <2>2. ASSUME params' = Abandoned, ~Ended(m) PROVE params'[m] = None
    <3>1. m = uploadFileParam
      BY <1>1, <2>2 DEF UnderWay
    <3>2. stream.good /\ uploadFileParam # None
      BY <1>7, NoneAssumption DEF WInv, IInv, StreamFits
    <3> QED BY <1>1, <2>2, <3>1, <3>2 DEF Abandoned
  <2> QED BY <1>2, <1>3, <1>5, <1>6, <2>1, <2>2
<1>8. CASE codec # "file"
  <2>1. params' \in {params, Abandoned, NoParams}
    BY <1>1, <1>8 DEF AtEom, WInv, IInv, TypeOK
  <2> QED BY <1>2, <1>3, <1>4, <1>5, <1>6, <1>8, <2>1
<1> QED BY <1>7, <1>8

LEMMA OnEOMWhole == ASSUME WInv, OnEOM PROVE ParamsFit' /\ FilesWhole'
<1>1. /\ codec' = "over" /\ UNCHANGED <<parts, disk, failed>> /\ page' \in Uploaded(params')
  BY DEF OnEOM
<1>2. \A m \in Names : Known(m)' /\ Ended(m)'
  BY EomEnded
<1>3. ParamsFit'
  BY <1>1, <1>2 DEF ParamsFit
<1>4. \A p \in 1..Len(parts') :
          parts'[p].type = "FILE_UPLOAD" /\ parts'[p].ended =>
              Holds(p)' \/ Failed("close", p)'
  BY <1>1 DEF WInv, FilesWhole, Holds, Failed
<1>5. CASE page' = [kind |-> "error"]
  <2>1. page'.kind # "saved"
    BY <1>5
  <2> QED BY <1>3, <1>4, <2>1 DEF FilesWhole
<1>6. CASE /\ page' = [kind |-> "saved", part |-> params'[Upload].part]
           /\ params'[Upload] # None /\ params'[Upload].type = "FILE_UPLOAD"
  <2>1. params'[Upload].part \in 1..Len(parts')
        /\ parts'[params'[Upload].part].type = "FILE_UPLOAD"
        /\ \/ parts'[params'[Upload].part].ended
           \/ Failed("write", params[Upload].part)'
    BY <1>2, <1>6, PostBodyAssumption DEF Known, Ended, Failed
  <2>2. page'.part = params'[Upload].part
    BY <1>6
  <2>3. /\ page'.part \in 1..Len(parts')
        /\ \/ Holds(page.part)'
           \/ Failed("write", page.part)' \/ Failed("close", page.part)'
    BY <1>4, <2>1, <2>2 DEF Holds, Failed
  <2> QED BY <1>3, <1>4, <2>3 DEF FilesWhole
<1>7. \/ page' = [kind |-> "error"]
      \/ /\ page' = [kind |-> "saved", part |-> params'[Upload].part]
         /\ params'[Upload] # None /\ params'[Upload].type = "FILE_UPLOAD"
  BY <1>1 DEF Uploaded
<1> QED BY <1>3, <1>5, <1>6, <1>7

LEMMA StutterWhole ==
    ASSUME WInv, Disconnect \/ UNCHANGED vars PROVE ParamsFit' /\ FilesWhole'
<1>1. CASE UNCHANGED vars
  BY <1>1 DEF vars, WInv, ParamsFit, Known, Ended, UnderWay, FilesWhole, This,
                   Holds, Failed
<1>2. CASE Disconnect
  <2>1. /\ codec' = "over" /\ codec # "over"
        /\ UNCHANGED <<parts, params, disk, page, failed>>
    BY <1>2 DEF Disconnect
  <2>2. page'.kind = "none"
    BY <2>1 DEF WInv, ParamsFit
  <2> QED BY <2>1, <2>2 DEF WInv, ParamsFit, Known, Ended, UnderWay, FilesWhole,
                            Holds, Failed
<1> QED BY <1>1, <1>2

(* A parameter is of a part that ended, or is being written, or could not  *)
(* be; a file that ended holds what was written to it, or was not closed.  *)
THEOREM WholeInvariance == Spec => []WInv
<1>1. Init => WInv
  BY InitIInv DEF WInv
<1>2. WInv /\ [Next]_vars => WInv'
  <2> SUFFICES ASSUME WInv, [Next]_vars PROVE WInv'
    OBVIOUS
  <2>1. IInv'
    BY NextIInv DEF WInv
  <2>2. ParamsFit' /\ FilesWhole'
    BY ValueStartWhole, OnParamWhole, OnFileStartWhole, OnFileDataWhole,
       OnFileEndWhole, OnErrorWhole, OnEOMWhole, StutterWhole DEF Next
  <2> QED BY <2>1, <2>2 DEF WInv
<1> QED BY <1>1, <1>2, PTL DEF Spec

(* processRequest sees no parameter that was cut short or refused, but one *)
(* whose own file could not be written, whatever file operations fail.     *)
THEOREM SeenHasEndedHolds == Spec => []SeenHasEnded
<1>1. WInv => SeenHasEnded
  BY DEF WInv, ParamsFit, Ended, Failed, SeenHasEnded
<1> QED BY <1>1, WholeInvariance, PTL

(* A file reported as saved holds the first buffer of each piece sent for  *)
(* it, unless writing or closing that very file failed.                    *)
THEOREM ReportedIsWholeHolds == Spec => []ReportedIsWhole
<1>1. WInv => ReportedIsWhole
  BY DEF WInv, FilesWhole, Holds, Failed, ReportedIsWhole
<1> QED BY <1>1, WholeInvariance, PTL

=============================================================================
