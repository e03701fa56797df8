------------------------- MODULE ChunkedUploadProofs -------------------------
(***************************************************************************)
(* Proofs about ChunkedUpload, for any uploads, requests and sizes, with   *)
(* crashes: one lemma per action shows that it keeps IInv.                 *)
(***************************************************************************)
EXTENDS ChunkedUpload, FiniteSetTheorems, TLAPS

\* What a step of call c does to the calls, as far as the invariant sees them.
OneActs(c) ==
    /\ call' \in [Calls -> Call]
    /\ \A d \in Calls \ {c} :
          /\ call'[d].pc = call[d].pc /\ call'[d].id = call[d].id
          /\ call'[d].chunk = call[d].chunk
          /\ call'[d].target = call[d].target /\ (call'[d].linked => call[d].linked)
Moves(c, pc) == call'[c].pc = pc /\ call'[c].id = call[c].id
Returns(c) == call'[c].pc = "idle" /\ call'[c].id = NoUpload

-----------------------------------------------------------------------------
(* Lemmas about the helpers                                                *)

LEMMA IdleTyped == Idle \in Call
  BY CountsAssumption DEF Idle, Call, Pc, Names

LEMMA AnswerActs ==
    ASSUME TypeOK, NEW c \in Calls, Answer(c)
    PROVE  OneActs(c) /\ Returns(c)
<1>1. call' = [call EXCEPT ![c] = Idle] /\ call \in [Calls -> Call]
  BY DEF TypeOK, Answer
<1>2. call'[c] = Idle /\ \A d \in Calls \ {c} : call'[d] = call[d]
  BY <1>1
<1>3. QED
  BY <1>1, <1>2, IdleTyped DEF OneActs, Returns, Idle

LEMMA GoToActs ==
    ASSUME TypeOK, NEW c \in Calls, NEW pc \in Pc, GoTo(c, pc)
    PROVE  OneActs(c) /\ Moves(c, pc)
<1>1. call' = [call EXCEPT ![c].pc = pc] /\ call \in [Calls -> Call]
  BY DEF TypeOK, GoTo
<1>2. call' \in [Calls -> Call]
  BY <1>1 DEF Call
<1>3. call'[c].pc = pc /\ call'[c].id = call[c].id
  BY <1>1 DEF Call
<1>4. QED
  BY <1>1, <1>2, <1>3 DEF OneActs, Moves

LEMMA BeginActs ==
    ASSUME TypeOK, NEW c \in Calls, NEW u \in Uploads, NEW pc \in Pc,
           call' = [call EXCEPT ![c] = [@ EXCEPT !.pc = pc, !.id = u]]
    PROVE  OneActs(c) /\ call'[c].pc = pc /\ call'[c].id = u
<1>1. call \in [Calls -> Call]
  BY DEF TypeOK
<1>2. call' \in [Calls -> Call]
  BY <1>1 DEF Call
<1>3. call'[c].pc = pc /\ call'[c].id = u
  BY <1>1 DEF Call
<1>4. QED
  BY <1>1, <1>2, <1>3 DEF OneActs

LEMMA DetachedTyped ==
    ASSUME TypeOK, NEW n \in Names
    PROVE  /\ Detached(n) \in [Calls -> Call]
           /\ \A d \in Calls :
                /\ Detached(n)[d].pc = call[d].pc /\ Detached(n)[d].id = call[d].id
                /\ Detached(n)[d].chunk = call[d].chunk /\ Detached(n)[d].target = call[d].target
                /\ Detached(n)[d].linked => call[d].linked
                /\ Detached(n)[d].target = n => ~Detached(n)[d].linked
<1>1. call \in [Calls -> Call]
  BY DEF TypeOK
<1>2. QED
  BY <1>1 DEF Detached, Call

LEMMA TargetActs ==
    ASSUME TypeOK, NEW c \in Calls, NEW n \in Names,
           call' = [call EXCEPT ![c] = [@ EXCEPT !.pc = "move", !.target = n]]
    PROVE  OneActs(c) /\ Moves(c, "move")
<1>1. call \in [Calls -> Call] /\ "move" \in Pc
  BY DEF TypeOK, Pc
<1>2. call' \in [Calls -> Call]
  BY <1>1 DEF Call
<1>3. QED
  BY <1>1, <1>2 DEF OneActs, Moves, Call

\* No copy keeps its name in a directory entry that is removed.
Unlinks(c, n) == \A d \in Calls \ {c} : call'[d].target = n => ~call'[d].linked

LEMMA OverwriteActs ==
    ASSUME TypeOK, NEW c \in Calls,
           call' = [Detached(0) EXCEPT ![c] = [@ EXCEPT !.pc = "move", !.target = 0]]
    PROVE  OneActs(c) /\ Moves(c, "move") /\ Unlinks(c, 0)
<1>1. "move" \in Pc /\ 0 \in Names
  BY CountsAssumption DEF Pc, Names
<1> DEFINE f == Detached(0)
<1>2. /\ f \in [Calls -> Call]
      /\ \A d \in Calls :
            /\ f[d].pc = call[d].pc /\ f[d].id = call[d].id
            /\ f[d].chunk = call[d].chunk /\ f[d].target = call[d].target
            /\ f[d].linked => call[d].linked
            /\ f[d].target = 0 => ~f[d].linked
  BY <1>1, DetachedTyped
<1>3. call' = [f EXCEPT ![c] = [@ EXCEPT !.pc = "move", !.target = 0]]
  OBVIOUS
<1> HIDE DEF f
<1>4. [f[c] EXCEPT !.pc = "move", !.target = 0] \in Call
  BY <1>1, <1>2 DEF Call
<1>5. call' \in [Calls -> Call]
  BY <1>2, <1>3, <1>4
<1>6. call'[c] = [f[c] EXCEPT !.pc = "move", !.target = 0] /\ \A d \in Calls \ {c} : call'[d] = f[d]
  BY <1>2, <1>3
<1>7. call'[c].pc = "move" /\ call'[c].id = f[c].id
  <2>1. f[c] \in [pc : Pc, id : Uploads \cup {NoUpload}, chunk : 0..TotalChunks + 1,
                   target : Names, source : SUBSET Chunks, linked : BOOLEAN]
    BY <1>2 DEF Call
  <2>2. QED
    BY <1>6, <2>1
<1>8. QED
  BY <1>2, <1>5, <1>6, <1>7 DEF OneActs, Moves, Unlinks

LEMMA CopyActs ==
    ASSUME TypeOK, NEW c \in Calls, NEW S \in SUBSET Chunks,
           call' = [call EXCEPT ![c] = [@ EXCEPT !.pc = "copy", !.chunk = 1, !.source = S,
                                            !.linked = TRUE]]
    PROVE  OneActs(c) /\ Moves(c, "copy") /\ call'[c].target = call[c].target
<1>1. call \in [Calls -> Call] /\ "copy" \in Pc /\ 1 \in 0..TotalChunks + 1
  BY CountsAssumption DEF TypeOK, Pc
<1>2. [call[c] EXCEPT !.pc = "copy", !.chunk = 1, !.source = S, !.linked = TRUE] \in Call
  BY <1>1 DEF Call
<1>3. call' \in [Calls -> Call]
  BY <1>1, <1>2
<1>4. QED
  BY <1>1, <1>3 DEF OneActs, Moves, Call

LEMMA Markers == NoUpload \notin Uploads /\ NoCall \notin Calls
  BY MarkersAssumption

LEMMA ChunksFinite == IsFiniteSet(Chunks) /\ Cardinality(Chunks) = TotalChunks
  BY FS_Interval, CountsAssumption DEF Chunks

\* A session that counted every chunk received every chunk, and has them on disk.
LEMMA CompleteIsWhole ==
    ASSUME TypeOK, Counted, NEW u \in Uploads, upload[u].count = TotalChunks
    PROVE  upload[u].received = Chunks /\ (temp[u] # NoFile => temp[u] = Chunks)
<1>1. upload[u].received \subseteq Chunks /\ (temp[u] # NoFile => temp[u] \subseteq Chunks)
  BY DEF TypeOK, Session
<1>2. upload[u].received = Chunks
  BY <1>1, ChunksFinite, FS_Subset DEF Counted
<1>3. QED
  BY <1>1, <1>2 DEF Counted

LEMMA ReceiveCounts ==
    ASSUME NEW s \in Session, NEW k \in Chunks, s.count = Cardinality(s.received)
    PROVE  /\ Receive(s, k) \in Session
           /\ Receive(s, k).received = s.received \cup {k}
           /\ Receive(s, k).count = Cardinality(s.received \cup {k})
           /\ Receive(s, k).policy = s.policy /\ Receive(s, k).allowed = s.allowed
<1>1. IsFiniteSet(s.received) /\ s.received \in SUBSET Chunks /\ s.count \in Nat
  BY ChunksFinite, FS_Subset DEF Session
<1>2. CASE k \in s.received
  <2>1. Receive(s, k) = s /\ s.received \cup {k} = s.received
    BY <1>2 DEF Receive
  <2>2. QED
    BY <2>1
<1>3. CASE k \notin s.received
  <2>1. Receive(s, k) = [s EXCEPT !.received = s.received \cup {k}, !.count = s.count + 1]
    BY <1>3 DEF Receive
  <2>2. Cardinality(s.received \cup {k}) = s.count + 1
    BY <1>1, <1>3, FS_AddElement
  <2>3. Receive(s, k) = [policy |-> s.policy, allowed |-> s.allowed,
                         received |-> s.received \cup {k}, count |-> s.count + 1]
    BY <2>1 DEF Session
  <2>4. QED
    BY <2>2, <2>3 DEF Session
<1>4. QED
  BY <1>2, <1>3

-----------------------------------------------------------------------------
(* Steps several actions share: only the calls and the mutexes change.     *)

QuietButCalls == UNCHANGED <<sessions, upload, temp, completed, withdrawn, emptied>>

\* What is drawn stays drawn while a call moves on or answers.
LEMMA DrawnKeeps ==
    ASSUME IInv, NEW c \in Calls, call[c].id \in Uploads, OneActs(c),
           Returns(c) \/ (call'[c].pc # "idle" /\ call'[c].id = call[c].id),
           UNCHANGED <<upload, completed>>, sessions' \subseteq sessions, emptied' \subseteq emptied,
           \A u \in Uploads : temp[u] = NoFile => temp'[u] = NoFile
    PROVE  Drawn'
<1>1. \A d \in Calls : call'[d].pc = "idle" <=> call'[d].id = NoUpload
  BY Markers DEF IInv, Drawn, OneActs, Returns, At
<1>2. \A u \in Uploads, d \in Calls : call[d].id # u => call'[d].id # u
  BY Markers DEF OneActs, Returns
<1>3. QED
  BY <1>1, <1>2 DEF IInv, Drawn, At

\* A call that answers, and unlocks its session if it had locked it.
LEMMA ReturnKeeps ==
    ASSUME IInv, NEW c \in Calls, call[c].id \in Uploads, TypeOK', Linked', OneDevice', QuietButCalls,
           OneActs(c), Returns(c),
           holder' = holder \/ (call[c].pc \in Holding /\ Unlock(c))
    PROVE  IInv'
<1>1. Owned'
  BY DEF IInv, TypeOK, Call, OneActs, Returns, Owned, Holding, Drawn, At, Unlock
<1>2. Drawn'
  BY DrawnKeeps DEF QuietButCalls
<1>3. Counted'
  BY DEF IInv, TypeOK, QuietButCalls, Counted
<1>4. Checked'
  BY DEF IInv, TypeOK, QuietButCalls, OneActs, Returns, Checked, At
<1>5. Spent'
  BY DEF IInv, TypeOK, QuietButCalls, OneActs, Returns, Spent, Holding
<1>6. Replacing'
  BY DEF IInv, TypeOK, QuietButCalls, Replacing, ReplacedOrWithdrawn
<1>7. QED
  BY <1>1, <1>2, <1>3, <1>4, <1>5, <1>6 DEF IInv

\* A call that goes on with the mutex it has.
LEMMA AdvanceKeeps ==
    ASSUME IInv, NEW c \in Calls, call[c].id \in Uploads, TypeOK', Linked', OneDevice', QuietButCalls,
           NEW pc \in Holding, OneActs(c), Moves(c, pc), call[c].pc \in Holding,
           holder' = holder, Checked'
    PROVE  IInv'
<1>1. Owned'
  BY DEF IInv, TypeOK, OneActs, Moves, Owned
<1>2. Drawn'
  BY DrawnKeeps DEF QuietButCalls, Moves, Holding
<1>3. Counted'
  BY DEF IInv, TypeOK, QuietButCalls, Counted
<1>4. Spent'
  BY DEF IInv, TypeOK, QuietButCalls, OneActs, Moves, Spent
<1>5. Replacing'
  BY DEF IInv, TypeOK, QuietButCalls, Replacing, ReplacedOrWithdrawn
<1>6. QED
  BY <1>1, <1>2, <1>3, <1>4, <1>5 DEF IInv

-----------------------------------------------------------------------------
(* One lemma per action                                                    *)

LEMMA InitTempInv ==
    ASSUME IInv, NEW c \in Calls, NEW u \in Uploads, InitTemp(c, u)
    PROVE  IInv'
<1>1. OneActs(c) /\ call'[c].pc = "register" /\ call'[c].id = u
  BY BeginActs DEF IInv, InitTemp, Pc
<1>2. /\ upload' \in [Uploads -> Session]
/\ upload'[u] # NotDrawn
/\ \A v \in Uploads \ {u} : upload'[v] = upload[v]
  <2>1. PICK p \in Policies, ok \in BOOLEAN :
         upload' = [upload EXCEPT ![u] = [@ EXCEPT !.policy = p, !.allowed = ok]]
    BY DEF InitTemp
  <2>2. upload[u] \in Session /\ upload \in [Uploads -> Session]
    BY DEF IInv, TypeOK
  <2>3. [upload[u] EXCEPT !.policy = p, !.allowed = ok] \in Session
    BY <2>2 DEF Session
  <2>4. [upload[u] EXCEPT !.policy = p, !.allowed = ok].policy = p
    OBVIOUS
  <2>5. NotDrawn.policy \notin Policies
    BY DEF NotDrawn, Policies
  <2>6. QED
    BY <2>1, <2>2, <2>3, <2>4, <2>5
<1>3. TypeOK'
  BY <1>1, <1>2 DEF IInv, TypeOK, OneActs, InitTemp, ages, history
<1>4. Owned'
  BY DEF IInv, TypeOK, Owned, Holding, InitTemp
<1>5. Drawn'
  BY <1>2 DEF IInv, TypeOK, Drawn, At, InitTemp, history, Session
<1>6. Counted'
  BY FS_EmptySet DEF IInv, TypeOK, Counted, InitTemp, NotDrawn, Session
<1>7. Checked'
  BY DEF IInv, TypeOK, Checked, Drawn, At, InitTemp, history
<1>8. Spent'
  BY DEF IInv, TypeOK, Spent, Drawn, InitTemp, history
<1>9. Linked'
  BY DEF IInv, TypeOK, Linked, At, InitTemp
<1>10. OneDevice'
  BY DEF IInv, OneDevice, InitTemp
<1>11. Replacing'
  BY DEF IInv, TypeOK, Replacing, ReplacedOrWithdrawn, Drawn, InitTemp, history, Session
<1>12. QED
  BY <1>3, <1>4, <1>5, <1>6, <1>7, <1>8, <1>9, <1>10, <1>11 DEF IInv

LEMMA InitRegisterInv ==
    ASSUME IInv, NEW c \in Calls, InitRegister(c)
    PROVE  IInv'
<1>1. OneActs(c) /\ Returns(c)
  BY AnswerActs DEF IInv, InitRegister
<1>2. call[c].id \in Uploads
  BY DEF IInv, TypeOK, Call, Drawn, At, InitRegister
<1>3. TypeOK'
  BY <1>1, <1>2 DEF IInv, TypeOK, OneActs, InitRegister, files, ages, history
<1>4. Owned'
  BY <1>1 DEF IInv, TypeOK, OneActs, Returns, Owned, Holding, InitRegister
<1>5. Drawn'
  BY <1>1, Markers DEF IInv, TypeOK, OneActs, Returns, Drawn, At, InitRegister, files,
     history
<1>6. Counted'
  BY DEF IInv, TypeOK, Counted, InitRegister, files
<1>7. Checked'
  BY <1>1 DEF IInv, TypeOK, OneActs, Returns, Checked, At, InitRegister, files, history
<1>8. Spent'
  BY <1>1 DEF IInv, TypeOK, OneActs, Returns, Spent, Holding, InitRegister, files, history
<1>9. Linked'
  BY <1>1 DEF IInv, TypeOK, OneActs, Returns, Linked, At, InitRegister, files
<1>10. OneDevice'
  BY <1>1 DEF IInv, OneActs, Returns, OneDevice, InitRegister, files
<1>11. Replacing'
  BY DEF IInv, TypeOK, Replacing, ReplacedOrWithdrawn, InitRegister, files, history
<1>12. QED
  BY <1>3, <1>4, <1>5, <1>6, <1>7, <1>8, <1>9, <1>10, <1>11 DEF IInv

LEMMA WriteOpenInv ==
    ASSUME IInv, NEW c \in Calls, WriteOpen(c)
    PROVE  IInv'
<1>1. call[c].id \in Uploads
  BY DEF IInv, TypeOK, Call, Drawn, At, WriteOpen
<1>2. /\ call[c].pc = "writeLock"
      /\ UNCHANGED <<sessions, upload, temp, dest, cleaner, expired, stale, completed, withdrawn,
                     emptied, interrupted, crashes>>
  BY DEF WriteOpen, At, files, ages, history
<1>3. \/ OneActs(c) /\ Returns(c) /\ holder' = holder
      \/ /\ OneActs(c) /\ Moves(c, "copyBody") /\ holder[call[c].id] = NoCall /\ Lock(c)
         /\ temp[call[c].id] # NoFile /\ call'[c].chunk \in Chunks
  <2>1. ASSUME NEW k \in Chunks, call' = [call EXCEPT ![c] = [@ EXCEPT !.pc = "copyBody", !.chunk = k]]
        PROVE  OneActs(c) /\ Moves(c, "copyBody") /\ call'[c].chunk \in Chunks
    <3>1. call \in [Calls -> Call] /\ k \in 0..TotalChunks + 1
      BY CountsAssumption DEF IInv, TypeOK, Chunks
    <3>2. call' \in [Calls -> Call]
      BY <2>1, <3>1 DEF Call, Pc
    <3>3. QED
      BY <2>1, <3>2 DEF OneActs, Moves
  <2>2. \/ Answer(c) /\ holder' = holder
        \/ /\ holder[call[c].id] = NoCall /\ Lock(c) /\ temp[call[c].id] # NoFile
           /\ \E k \in Chunks : call' = [call EXCEPT ![c] = [@ EXCEPT !.pc = "copyBody", !.chunk = k]]
    BY DEF WriteOpen
  <2>3. QED
    BY <2>1, <2>2, AnswerActs DEF IInv
<1>4. CASE OneActs(c) /\ Returns(c) /\ holder' = holder
  <2>1. TypeOK'
    BY <1>2, <1>4 DEF IInv, TypeOK, OneActs
  <2>2. Linked'
    BY <1>2, <1>4 DEF IInv, TypeOK, OneActs, Returns, Linked, At
  <2>3. OneDevice'
    BY <1>2, <1>4 DEF IInv, OneActs, Returns, OneDevice
  <2>4. QED
    BY <1>1, <1>2, <1>4, <2>1, <2>2, <2>3, ReturnKeeps DEF QuietButCalls
<1>5. CASE /\ OneActs(c) /\ Moves(c, "copyBody") /\ holder[call[c].id] = NoCall /\ Lock(c)
           /\ temp[call[c].id] # NoFile /\ call'[c].chunk \in Chunks
  <2>1. TypeOK'
    BY <1>2, <1>5 DEF IInv, TypeOK, OneActs, Lock
  <2>2. Owned'
    BY <1>1, <1>5, Markers DEF IInv, TypeOK, OneActs, Moves, Owned, Lock
  <2>3. Drawn'
    BY <1>1, <1>2, <1>5, DrawnKeeps DEF Moves
  <2>4. Counted'
    BY <1>2 DEF IInv, TypeOK, Counted
  <2>5. Checked'
    BY <1>2, <1>5 DEF IInv, TypeOK, OneActs, Moves, Checked, At
  <2>6. Spent'
    BY <1>2, <1>5 DEF IInv, TypeOK, OneActs, Moves, Spent
  <2>7. Linked'
    BY <1>2, <1>5 DEF IInv, TypeOK, OneActs, Moves, Linked, At
  <2>8. OneDevice'
    BY <1>2, <1>5 DEF IInv, OneActs, Moves, OneDevice
  <2>9. Replacing'
    BY <1>2 DEF IInv, TypeOK, Replacing, ReplacedOrWithdrawn
  <2>10. QED
    BY <2>1, <2>2, <2>3, <2>4, <2>5, <2>6, <2>7, <2>8, <2>9 DEF IInv
<1>6. QED
  BY <1>3, <1>4, <1>5

LEMMA WriteBodyInv ==
    ASSUME IInv, NEW c \in Calls, WriteBody(c)
    PROVE  IInv'
<1>1. OneActs(c) /\ Returns(c)
  BY AnswerActs DEF IInv, WriteBody
<1>2. call[c].id \in Uploads
  BY DEF IInv, TypeOK, Call, Drawn, At, WriteBody
<1>3. /\ call[c].pc = "copyBody" /\ Unlock(c) /\ call[c].chunk \in Chunks /\ stale' \subseteq Uploads
      /\ UNCHANGED <<sessions, dest, cleaner, expired, completed, withdrawn, emptied, interrupted,
                     crashes>>
  BY DEF IInv, TypeOK, Checked, WriteBody, At, history
<1>4. \/ temp' = temp /\ upload' = upload
      \/ /\ \A v \in Uploads \ {call[c].id} : temp'[v] = temp[v] /\ upload'[v] = upload[v]
         /\ temp'[call[c].id] = IF temp[call[c].id] = NoFile THEN NoFile
                                ELSE temp[call[c].id] \cup {call[c].chunk}
         /\ upload'[call[c].id].received = upload[call[c].id].received \cup {call[c].chunk}
         /\ upload'[call[c].id].count = Cardinality(upload'[call[c].id].received)
         /\ upload'[call[c].id].policy = upload[call[c].id].policy
         /\ upload'[call[c].id].allowed = upload[call[c].id].allowed
         /\ upload' \in [Uploads -> Session] /\ temp' \in [Uploads -> (SUBSET Chunks) \cup {NoFile}]
  <2>1. /\ upload[call[c].id] \in Session
        /\ upload[call[c].id].count = Cardinality(upload[call[c].id].received)
    BY <1>2 DEF IInv, TypeOK, Counted
  <2>2. \/ temp' = temp /\ upload' = upload
        \/ /\ temp' = IF temp[call[c].id] # NoFile
                      THEN [temp EXCEPT ![call[c].id] = @ \cup {call[c].chunk}] ELSE temp
           /\ upload' = [upload EXCEPT ![call[c].id] = Receive(@, call[c].chunk)]
    BY DEF WriteBody
  <2>3. LET s == Receive(upload[call[c].id], call[c].chunk)
        IN  /\ s \in Session /\ s.received = upload[call[c].id].received \cup {call[c].chunk}
            /\ s.count = Cardinality(s.received)
            /\ s.policy = upload[call[c].id].policy /\ s.allowed = upload[call[c].id].allowed
    BY <1>3, <2>1, ReceiveCounts
  <2>4. upload \in [Uploads -> Session] /\ temp \in [Uploads -> (SUBSET Chunks) \cup {NoFile}]
    BY DEF IInv, TypeOK
  <2>5. CASE upload' = [upload EXCEPT ![call[c].id] = Receive(@, call[c].chunk)]
    <3>1. upload'[call[c].id] = Receive(upload[call[c].id], call[c].chunk)
      BY <1>2, <2>4, <2>5
    <3>2. \A v \in Uploads \ {call[c].id} : upload'[v] = upload[v]
      BY <2>5
    <3>3. upload' \in [Uploads -> Session]
      BY <2>3, <2>4, <2>5
    <3>4. \/ temp' = temp /\ upload' = upload
          \/ temp' = IF temp[call[c].id] # NoFile
                     THEN [temp EXCEPT ![call[c].id] = @ \cup {call[c].chunk}] ELSE temp
      BY <2>2
    <3>5. CASE temp' = IF temp[call[c].id] # NoFile
                       THEN [temp EXCEPT ![call[c].id] = @ \cup {call[c].chunk}] ELSE temp
      <4>1. /\ \A v \in Uploads \ {call[c].id} : temp'[v] = temp[v]
            /\ temp'[call[c].id] = IF temp[call[c].id] = NoFile THEN NoFile
                                   ELSE temp[call[c].id] \cup {call[c].chunk}
            /\ temp' \in [Uploads -> (SUBSET Chunks) \cup {NoFile}]
        BY <1>2, <1>3, <2>4, <3>5
      <4>2. QED
        BY <2>3, <3>1, <3>2, <3>3, <4>1
    <3>6. QED
      BY <3>4, <3>5
  <2>6. QED
    BY <2>2, <2>5
<1>5. CASE temp' = temp /\ upload' = upload
  <2>1. TypeOK'
    BY <1>1, <1>3, <1>5 DEF IInv, TypeOK, OneActs, Unlock
  <2>2. Linked'
    BY <1>1, <1>3 DEF IInv, TypeOK, OneActs, Returns, Linked, At
  <2>3. OneDevice'
    BY <1>1, <1>3 DEF IInv, OneActs, Returns, OneDevice
  <2>4. QED
    BY <1>1, <1>2, <1>3, <1>5, <2>1, <2>2, <2>3, ReturnKeeps DEF QuietButCalls, Holding
<1>6. CASE /\ \A v \in Uploads \ {call[c].id} : temp'[v] = temp[v] /\ upload'[v] = upload[v]
           /\ temp'[call[c].id] = IF temp[call[c].id] = NoFile THEN NoFile
                                  ELSE temp[call[c].id] \cup {call[c].chunk}
           /\ upload'[call[c].id].received = upload[call[c].id].received \cup {call[c].chunk}
           /\ upload'[call[c].id].count = Cardinality(upload'[call[c].id].received)
           /\ upload'[call[c].id].policy = upload[call[c].id].policy
           /\ upload'[call[c].id].allowed = upload[call[c].id].allowed
           /\ upload' \in [Uploads -> Session] /\ temp' \in [Uploads -> (SUBSET Chunks) \cup {NoFile}]
  <2>1. TypeOK'
    BY <1>1, <1>3, <1>6 DEF IInv, TypeOK, OneActs, Unlock
  <2>2. Owned'
    BY <1>1, <1>3 DEF IInv, TypeOK, OneActs, Returns, Owned, Holding, Unlock
  <2>3. Drawn'
    <3>1. \A d \in Calls : call'[d].pc = "idle" <=> call'[d].id = NoUpload
      BY <1>1 DEF IInv, Drawn, OneActs, Returns, At
    <3>2. \A v \in Uploads, d \in Calls : call[d].id # v => call'[d].id # v
      BY <1>1, Markers DEF OneActs, Returns
    <3>3. upload'[call[c].id] # NotDrawn
      BY <1>6 DEF NotDrawn
    <3>4. \A v \in Uploads : upload'[v] = NotDrawn => upload[v] = NotDrawn /\ temp'[v] = temp[v]
      BY <1>6, <3>3
    <3>5. QED
      BY <1>3, <3>1, <3>2, <3>4 DEF IInv, Drawn, At
  <2>4. Counted'
    BY <1>6 DEF IInv, TypeOK, Counted
  <2>5. Checked'
    BY <1>1, <1>3, <1>6 DEF IInv, TypeOK, Call, OneActs, Returns, Checked, Owned, Holding,
       Drawn, At
  <2>6. Spent'
    BY <1>1, <1>3, <1>6 DEF IInv, TypeOK, OneActs, Returns, Spent, Holding
  <2>7. Linked'
    BY <1>1, <1>3 DEF IInv, TypeOK, OneActs, Returns, Linked, At
  <2>8. OneDevice'
    BY <1>1, <1>3 DEF IInv, OneActs, Returns, OneDevice
  <2>9. Replacing'
    <3>1. \A v \in emptied : /\ upload[v].policy = "overwrite" /\ upload[v].allowed
                             /\ upload[v].received = Chunks /\ upload[v].count = TotalChunks
                             /\ v \in Uploads
      BY CompleteIsWhole DEF IInv, TypeOK, Replacing
    <3>2. \A v \in emptied : /\ upload'[v].policy = "overwrite" /\ upload'[v].allowed
                             /\ upload'[v].count = TotalChunks
      <4>1. Chunks \cup {call[c].chunk} = Chunks
        BY <1>3
      <4>2. QED
        BY <1>6, <3>1, <4>1, ChunksFinite
    <3>3. \A v \in emptied \ withdrawn : temp'[v] = Chunks
      <4>1. Chunks # NoFile /\ Chunks \cup {call[c].chunk} = Chunks
        BY <1>3, MarkersAssumption
      <4>2. \A v \in emptied \ withdrawn : temp[v] = Chunks
        BY DEF IInv, Replacing, ReplacedOrWithdrawn
      <4>3. QED
        BY <1>6, <3>1, <4>1, <4>2
    <3>4. QED
      BY <1>3, <3>2, <3>3 DEF Replacing, ReplacedOrWithdrawn
  <2>10. QED
    BY <2>1, <2>2, <2>3, <2>4, <2>5, <2>6, <2>7, <2>8, <2>9 DEF IInv
<1>7. QED
  BY <1>4, <1>5, <1>6

LEMMA CompleteCheckInv ==
    ASSUME IInv, NEW c \in Calls, CompleteCheck(c)
    PROVE  IInv'
<1>1. call[c].id \in Uploads
  BY DEF IInv, TypeOK, Call, Drawn, At, CompleteCheck
<1>2. /\ call[c].pc = "completeLock"
      /\ UNCHANGED <<sessions, upload, temp, dest, cleaner, expired, stale, completed, withdrawn,
                     emptied, interrupted, crashes>>
  BY DEF CompleteCheck, At, files, ages, history
<1>3. \/ OneActs(c) /\ Returns(c) /\ holder' = holder
      \/ /\ OneActs(c) /\ Moves(c, "resolve") /\ holder[call[c].id] = NoCall /\ Lock(c)
         /\ ReadyToMove(call[c].id) /\ upload[call[c].id].allowed
      \/ /\ OneActs(c) /\ Moves(c, "drop") /\ holder[call[c].id] = NoCall /\ Lock(c)
         /\ ReadyToMove(call[c].id) /\ ~upload[call[c].id].allowed
  BY AnswerActs, GoToActs DEF IInv, Pc, CompleteCheck
<1>4. CASE OneActs(c) /\ Returns(c) /\ holder' = holder
  <2>1. TypeOK'
    BY <1>2, <1>4 DEF IInv, TypeOK, OneActs
  <2>2. Linked'
    BY <1>2, <1>4 DEF IInv, TypeOK, OneActs, Returns, Linked, At
  <2>3. OneDevice'
    BY <1>2, <1>4 DEF IInv, OneActs, Returns, OneDevice
  <2>4. QED
    BY <1>1, <1>2, <1>4, <2>1, <2>2, <2>3, ReturnKeeps DEF QuietButCalls
<1>5. CASE /\ OneActs(c) /\ Moves(c, "resolve") /\ holder[call[c].id] = NoCall /\ Lock(c)
           /\ ReadyToMove(call[c].id) /\ upload[call[c].id].allowed
  <2>1. TypeOK'
    BY <1>2, <1>5 DEF IInv, TypeOK, OneActs, Lock
  <2>2. Owned'
    BY <1>1, <1>5, Markers DEF IInv, TypeOK, OneActs, Moves, Owned, Lock
  <2>3. Drawn'
    BY <1>1, <1>2, <1>5, DrawnKeeps DEF Moves
  <2>4. Counted'
    BY <1>2 DEF IInv, TypeOK, Counted
  <2>5. Checked'
    BY <1>2, <1>5 DEF IInv, TypeOK, OneActs, Moves, Checked, At, ReadyToMove
  <2>6. Spent'
    BY <1>2, <1>5 DEF IInv, TypeOK, OneActs, Moves, Spent, ReadyToMove
  <2>7. Linked'
    BY <1>2, <1>5 DEF IInv, TypeOK, OneActs, Moves, Linked, At
  <2>8. OneDevice'
    BY <1>2, <1>5 DEF IInv, OneActs, Moves, OneDevice
  <2>9. Replacing'
    BY <1>2 DEF IInv, TypeOK, Replacing, ReplacedOrWithdrawn
  <2>10. QED
    BY <2>1, <2>2, <2>3, <2>4, <2>5, <2>6, <2>7, <2>8, <2>9 DEF IInv
<1>6. CASE /\ OneActs(c) /\ Moves(c, "drop") /\ holder[call[c].id] = NoCall /\ Lock(c)
           /\ ReadyToMove(call[c].id) /\ ~upload[call[c].id].allowed
  <2>1. TypeOK'
    BY <1>2, <1>6 DEF IInv, TypeOK, OneActs, Lock
  <2>2. Owned'
    BY <1>1, <1>6, Markers DEF IInv, TypeOK, OneActs, Moves, Owned, Lock
  <2>3. Drawn'
    BY <1>1, <1>2, <1>6, DrawnKeeps DEF Moves
  <2>4. Counted'
    BY <1>2 DEF IInv, TypeOK, Counted
  <2>5. Checked'
    BY <1>2, <1>6 DEF IInv, TypeOK, OneActs, Moves, Checked, At
  <2>6. Spent'
    BY <1>2, <1>6 DEF IInv, TypeOK, OneActs, Moves, Spent, ReadyToMove
  <2>7. Linked'
    BY <1>2, <1>6 DEF IInv, TypeOK, OneActs, Moves, Linked, At
  <2>8. OneDevice'
    BY <1>2, <1>6 DEF IInv, OneActs, Moves, OneDevice
  <2>9. Replacing'
    BY <1>2 DEF IInv, TypeOK, Replacing, ReplacedOrWithdrawn
  <2>10. QED
    BY <2>1, <2>2, <2>3, <2>4, <2>5, <2>6, <2>7, <2>8, <2>9 DEF IInv
<1>7. QED
  BY <1>3, <1>4, <1>5, <1>6

LEMMA CompleteDropInv ==
    ASSUME IInv, NEW c \in Calls, CompleteDrop(c)
    PROVE  IInv'
<1>1. OneActs(c) /\ Moves(c, "forget")
  BY GoToActs DEF IInv, Pc, CompleteDrop
<1>2. TypeOK'
  BY <1>1 DEF IInv, TypeOK, OneActs, CompleteDrop, ages, history, RemoveTemp
<1>3. Owned'
  BY <1>1 DEF IInv, TypeOK, OneActs, Moves, Owned, Holding, At, CompleteDrop
<1>4. Drawn'
  BY <1>1 DEF IInv, TypeOK, OneActs, Moves, Drawn, At, CompleteDrop, ages, history,
     RemoveTemp
<1>5. Counted'
  BY DEF IInv, TypeOK, Counted, CompleteDrop, RemoveTemp
<1>6. Checked'
  BY <1>1 DEF IInv, TypeOK, OneActs, Moves, Checked, Owned, Holding, At, CompleteDrop,
     history, RemoveTemp
<1>7. Spent'
  BY <1>1 DEF IInv, TypeOK, OneActs, Moves, Spent, Holding, At, CompleteDrop, history,
     RemoveTemp
<1>8. Linked'
  BY <1>1 DEF IInv, TypeOK, OneActs, Moves, Linked, At, CompleteDrop
<1>9. OneDevice'
  BY <1>1 DEF IInv, OneActs, Moves, OneDevice, CompleteDrop
<1>10. Replacing'
  BY DEF IInv, TypeOK, Replacing, ReplacedOrWithdrawn, Checked, CompleteDrop, history,
     RemoveTemp
<1>11. QED
  BY <1>2, <1>3, <1>4, <1>5, <1>6, <1>7, <1>8, <1>9, <1>10 DEF IInv

LEMMA CompleteForgetInv ==
    ASSUME IInv, NEW c \in Calls, CompleteForget(c)
    PROVE  IInv'
<1>1. OneActs(c) /\ Returns(c)
  BY AnswerActs DEF IInv, CompleteForget
<1>2. TypeOK'
  BY <1>1 DEF IInv, TypeOK, OneActs, CompleteForget, files, ages, history, Unlock
<1>3. Owned'
  BY <1>1 DEF IInv, TypeOK, OneActs, Returns, Owned, Holding, At, CompleteForget, Unlock
<1>4. Drawn'
  BY <1>1, Markers DEF IInv, TypeOK, OneActs, Returns, Drawn, At, CompleteForget, files,
     history
<1>5. Counted'
  BY DEF IInv, TypeOK, Counted, CompleteForget, files
<1>6. Checked'
  BY <1>1 DEF IInv, TypeOK, OneActs, Returns, Checked, At, CompleteForget, files, history
<1>7. Spent'
  BY <1>1 DEF IInv, TypeOK, OneActs, Returns, Spent, Holding, CompleteForget, files, history
<1>8. Linked'
  BY <1>1 DEF IInv, TypeOK, OneActs, Returns, Linked, At, CompleteForget, files
<1>9. OneDevice'
  BY <1>1 DEF IInv, OneActs, Returns, OneDevice, CompleteForget, files
<1>10. Replacing'
  BY DEF IInv, TypeOK, Replacing, ReplacedOrWithdrawn, CompleteForget, files, history
<1>11. QED
  BY <1>2, <1>3, <1>4, <1>5, <1>6, <1>7, <1>8, <1>9, <1>10 DEF IInv

LEMMA CompleteResolveInv ==
    ASSUME IInv, NEW c \in Calls, CompleteResolve(c)
    PROVE  IInv'
<1>1. call[c].id \in Uploads
  BY DEF IInv, TypeOK, Call, Drawn, At, CompleteResolve
<1>2. /\ call[c].pc = "resolve"
      /\ UNCHANGED <<sessions, upload, temp, cleaner, expired, stale, completed, withdrawn,
                     interrupted, crashes>>
  BY DEF CompleteResolve, At, ages
<1>3. \/ OneActs(c) /\ Returns(c) /\ Unlock(c) /\ UNCHANGED <<dest, emptied>>
      \/ OneActs(c) /\ Moves(c, "move") /\ UNCHANGED <<dest, holder, emptied>>
      \/ /\ OneActs(c) /\ Moves(c, "drop") /\ UNCHANGED <<dest, holder, emptied>>
         /\ upload[call[c].id].policy = "skip"
      \/ /\ OneActs(c) /\ Moves(c, "move") /\ Unlinks(c, 0) /\ holder' = holder
         /\ upload[call[c].id].policy = "overwrite"
         /\ dest' = [dest EXCEPT ![0] = NoFile] /\ emptied' = emptied \cup {call[c].id}
  <2>1. \/ /\ \E n \in Names : call' = [call EXCEPT ![c] = [@ EXCEPT !.pc = "move", !.target = n]]
           /\ UNCHANGED <<dest, holder, emptied>>
        \/ /\ GoTo(c, "drop") /\ UNCHANGED <<dest, holder, emptied>>
           /\ upload[call[c].id].policy = "skip"
        \/ /\ call' = [Detached(0) EXCEPT ![c] = [@ EXCEPT !.pc = "move", !.target = 0]]
           /\ holder' = holder /\ upload[call[c].id].policy = "overwrite"
           /\ dest' = [dest EXCEPT ![0] = NoFile] /\ emptied' = emptied \cup {call[c].id}
        \/ Unlock(c) /\ Answer(c) /\ UNCHANGED <<dest, emptied>>
    BY DEF CompleteResolve
  <2>2. "drop" \in Pc
    BY DEF Pc
  <2>3. QED
    BY <2>1, <2>2, TargetActs, OverwriteActs, AnswerActs, GoToActs DEF IInv
<1>4. CASE OneActs(c) /\ Returns(c) /\ Unlock(c) /\ UNCHANGED <<dest, emptied>>
  <2>1. TypeOK'
    BY <1>2, <1>4 DEF IInv, TypeOK, OneActs, Unlock
  <2>2. Linked'
    BY <1>4 DEF IInv, TypeOK, OneActs, Returns, Linked, At
  <2>3. OneDevice'
    BY <1>4 DEF IInv, OneActs, Returns, OneDevice
  <2>4. QED
    BY <1>1, <1>2, <1>4, <2>1, <2>2, <2>3, ReturnKeeps DEF QuietButCalls, Holding
<1>5. CASE OneActs(c) /\ Moves(c, "move") /\ UNCHANGED <<dest, holder, emptied>>
  <2>1. TypeOK'
    BY <1>2, <1>5 DEF IInv, TypeOK, OneActs
  <2>2. Linked'
    BY <1>5 DEF IInv, TypeOK, OneActs, Moves, Linked, At
  <2>3. OneDevice'
    BY <1>5 DEF IInv, OneActs, Moves, OneDevice
  <2>4. Checked'
    BY <1>2, <1>5 DEF IInv, TypeOK, OneActs, Moves, Checked, At
  <2>5. QED
    BY <1>1, <1>2, <1>5, <2>1, <2>2, <2>3, <2>4, AdvanceKeeps DEF QuietButCalls, Holding
<1>6. CASE /\ OneActs(c) /\ Moves(c, "drop") /\ UNCHANGED <<dest, holder, emptied>>
           /\ upload[call[c].id].policy = "skip"
  <2>1. TypeOK'
    BY <1>2, <1>6 DEF IInv, TypeOK, OneActs
  <2>2. Linked'
    BY <1>6 DEF IInv, TypeOK, OneActs, Moves, Linked, At
  <2>3. OneDevice'
    BY <1>6 DEF IInv, OneActs, Moves, OneDevice
  <2>4. Checked'
    BY <1>2, <1>6 DEF IInv, TypeOK, OneActs, Moves, Checked, At
  <2>5. QED
    BY <1>1, <1>2, <1>6, <2>1, <2>2, <2>3, <2>4, AdvanceKeeps DEF QuietButCalls, Holding
<1>7. CASE /\ OneActs(c) /\ Moves(c, "move") /\ Unlinks(c, 0) /\ holder' = holder
           /\ upload[call[c].id].policy = "overwrite"
           /\ dest' = [dest EXCEPT ![0] = NoFile] /\ emptied' = emptied \cup {call[c].id}
  <2>1. TypeOK'
    BY <1>1, <1>2, <1>7 DEF IInv, TypeOK, OneActs
  <2>2. Owned'
    BY <1>2, <1>7 DEF IInv, TypeOK, OneActs, Moves, Owned, Holding
  <2>3. Drawn'
    BY <1>2, <1>7 DEF IInv, TypeOK, OneActs, Moves, Drawn, At
  <2>4. Counted'
    BY <1>2 DEF IInv, TypeOK, Counted
  <2>5. Checked'
    BY <1>2, <1>7 DEF IInv, TypeOK, OneActs, Moves, Checked, At
  <2>6. Spent'
    BY <1>2, <1>7 DEF IInv, TypeOK, OneActs, Moves, Spent, Holding
  <2>7. Linked'
    BY <1>7 DEF IInv, TypeOK, OneActs, Moves, Linked, At, Unlinks
  <2>8. OneDevice'
    BY <1>7 DEF IInv, TypeOK, OneActs, Moves, OneDevice
  <2>9. Replacing'
    BY <1>1, <1>2, <1>7, CompleteIsWhole DEF IInv, TypeOK, Replacing, ReplacedOrWithdrawn,
       Checked
  <2>10. QED
    BY <2>1, <2>2, <2>3, <2>4, <2>5, <2>6, <2>7, <2>8, <2>9 DEF IInv
<1>8. QED
  BY <1>3, <1>4, <1>5, <1>6, <1>7

LEMMA CompleteMoveInv ==
    ASSUME IInv, NEW c \in Calls, CompleteMove(c)
    PROVE  IInv'
<1>1. call[c].id \in Uploads
  BY DEF IInv, TypeOK, Call, Drawn, At, CompleteMove
<1>2. /\ call[c].pc = "move"
      /\ UNCHANGED <<sessions, upload, cleaner, expired, stale, completed, withdrawn, interrupted, crashes>>
  BY DEF CompleteMove, At, ages
<1>3. /\ dest \in [Names -> File \cup {NoFile}] /\ dest' \in [Names -> File \cup {NoFile}]
      /\ EmptyFile # NoFile /\ \A S \in SUBSET Chunks : Content(call[c].id, S) # NoFile
      /\ call[c].target \in Names
  <2>1. \A S \in SUBSET Chunks : Content(call[c].id, S) \in File
    BY <1>1 DEF Content, File
  <2>2. EmptyFile \in File
    BY DEF EmptyFile, File
  <2>3. temp[call[c].id] # NoFile => temp[call[c].id] \in SUBSET Chunks
    BY <1>1 DEF IInv, TypeOK
  <2>4. call[c].target \in Names
    BY DEF IInv, TypeOK, Call
  <2>5. QED
    BY <2>1, <2>2, <2>3, <2>4, MarkersAssumption DEF IInv, TypeOK, CompleteMove, files
<1>4. \/ OneActs(c) /\ Returns(c) /\ Unlock(c) /\ UNCHANGED <<temp, dest, emptied>>
      \/ /\ OneActs(c) /\ Moves(c, "stat") /\ holder' = holder /\ SameDevice
         /\ temp[call[c].id] # NoFile /\ RemoveTemp(call[c].id)
         /\ dest' = [dest EXCEPT ![call[c].target] = Content(call[c].id, temp[call[c].id])]
         /\ emptied' = emptied \ {call[c].id}
      \/ /\ OneActs(c) /\ Moves(c, "copy") /\ call'[c].target = call[c].target
         /\ UNCHANGED <<temp, holder, emptied>> /\ ~SameDevice
         /\ dest' = [dest EXCEPT ![call[c].target] = EmptyFile]
  <2>1. \/ Answer(c) /\ Unlock(c) /\ UNCHANGED <<temp, dest, emptied>>
        \/ /\ GoTo(c, "stat") /\ holder' = holder /\ SameDevice
           /\ temp[call[c].id] # NoFile /\ RemoveTemp(call[c].id)
           /\ dest' = [dest EXCEPT ![call[c].target] = Content(call[c].id, temp[call[c].id])]
           /\ emptied' = emptied \ {call[c].id}
        \/ /\ \E S \in SUBSET Chunks :
                call' = [call EXCEPT ![c] = [@ EXCEPT !.pc = "copy", !.chunk = 1, !.source = S,
                                                      !.linked = TRUE]]
           /\ UNCHANGED <<temp, holder, emptied>> /\ ~SameDevice
           /\ dest' = [dest EXCEPT ![call[c].target] = EmptyFile]
    BY <1>1 DEF IInv, TypeOK, CompleteMove, files
  <2>2. "stat" \in Pc
    BY DEF Pc
  <2>3. QED
    BY <2>1, <2>2, CopyActs, AnswerActs, GoToActs DEF IInv
<1>5. CASE OneActs(c) /\ Returns(c) /\ Unlock(c) /\ UNCHANGED <<temp, dest, emptied>>
  <2>1. TypeOK'
    BY <1>2, <1>5 DEF IInv, TypeOK, OneActs, Unlock
  <2>2. Linked'
    BY <1>5 DEF IInv, TypeOK, OneActs, Returns, Linked, At
  <2>3. OneDevice'
    BY <1>5 DEF IInv, OneActs, Returns, OneDevice
  <2>4. QED
    BY <1>1, <1>2, <1>5, <2>1, <2>2, <2>3, ReturnKeeps DEF QuietButCalls, Holding
<1>6. CASE /\ OneActs(c) /\ Moves(c, "stat") /\ holder' = holder /\ SameDevice
           /\ temp[call[c].id] # NoFile /\ RemoveTemp(call[c].id)
           /\ dest' = [dest EXCEPT ![call[c].target] = Content(call[c].id, temp[call[c].id])]
           /\ emptied' = emptied \ {call[c].id}
  <2>1. TypeOK'
    BY <1>2, <1>3, <1>6 DEF IInv, TypeOK, OneActs, RemoveTemp
  <2>2. Owned'
    BY <1>2, <1>6 DEF IInv, TypeOK, OneActs, Moves, Owned, Holding
  <2>3. Drawn'
    BY <1>1, <1>2, <1>6, DrawnKeeps DEF IInv, TypeOK, RemoveTemp, Moves
  <2>4. Counted'
    BY <1>2, <1>6 DEF IInv, TypeOK, Counted, RemoveTemp
  <2>5. Checked'
    BY <1>1, <1>2, <1>6 DEF IInv, TypeOK, OneActs, Moves, Checked, Owned, Holding, At,
       RemoveTemp
  <2>6. Spent'
    BY <1>2, <1>6 DEF IInv, TypeOK, OneActs, Moves, Spent, RemoveTemp
  <2>7. Linked'
    BY <1>1, <1>3, <1>6 DEF IInv, TypeOK, OneActs, Moves, Linked, At
  <2>8. OneDevice'
    <3>1. temp[call[c].id] = Chunks
      BY <1>1, <1>2, <1>6, CompleteIsWhole DEF IInv, Checked
    <3>2. Content(call[c].id, Chunks) = [k \in Chunks |-> call[c].id]
      BY DEF Content
    <3>3. QED
      BY <1>1, <1>6, <3>1, <3>2 DEF IInv, OneDevice, OneActs, Moves
  <2>9. Replacing'
    BY <1>2, <1>6 DEF IInv, TypeOK, Replacing, ReplacedOrWithdrawn, RemoveTemp
  <2>10. QED
    BY <2>1, <2>2, <2>3, <2>4, <2>5, <2>6, <2>7, <2>8, <2>9 DEF IInv
<1>7. CASE /\ OneActs(c) /\ Moves(c, "copy") /\ call'[c].target = call[c].target
           /\ UNCHANGED <<temp, holder, emptied>> /\ ~SameDevice
           /\ dest' = [dest EXCEPT ![call[c].target] = EmptyFile]
  <2>1. TypeOK'
    BY <1>2, <1>3, <1>7 DEF IInv, TypeOK, OneActs
  <2>2. Linked'
    BY <1>3, <1>7 DEF IInv, TypeOK, OneActs, Linked, At
  <2>3. OneDevice'
    BY <1>7 DEF IInv, OneDevice
  <2>4. Checked'
    BY <1>2, <1>7 DEF IInv, TypeOK, OneActs, Moves, Checked, At
  <2>5. QED
    BY <1>1, <1>2, <1>7, <2>1, <2>2, <2>3, <2>4, AdvanceKeeps DEF QuietButCalls, Holding
<1>8. QED
  BY <1>4, <1>5, <1>6, <1>7

LEMMA CompleteCopyInv ==
    ASSUME IInv, NEW c \in Calls, CompleteCopy(c)
    PROVE  IInv'
<1>1. call[c].id \in Uploads
  BY DEF IInv, TypeOK, Call, Drawn, At, CompleteCopy
<1>2. /\ call[c].pc = "copy"
      /\ UNCHANGED <<sessions, upload, temp, cleaner, expired, stale, completed, withdrawn,
                     emptied, interrupted, crashes>>
  BY DEF CompleteCopy, At, ages, history
<1>3. dest \in [Names -> File \cup {NoFile}] /\ call[c].target \in Names /\ NoFile \notin File
  BY MarkersAssumption DEF IInv, TypeOK, Call
<1>4. ASSUME MoreToCopy(call[c].chunk), call[c].linked, NEW by \in Uploads \cup {Hole},
             dest' = [dest EXCEPT ![call[c].target][call[c].chunk] = by]
      PROVE  /\ dest' \in [Names -> File \cup {NoFile}]
             /\ \A n \in Names : dest[n] # NoFile => dest'[n] # NoFile
  <2>1. dest[call[c].target] \in File
    BY <1>2, <1>3, <1>4 DEF IInv, Linked, At
  <2>2. [dest[call[c].target] EXCEPT ![call[c].chunk] = by] \in File
    BY <2>1 DEF File
  <2>3. QED
    BY <1>3, <1>4, <2>2
<1>5. \/ /\ OneActs(c) /\ Moves(c, "copy") /\ holder' = holder
         /\ call'[c].target = call[c].target /\ call'[c].linked = call[c].linked
         /\ \A n \in Names : dest[n] # NoFile => dest'[n] # NoFile
         /\ dest' \in [Names -> File \cup {NoFile}]
      \/ OneActs(c) /\ Moves(c, "unlink") /\ UNCHANGED <<dest, holder>>
      \/ /\ OneActs(c) /\ Returns(c) /\ Unlock(c) /\ Unlinks(c, call[c].target)
         /\ dest' = [dest EXCEPT ![call[c].target] = NoFile]
  <2>1. call \in [Calls -> Call] /\ call[c].target \in Names
    BY DEF IInv, TypeOK, Call
  <2>2. ASSUME MoreToCopy(call[c].chunk), call' = [call EXCEPT ![c].chunk = call[c].chunk + 1]
        PROVE  /\ OneActs(c) /\ Moves(c, "copy")
               /\ call'[c].target = call[c].target /\ call'[c].linked = call[c].linked
    <3>1. call[c].chunk + 1 \in 0..TotalChunks + 1
      BY <2>1, <2>2, CountsAssumption DEF Call, MoreToCopy
    <3>2. call' \in [Calls -> Call]
      BY <2>1, <2>2, <3>1 DEF Call
    <3>3. QED
      BY <1>2, <2>2, <3>2 DEF OneActs, Moves
  <2>3. ASSUME call' = [Detached(call[c].target) EXCEPT ![c] = Idle]
        PROVE  OneActs(c) /\ Returns(c) /\ Unlinks(c, call[c].target)
    <3> DEFINE f == Detached(call[c].target)
    <3>1. /\ f \in [Calls -> Call]
          /\ \A d \in Calls :
                /\ f[d].pc = call[d].pc /\ f[d].id = call[d].id
                /\ f[d].chunk = call[d].chunk /\ f[d].target = call[d].target
                /\ f[d].linked => call[d].linked
                /\ f[d].target = call[c].target => ~f[d].linked
      BY <2>1, DetachedTyped DEF IInv
    <3>2. call' = [f EXCEPT ![c] = Idle]
      BY <2>3
    <3> HIDE DEF f
    <3>3. QED
      BY <3>1, <3>2, IdleTyped DEF OneActs, Returns, Idle, Unlinks
  <2>4. \/ /\ MoreToCopy(call[c].chunk) /\ call' = [call EXCEPT ![c].chunk = call[c].chunk + 1]
           /\ holder' = holder
           /\ dest' \in [Names -> File \cup {NoFile}]
           /\ \A n \in Names : dest[n] # NoFile => dest'[n] # NoFile
        \/ GoTo(c, "unlink") /\ UNCHANGED <<dest, holder>>
        \/ /\ call' = [Detached(call[c].target) EXCEPT ![c] = Idle] /\ Unlock(c)
           /\ dest' = [dest EXCEPT ![call[c].target] = NoFile]
    <3>1. \/ /\ MoreToCopy(call[c].chunk) /\ call' = [call EXCEPT ![c].chunk = call[c].chunk + 1]
             /\ holder' = holder
             /\ \/ dest' = dest
                \/ /\ call[c].linked
                   /\ \E by \in Uploads \cup {Hole} :
                        dest' = [dest EXCEPT ![call[c].target][call[c].chunk] = by]
          \/ GoTo(c, "unlink") /\ UNCHANGED <<dest, holder>>
          \/ /\ call' = [Detached(call[c].target) EXCEPT ![c] = Idle] /\ Unlock(c)
             /\ dest' = [dest EXCEPT ![call[c].target] = NoFile]
      BY <1>1 DEF CompleteCopy
    <3>2. QED
      BY <1>3, <1>4, <3>1
  <2>5. "unlink" \in Pc
    BY DEF Pc
  <2>6. QED
    BY <2>2, <2>3, <2>4, <2>5, GoToActs DEF IInv
<1>6. CASE /\ OneActs(c) /\ Moves(c, "copy") /\ holder' = holder
           /\ call'[c].target = call[c].target /\ call'[c].linked = call[c].linked
           /\ \A n \in Names : dest[n] # NoFile => dest'[n] # NoFile
           /\ dest' \in [Names -> File \cup {NoFile}]
  <2>1. TypeOK'
    BY <1>2, <1>6 DEF IInv, TypeOK, OneActs
  <2>2. Linked'
    BY <1>2, <1>6 DEF IInv, TypeOK, Call, OneActs, Linked, At
  <2>3. OneDevice'
    BY <1>2 DEF IInv, OneDevice
  <2>4. Checked'
    BY <1>2, <1>6 DEF IInv, TypeOK, OneActs, Moves, Checked, At
  <2>5. QED
    BY <1>1, <1>2, <1>6, <2>1, <2>2, <2>3, <2>4, AdvanceKeeps DEF QuietButCalls, Holding
<1>7. CASE OneActs(c) /\ Moves(c, "unlink") /\ UNCHANGED <<dest, holder>>
  <2>1. TypeOK'
    BY <1>2, <1>7 DEF IInv, TypeOK, OneActs
  <2>2. Linked'
    BY <1>7 DEF IInv, TypeOK, OneActs, Moves, Linked, At
  <2>3. OneDevice'
    BY <1>2 DEF IInv, OneDevice
  <2>4. Checked'
    BY <1>2, <1>7 DEF IInv, TypeOK, OneActs, Moves, Checked, At
  <2>5. QED
    BY <1>1, <1>2, <1>7, <2>1, <2>2, <2>3, <2>4, AdvanceKeeps DEF QuietButCalls, Holding
<1>8. CASE /\ OneActs(c) /\ Returns(c) /\ Unlock(c) /\ Unlinks(c, call[c].target)
           /\ dest' = [dest EXCEPT ![call[c].target] = NoFile]
  <2>1. TypeOK'
    BY <1>2, <1>8 DEF IInv, TypeOK, OneActs, Unlock
  <2>2. Linked'
    BY <1>8 DEF IInv, TypeOK, OneActs, Returns, Linked, At, Unlinks
  <2>3. OneDevice'
    BY <1>2 DEF IInv, OneDevice
  <2>4. QED
    BY <1>1, <1>2, <1>8, <2>1, <2>2, <2>3, ReturnKeeps DEF QuietButCalls, Holding
<1>9. QED
  BY <1>5, <1>6, <1>7, <1>8

LEMMA CompleteUnlinkInv ==
    ASSUME IInv, NEW c \in Calls, CompleteUnlink(c)
    PROVE  IInv'
<1>1. OneActs(c) /\ Moves(c, "stat")
  BY GoToActs DEF IInv, Pc, CompleteUnlink
<1>2. call[c].id \in Uploads
  BY DEF IInv, TypeOK, Call, Drawn, At, CompleteUnlink
<1>3. TypeOK'
  BY <1>1 DEF IInv, TypeOK, OneActs, CompleteUnlink, ages, RemoveTemp
<1>4. Owned'
  BY <1>1 DEF IInv, TypeOK, OneActs, Moves, Owned, Holding, At, CompleteUnlink
<1>5. Drawn'
  BY <1>1, <1>2, DrawnKeeps DEF IInv, TypeOK, CompleteUnlink, RemoveTemp, Moves
<1>6. Counted'
  BY DEF IInv, TypeOK, Counted, CompleteUnlink, RemoveTemp
<1>7. Checked'
  BY <1>1, <1>2 DEF IInv, TypeOK, OneActs, Moves, Checked, Owned, Holding, At,
     CompleteUnlink, RemoveTemp
<1>8. Spent'
  BY <1>1 DEF IInv, TypeOK, OneActs, Moves, Spent, Holding, At, CompleteUnlink, RemoveTemp
<1>9. Linked'
  BY <1>1 DEF IInv, TypeOK, OneActs, Moves, Linked, At, CompleteUnlink
<1>10. OneDevice'
  BY <1>1 DEF IInv, OneActs, Moves, OneDevice, CompleteUnlink
<1>11. Replacing'
  BY DEF IInv, TypeOK, Replacing, ReplacedOrWithdrawn, CompleteUnlink, RemoveTemp
<1>12. QED
  BY <1>3, <1>4, <1>5, <1>6, <1>7, <1>8, <1>9, <1>10, <1>11 DEF IInv

LEMMA CompleteStatInv ==
    ASSUME IInv, NEW c \in Calls, CompleteStat(c)
    PROVE  IInv'
<1>1. call[c].id \in Uploads
  BY DEF IInv, TypeOK, Call, Drawn, At, CompleteStat
<1>2. /\ call[c].pc = "stat"
      /\ UNCHANGED <<sessions, upload, temp, dest, cleaner, expired, stale, completed, withdrawn,
                     emptied, interrupted, crashes>>
  BY DEF CompleteStat, At, files, ages, history
<1>3. \/ OneActs(c) /\ Returns(c) /\ Unlock(c)
      \/ OneActs(c) /\ Moves(c, "finish") /\ holder' = holder
  <2>1. \/ Answer(c) /\ Unlock(c)
        \/ GoTo(c, "finish") /\ holder' = holder
    BY DEF CompleteStat
  <2>2. QED
    BY <2>1, AnswerActs, GoToActs DEF IInv, Pc
<1>4. CASE OneActs(c) /\ Returns(c) /\ Unlock(c)
  <2>1. TypeOK'
    BY <1>2, <1>4 DEF IInv, TypeOK, OneActs, Unlock
  <2>2. Linked'
    BY <1>2, <1>4 DEF IInv, TypeOK, OneActs, Returns, Linked, At
  <2>3. OneDevice'
    BY <1>2, <1>4 DEF IInv, OneActs, Returns, OneDevice
  <2>4. QED
    BY <1>1, <1>2, <1>4, <2>1, <2>2, <2>3, ReturnKeeps DEF QuietButCalls, Holding
<1>5. CASE OneActs(c) /\ Moves(c, "finish") /\ holder' = holder
  <2>1. TypeOK'
    BY <1>2, <1>5 DEF IInv, TypeOK, OneActs
  <2>2. Linked'
    BY <1>2, <1>5 DEF IInv, TypeOK, OneActs, Moves, Linked, At
  <2>3. OneDevice'
    BY <1>2, <1>5 DEF IInv, OneActs, Moves, OneDevice
  <2>4. Checked'
    BY <1>2, <1>5 DEF IInv, TypeOK, OneActs, Moves, Checked, At
  <2>5. QED
    BY <1>1, <1>2, <1>5, <2>1, <2>2, <2>3, <2>4, AdvanceKeeps DEF QuietButCalls, Holding
<1>6. QED
  BY <1>3, <1>4, <1>5

LEMMA CompleteFinishInv ==
    ASSUME IInv, NEW c \in Calls, CompleteFinish(c)
    PROVE  IInv'
<1>1. OneActs(c) /\ Returns(c)
  BY AnswerActs DEF IInv, CompleteFinish
<1>2. call[c].id \in Uploads
  BY DEF IInv, TypeOK, Call, Drawn, At, CompleteFinish
<1>3. TypeOK'
  BY <1>1, <1>2 DEF IInv, TypeOK, OneActs, CompleteFinish, files, ages, Unlock
<1>4. Owned'
  BY <1>1 DEF IInv, TypeOK, OneActs, Returns, Owned, Holding, At, CompleteFinish, Unlock
<1>5. Drawn'
  BY <1>1, Markers DEF IInv, TypeOK, OneActs, Returns, Drawn, At, CompleteFinish, files
<1>6. Counted'
  BY DEF IInv, TypeOK, Counted, CompleteFinish, files
<1>7. Checked'
  BY <1>1 DEF IInv, TypeOK, OneActs, Returns, Checked, At, CompleteFinish, files
<1>8. Spent'
  BY <1>1 DEF IInv, TypeOK, OneActs, Returns, Spent, Owned, Checked, Holding, At,
     CompleteFinish, files
<1>9. Linked'
  BY <1>1 DEF IInv, TypeOK, OneActs, Returns, Linked, At, CompleteFinish, files
<1>10. OneDevice'
  BY <1>1 DEF IInv, OneActs, Returns, OneDevice, CompleteFinish, files
<1>11. Replacing'
  BY DEF IInv, TypeOK, Replacing, ReplacedOrWithdrawn, CompleteFinish, files
<1>12. QED
  BY <1>3, <1>4, <1>5, <1>6, <1>7, <1>8, <1>9, <1>10, <1>11 DEF IInv

LEMMA AbortPathInv ==
    ASSUME IInv, NEW c \in Calls, AbortPath(c)
    PROVE  IInv'
<1>1. OneActs(c) /\ Moves(c, "abortRemove")
  BY GoToActs DEF IInv, Pc, AbortPath
<1>2. TypeOK'
  BY <1>1 DEF IInv, TypeOK, OneActs, AbortPath, files, ages, history
<1>3. Owned'
  BY <1>1 DEF IInv, TypeOK, OneActs, Moves, Owned, Holding, AbortPath
<1>4. Drawn'
  BY <1>1 DEF IInv, TypeOK, OneActs, Moves, Drawn, At, AbortPath, files, history
<1>5. Counted'
  BY DEF IInv, TypeOK, Counted, AbortPath, files
<1>6. Checked'
  BY <1>1 DEF IInv, TypeOK, OneActs, Moves, Checked, At, AbortPath, files, history
<1>7. Spent'
  BY <1>1 DEF IInv, TypeOK, OneActs, Moves, Spent, Holding, AbortPath, files, history
<1>8. Linked'
  BY <1>1 DEF IInv, TypeOK, OneActs, Moves, Linked, At, AbortPath, files
<1>9. OneDevice'
  BY <1>1 DEF IInv, OneActs, Moves, OneDevice, AbortPath, files
<1>10. Replacing'
  BY DEF IInv, TypeOK, Replacing, ReplacedOrWithdrawn, AbortPath, files, history
<1>11. QED
  BY <1>2, <1>3, <1>4, <1>5, <1>6, <1>7, <1>8, <1>9, <1>10 DEF IInv

LEMMA AbortRemoveInv ==
    ASSUME IInv, NEW c \in Calls, AbortRemove(c)
    PROVE  IInv'
<1>1. OneActs(c) /\ Moves(c, "abortForget")
  BY GoToActs DEF IInv, Pc, AbortRemove
<1>2. call[c].id \in Uploads
  BY DEF IInv, TypeOK, Call, Drawn, At, AbortRemove
<1>3. TypeOK'
  BY <1>1 DEF IInv, TypeOK, OneActs, AbortRemove, ages, RemoveTemp
<1>4. Owned'
  BY <1>1 DEF IInv, TypeOK, OneActs, Moves, Owned, Holding, AbortRemove
<1>5. Drawn'
  BY <1>1, <1>2, DrawnKeeps DEF IInv, TypeOK, AbortRemove, RemoveTemp, Moves
<1>6. Counted'
  BY DEF IInv, TypeOK, Counted, AbortRemove, RemoveTemp
<1>7. Checked'
  BY <1>1, <1>2 DEF IInv, TypeOK, OneActs, Moves, Checked, At, AbortRemove, RemoveTemp
<1>8. Spent'
  BY <1>1 DEF IInv, TypeOK, OneActs, Moves, Spent, Holding, AbortRemove, RemoveTemp
<1>9. Linked'
  BY <1>1 DEF IInv, TypeOK, OneActs, Moves, Linked, At, AbortRemove
<1>10. OneDevice'
  BY <1>1 DEF IInv, OneActs, Moves, OneDevice, AbortRemove
<1>11. Replacing'
  BY <1>2 DEF IInv, TypeOK, Replacing, ReplacedOrWithdrawn, AbortRemove, RemoveTemp
<1>12. QED
  BY <1>3, <1>4, <1>5, <1>6, <1>7, <1>8, <1>9, <1>10, <1>11 DEF IInv

LEMMA AbortForgetInv ==
    ASSUME IInv, NEW c \in Calls, AbortForget(c)
    PROVE  IInv'
<1>1. OneActs(c) /\ Returns(c)
  BY AnswerActs DEF IInv, AbortForget
<1>2. TypeOK'
  BY <1>1 DEF IInv, TypeOK, OneActs, AbortForget, files, ages, history
<1>3. Owned'
  BY <1>1 DEF IInv, TypeOK, OneActs, Returns, Owned, Holding, AbortForget
<1>4. Drawn'
  BY <1>1, Markers DEF IInv, TypeOK, OneActs, Returns, Drawn, At, AbortForget, files,
     history
<1>5. Counted'
  BY DEF IInv, TypeOK, Counted, AbortForget, files
<1>6. Checked'
  BY <1>1 DEF IInv, TypeOK, OneActs, Returns, Checked, At, AbortForget, files, history
<1>7. Spent'
  BY <1>1 DEF IInv, TypeOK, OneActs, Returns, Spent, Holding, AbortForget, files, history
<1>8. Linked'
  BY <1>1 DEF IInv, TypeOK, OneActs, Returns, Linked, At, AbortForget, files
<1>9. OneDevice'
  BY <1>1 DEF IInv, OneActs, Returns, OneDevice, AbortForget, files
<1>10. Replacing'
  BY DEF IInv, TypeOK, Replacing, ReplacedOrWithdrawn, AbortForget, files, history
<1>11. QED
  BY <1>2, <1>3, <1>4, <1>5, <1>6, <1>7, <1>8, <1>9, <1>10 DEF IInv

LEMMA LookupInv ==
    ASSUME IInv, NEW c \in Calls, NEW u \in Uploads,
           NEW pc \in {"writeLock", "completeLock", "abortLock"}, Lookup(c, u, pc)
    PROVE  IInv'
<1>1. OneActs(c) /\ call'[c].pc = pc /\ call'[c].id = u
  BY BeginActs DEF IInv, Lookup, Pc
<1>2. /\ u \in sessions /\ call[c].pc = "idle"
      /\ UNCHANGED <<sessions, upload, temp, dest, holder, cleaner, expired, stale, completed,
                     withdrawn, emptied, interrupted, crashes>>
  BY DEF Lookup, At, files, ages, history
<1>3. TypeOK'
  BY <1>1, <1>2 DEF IInv, TypeOK, OneActs
<1>4. Owned'
  BY <1>1, <1>2 DEF IInv, Owned, OneActs, Holding
<1>5. Drawn'
  BY <1>1, <1>2, Markers DEF IInv, Drawn, OneActs, At
<1>6. Counted'
  BY <1>2 DEF IInv, Counted
<1>7. Checked'
  BY <1>1, <1>2 DEF IInv, Checked, OneActs, At
<1>8. Spent'
  BY <1>1, <1>2 DEF IInv, Spent, OneActs, Holding
<1>9. Replacing'
  BY <1>2 DEF IInv, Replacing, ReplacedOrWithdrawn
<1>10. Linked'
  BY <1>1, <1>2 DEF IInv, Linked, OneActs, At
<1>11. OneDevice'
  BY <1>1, <1>2 DEF IInv, OneDevice, OneActs
<1>12. QED
  BY <1>3, <1>4, <1>5, <1>6, <1>7, <1>8, <1>9, <1>10, <1>11 DEF IInv

LEMMA CleanupLockInv ==
    ASSUME IInv, CleanupLock
    PROVE  IInv'
<1>1. TypeOK'
  BY DEF IInv, TypeOK, CleanupLock, files, ages, history, Cleaner
<1>2. Owned'
  BY DEF IInv, TypeOK, Owned, CleanupLock
<1>3. Drawn'
  BY DEF IInv, TypeOK, Drawn, At, CleanupLock, files, history
<1>4. Counted'
  BY DEF IInv, TypeOK, Counted, CleanupLock, files
<1>5. Checked'
  BY DEF IInv, TypeOK, Checked, At, CleanupLock, files, history
<1>6. Spent'
  BY DEF IInv, TypeOK, Spent, CleanupLock, files, history
<1>7. Linked'
  BY DEF IInv, TypeOK, Linked, At, CleanupLock, files
<1>8. OneDevice'
  BY DEF IInv, OneDevice, CleanupLock, files
<1>9. Replacing'
  BY DEF IInv, TypeOK, Replacing, ReplacedOrWithdrawn, CleanupLock, files, history
<1>10. QED
  BY <1>1, <1>2, <1>3, <1>4, <1>5, <1>6, <1>7, <1>8, <1>9 DEF IInv

LEMMA CleanupSessionsInv ==
    ASSUME IInv, CleanupSessions
    PROVE  IInv'
<1>1. TypeOK'
  BY DEF IInv, TypeOK, CleanupSessions, ages, Cleaner
<1>2. Owned'
  BY DEF IInv, TypeOK, Owned, CleanupSessions
<1>3. Drawn'
  BY DEF IInv, TypeOK, Drawn, At, CleanupSessions
<1>4. Counted'
  BY DEF IInv, TypeOK, Counted, CleanupSessions
<1>5. Checked'
  BY DEF IInv, TypeOK, Call, Checked, Drawn, At, CleanupSessions
<1>6. Spent'
  BY DEF IInv, TypeOK, Spent, CleanupSessions
<1>7. Linked'
  BY DEF IInv, TypeOK, Linked, At, CleanupSessions
<1>8. OneDevice'
  BY DEF IInv, OneDevice, CleanupSessions
<1>9. Replacing'
  BY DEF IInv, TypeOK, Replacing, ReplacedOrWithdrawn, CleanupSessions
<1>10. QED
  BY <1>1, <1>2, <1>3, <1>4, <1>5, <1>6, <1>7, <1>8, <1>9 DEF IInv

LEMMA CleanupOrphanInv ==
    ASSUME IInv, NEW u \in Uploads, CleanupOrphan(u)
    PROVE  IInv'
<1>1. TypeOK'
  BY DEF IInv, TypeOK, CleanupOrphan, ages, Cleaner
<1>2. Owned'
  BY DEF IInv, TypeOK, Owned, CleanupOrphan
<1>3. Drawn'
  BY DEF IInv, TypeOK, Drawn, At, CleanupOrphan
<1>4. Counted'
  BY DEF IInv, TypeOK, Counted, CleanupOrphan
<1>5. Checked'
  BY DEF IInv, TypeOK, Checked, At, CleanupOrphan
<1>6. Spent'
  BY DEF IInv, TypeOK, Spent, CleanupOrphan
<1>7. Linked'
  BY DEF IInv, TypeOK, Linked, At, CleanupOrphan
<1>8. OneDevice'
  BY DEF IInv, OneDevice, CleanupOrphan
<1>9. Replacing'
  BY DEF IInv, TypeOK, Replacing, ReplacedOrWithdrawn, CleanupOrphan
<1>10. QED
  BY <1>1, <1>2, <1>3, <1>4, <1>5, <1>6, <1>7, <1>8, <1>9 DEF IInv

LEMMA CleanupEndInv ==
    ASSUME IInv, CleanupEnd
    PROVE  IInv'
<1>1. TypeOK'
  BY DEF IInv, TypeOK, CleanupEnd, files, ages, history, Cleaner
<1>2. Owned'
  BY DEF IInv, TypeOK, Owned, CleanupEnd
<1>3. Drawn'
  BY DEF IInv, TypeOK, Drawn, At, CleanupEnd, files, history
<1>4. Counted'
  BY DEF IInv, TypeOK, Counted, CleanupEnd, files
<1>5. Checked'
  BY DEF IInv, TypeOK, Checked, At, CleanupEnd, files, history
<1>6. Spent'
  BY DEF IInv, TypeOK, Spent, CleanupEnd, files, history
<1>7. Linked'
  BY DEF IInv, TypeOK, Linked, At, CleanupEnd, files
<1>8. OneDevice'
  BY DEF IInv, OneDevice, CleanupEnd, files
<1>9. Replacing'
  BY DEF IInv, TypeOK, Replacing, ReplacedOrWithdrawn, CleanupEnd, files, history
<1>10. QED
  BY <1>1, <1>2, <1>3, <1>4, <1>5, <1>6, <1>7, <1>8, <1>9 DEF IInv

LEMMA ExpireInv ==
    ASSUME IInv, NEW u \in Uploads, Expire(u)
    PROVE  IInv'
<1>1. TypeOK'
  BY DEF IInv, TypeOK, Expire, files, history
<1>2. Owned'
  BY DEF IInv, TypeOK, Owned, Expire
<1>3. Drawn'
  BY DEF IInv, TypeOK, Drawn, At, Expire, files, history
<1>4. Counted'
  BY DEF IInv, TypeOK, Counted, Expire, files
<1>5. Checked'
  BY DEF IInv, TypeOK, Checked, At, Expire, files, history
<1>6. Spent'
  BY DEF IInv, TypeOK, Spent, Expire, files, history
<1>7. Linked'
  BY DEF IInv, TypeOK, Linked, At, Expire, files
<1>8. OneDevice'
  BY DEF IInv, OneDevice, Expire, files
<1>9. Replacing'
  BY DEF IInv, TypeOK, Replacing, ReplacedOrWithdrawn, Expire, files, history
<1>10. QED
  BY <1>1, <1>2, <1>3, <1>4, <1>5, <1>6, <1>7, <1>8, <1>9 DEF IInv

LEMMA CrashInv ==
    ASSUME IInv, Crash
    PROVE  IInv'
<1>1. TypeOK'
  BY IdleTyped, CountsAssumption DEF IInv, TypeOK, Crash, files, ages, Cleaner, Call
<1>2. Owned'
  BY DEF IInv, TypeOK, Owned, Holding, Crash, Idle
<1>3. Drawn'
  BY Markers, Markers DEF IInv, TypeOK, Drawn, At, Crash, files, Idle
<1>4. Counted'
  BY DEF IInv, TypeOK, Counted, Crash, files
<1>5. Checked'
  BY DEF IInv, TypeOK, Checked, At, Crash, Idle
<1>6. Spent'
  BY DEF IInv, TypeOK, Spent, Holding, Crash, files, Idle
<1>7. Linked'
  BY DEF IInv, TypeOK, Linked, Crash, Idle
<1>8. OneDevice'
  BY DEF IInv, OneDevice, Crash, files, Idle
<1>9. Replacing'
  BY DEF IInv, TypeOK, Replacing, ReplacedOrWithdrawn, Crash, files
<1>10. QED
  BY <1>1, <1>2, <1>3, <1>4, <1>5, <1>6, <1>7, <1>8, <1>9 DEF IInv

-----------------------------------------------------------------------------
(* The invariant                                                           *)

LEMMA InitInv == Init => IInv
<1> SUFFICES ASSUME Init PROVE IInv
  OBVIOUS
<1>1. NotDrawn \in Session /\ Idle \in Call
  BY IdleTyped DEF NotDrawn, Session
<1>2. OldFile \in File
  BY DEF OldFile, File
<1>3. TypeOK
  BY <1>1, <1>2, CountsAssumption DEF Init, TypeOK, Cleaner
<1>4. Owned /\ Checked /\ Linked /\ Spent
  BY DEF Init, Owned, Checked, Linked, Spent, Idle, Holding, At
<1>5. Drawn
  BY Markers DEF Init, Drawn, Idle, At
<1>6. Counted
  BY FS_EmptySet DEF Init, Counted, NotDrawn
<1>7. Replacing
  BY DEF Init, Replacing, ReplacedOrWithdrawn
<1>8. OneDevice
  BY DEF Init, OneDevice, Idle
<1>9. QED
  BY <1>3, <1>4, <1>5, <1>6, <1>7, <1>8 DEF IInv

LEMMA StutterInv == ASSUME IInv, UNCHANGED vars PROVE IInv'
  BY DEF IInv, vars, TypeOK, Owned, Drawn, Counted, Checked, Spent, Replacing,
     ReplacedOrWithdrawn, Linked, OneDevice, At

LEMMA NextInv == ASSUME IInv, Next PROVE IInv'
<1>1. ASSUME NEW c \in Calls, NEW u \in Uploads, Begin(c, u) PROVE IInv'
  BY <1>1, InitTempInv, LookupInv DEF Begin, WriteLookup, CompleteLookup, AbortLookup
<1>2. ASSUME NEW c \in Calls, Step(c) PROVE IInv'
  BY <1>2, InitRegisterInv, WriteOpenInv, WriteBodyInv, CompleteCheckInv, CompleteDropInv,
     CompleteForgetInv, CompleteResolveInv, CompleteMoveInv, CompleteCopyInv,
     CompleteUnlinkInv, CompleteStatInv, CompleteFinishInv, AbortPathInv, AbortRemoveInv,
     AbortForgetInv DEF Step
<1>3. CASE Cleanup
  BY <1>3, CleanupLockInv, CleanupSessionsInv, CleanupOrphanInv, CleanupEndInv DEF Cleanup
<1>4. CASE \E u \in Uploads : Expire(u)
  BY <1>4, ExpireInv
<1>5. CASE Crash
  BY <1>5, CrashInv
<1>6. QED
  BY <1>1, <1>2, <1>3, <1>4, <1>5 DEF Next

LEMMA Invariance == Spec => []IInv
<1>1. IInv /\ [Next]_vars => IInv'
  BY NextInv, StutterInv
<1>2. QED
  BY InitInv, <1>1, PTL DEF Spec

-----------------------------------------------------------------------------
(* The theorems                                                            *)

\* The variables keep their types: no request writes a chunk outside its file, resumes
\* a copy past its last chunk, or writes through a name that is gone.
THEOREM TypeCorrect == Spec => []TypeOK
<1>1. IInv => TypeOK
  BY DEF IInv
<1>2. QED
  BY Invariance, <1>1, PTL

\* CompleteUpload answers an upload as a file at most once, however many calls hold the
\* pointer to its session, and whatever is aborted, expired or killed meanwhile.
THEOREM AnsweredOnce == Spec => []OnceCompleted
<1>1. IInv => OnceCompleted
  BY DEF IInv, TypeOK, Spent, OnceCompleted
<1>2. QED
  BY Invariance, <1>1, PTL

\* conflict_policy=overwrite loses the bytes it replaces and its own together only when
\* an abort, an expiry or a crash gave the upload up.
THEOREM ReplacedIsKept == Spec => []ReplacedOrWithdrawn
<1>1. IInv => ReplacedOrWithdrawn
  BY DEF IInv, Replacing
<1>2. QED
  BY Invariance, <1>1, PTL

\* When the temp and storage directories share a device, every file under a name is
\* whole, for any number of uploads of that name: the limit to one upload of
\* DeliveredWhole's run comes from the copy across devices alone.
THEOREM WholeOnOneDevice == ASSUME SameDevice PROVE Spec => []DeliveredWhole
<1>1. IInv => DeliveredWhole
  BY DEF IInv, OneDevice, DeliveredWhole
<1>2. QED
  BY Invariance, <1>1, PTL

-----------------------------------------------------------------------------
(* One upload of the name: what its CompleteUpload resolves, copies and     *)
(* stats is its own.  With two, the file that one delivered is what the     *)
(* other replaces, and neither SessionHasTemp nor, across devices,          *)
(* DeliveredWhole need hold.                                                *)

OneUpload == \A u, v \in Uploads : u = v

\* The session of an upload comes after its temp file, and nobody knows the id before.
Registering ==
    /\ \A c \in Calls : At(c, "register") =>
        LET u == call[c].id
        IN  /\ temp[u] # NoFile
            /\ u \notin sessions \cup expired \cup stale
            /\ \A d \in Calls : call[d].id = u => d = c
    /\ \A u \in Uploads : upload[u] = NotDrawn => u \notin expired \cup stale

\* How far call c is with its file.
Delivers(c) ==
    LET n == call[c].target
    IN  /\ At(c, "copy") =>
            /\ call[c].linked /\ call[c].source = Chunks
            /\ \A k \in Chunks : k < call[c].chunk => dest[n][k] = call[c].id
        /\ call[c].pc \in {"unlink", "stat", "finish"} => dest[n] # NoFile

Delivering == \A c \in Calls : Delivers(c)

Kept == Registering /\ Delivering /\ SessionHasTemp /\ DeliveredWhole

\* Where a session may be without its temp file, its call about to remove it.
Between == {"forget", "stat", "finish", "abortForget"}
Whole(f) == f \in {NoFile, OldFile} \cup {[k \in Chunks |-> u] : u \in Uploads}

\* A step of call c that leaves no session without its file, and no file in pieces.
Tidy(c) ==
    /\ \A d \in Calls \ {c} :
        \/ call'[d] = call[d]
        \/ call[c].pc \in Holding /\ call'[d].pc = call[d].pc /\ call'[d].id = call[d].id
    /\ call[c].pc # "register" /\ call'[c].pc # "register"
    /\ call'[c].id \in {NoUpload, call[c].id} \cup sessions
    /\ expired' = expired /\ stale' \subseteq stale /\ sessions' \subseteq sessions
    /\ interrupted' = interrupted
    /\ \A u \in Uploads : upload'[u] = NotDrawn => upload[u] = NotDrawn
    /\ \A u \in Uploads : temp[u] # NoFile /\ temp'[u] = NoFile =>
        u = call[c].id /\ call'[c].id = u /\ call'[c].pc \in Between
    /\ call[c].pc \in Between =>
        \/ call'[c].pc \in Between /\ call'[c].id = call[c].id
        \/ call[c].id \notin sessions'
    /\ Delivers(c)'
    /\ call[c].pc \in Holding \/ dest' = dest
    /\ \A n \in Names :
        \/ At(c, "copy")' /\ call'[c].target = n
        \/ Whole(dest'[n])
        \/ dest'[n] = dest[n] /\ ~(At(c, "copy") /\ call[c].target = n)

\* The mutex lets one call at a time work on the upload.
LEMMA OneAtWork ==
    ASSUME OneUpload, IInv, NEW c \in Calls, NEW d \in Calls,
           call[c].pc \in Holding, call[d].pc \in Holding
    PROVE  c = d
<1>1. call[c].id \in Uploads /\ call[d].id \in Uploads
  BY DEF IInv, TypeOK, Call, Drawn, At, Holding
<1>2. call[c].id = call[d].id BY <1>1 DEF OneUpload
<1>3. holder[call[c].id] = c /\ holder[call[d].id] = d BY DEF IInv, Owned
<1> QED BY <1>2, <1>3

LEMMA TidyKeeps ==
    ASSUME OneUpload, IInv, Kept, NEW c \in Calls, Tidy(c)
    PROVE  Kept'
<1>1. Registering'
  <2>1. ASSUME NEW d \in Calls, At(d, "register")'
        PROVE  /\ temp'[call'[d].id] # NoFile
               /\ call'[d].id \notin sessions' \cup expired' \cup stale'
               /\ \A e \in Calls : call'[e].id = call'[d].id => e = d
    <3>1. d # c /\ call'[d].id = call[d].id /\ At(d, "register")
      BY <2>1 DEF Tidy, At
    <3>2. call[d].id \in Uploads BY <3>1 DEF IInv, TypeOK, Call, Drawn, At
    <3>3. call[d].id \notin sessions \cup expired \cup stale /\ temp[call[d].id] # NoFile
      BY <3>1 DEF Kept, Registering
    <3>4. \A e \in Calls : call[e].id = call[d].id => e = d BY <3>1 DEF Kept, Registering
    <3>5. \A e \in Calls : call'[e].id = call[d].id => e = d
      <4>1. call'[c].id # call[d].id BY <3>1, <3>2, <3>3, <3>4, Markers DEF Tidy
      <4> QED BY <3>4, <4>1 DEF Tidy
    <3>6. temp'[call[d].id] # NoFile BY <3>1, <3>2, <3>3, <3>4 DEF Tidy
    <3> QED BY <3>1, <3>3, <3>5, <3>6 DEF Tidy
  <2>2. \A u \in Uploads : upload'[u] = NotDrawn => u \notin expired' \cup stale'
    BY DEF Tidy, Kept, Registering
  <2> QED BY <2>1, <2>2 DEF Registering
<1>2. Delivering'
  <2>1. ASSUME NEW d \in Calls, d # c PROVE Delivers(d)'
    <3>1. call'[d].pc = call[d].pc BY <2>1 DEF Tidy
    <3>2. CASE call[d].pc \notin Holding
      BY <3>1, <3>2 DEF Delivers, At, Holding
    <3>3. CASE call[d].pc \in Holding
      <4>1. call[c].pc \notin Holding BY <2>1, <3>3, OneAtWork
      <4>2. call'[d] = call[d] /\ dest' = dest BY <2>1, <4>1 DEF Tidy
      <4> QED BY <4>2 DEF Delivers, At, Kept, Delivering
    <3> QED BY <3>2, <3>3
  <2>2. Delivers(c)' BY DEF Tidy
  <2> QED BY <2>1, <2>2 DEF Delivering
<1>3. SessionHasTemp'
  <2> SUFFICES ASSUME NEW u \in sessions', temp'[u] = NoFile
               PROVE  \E d \in Calls : call'[d].id = u /\ call'[d].pc \in Between
    BY DEF SessionHasTemp, Between
  <2>1. u \in sessions /\ u \in Uploads BY DEF Tidy, IInv, TypeOK
  <2>2. CASE temp[u] # NoFile BY <2>1, <2>2 DEF Tidy
  <2>3. CASE temp[u] = NoFile
    <3>1. PICK d \in Calls : call[d].id = u /\ call[d].pc \in Between
      BY <2>1, <2>3 DEF Kept, SessionHasTemp, Between
    <3>2. CASE d = c BY <3>1, <3>2 DEF Tidy
    <3>3. CASE d # c
      <4>1. call'[d].id = u /\ call'[d].pc \in Between BY <3>1, <3>3 DEF Tidy
      <4> QED BY <4>1
    <3> QED BY <3>2, <3>3
  <2> QED BY <2>2, <2>3
<1>4. DeliveredWhole'
  <2> SUFFICES ASSUME NEW n \in Names
               PROVE  \/ Whole(dest'[n])
                      \/ \E d \in Calls : At(d, "copy")' /\ call'[d].target = n
                      \/ n \in interrupted'
    BY DEF DeliveredWhole, Whole, At
  <2>1. CASE dest'[n] = dest[n] /\ ~(At(c, "copy") /\ call[c].target = n)
    <3>1. CASE \E d \in Calls : At(d, "copy") /\ call[d].target = n
      <4>1. PICK d \in Calls : At(d, "copy") /\ call[d].target = n BY <3>1
      <4>2. d # c /\ call[d].pc \in Holding BY <2>1, <4>1 DEF At, Holding
      <4>3. call[c].pc \notin Holding BY <4>2, OneAtWork
      <4>4. call'[d] = call[d] BY <4>2, <4>3 DEF Tidy
      <4> QED BY <4>1, <4>4 DEF At
    <3>2. CASE Whole(dest[n]) \/ n \in interrupted BY <2>1, <3>2 DEF Tidy
    <3> QED BY <3>1, <3>2 DEF Kept, DeliveredWhole, Whole
  <2> QED BY <2>1 DEF Tidy
<1> QED BY <1>1, <1>2, <1>3, <1>4 DEF Kept

\* A step that moves one call, away from a file, a session or a copy.
LEMMA QuietTidy ==
    ASSUME IInv, NEW c \in Calls, NEW k,
           call' = [call EXCEPT ![c] = k],
           UNCHANGED <<sessions, upload, temp, dest, expired, stale, interrupted>>,
           call[c].pc \notin Between \cup {"register", "copy"},
           k.pc \notin {"register", "copy", "unlink", "stat", "finish"},
           k.id \in {NoUpload, call[c].id} \cup sessions
    PROVE  Tidy(c)
<1>1. call'[c] = k /\ \A d \in Calls \ {c} : call'[d] = call[d] BY DEF IInv, TypeOK
<1>2. Delivers(c)' BY <1>1 DEF Delivers, At
<1> QED BY <1>1, <1>2 DEF Tidy, At, Between

LEMMA LookupTidy ==
    ASSUME IInv, NEW c \in Calls, NEW u \in Uploads, NEW pc \in {"writeLock", "completeLock", "abortLock"},
           Lookup(c, u, pc)
    PROVE  Tidy(c)
<1>1. PICK k : k = [call[c] EXCEPT !.pc = pc, !.id = u] OBVIOUS
<1>2. k.pc = pc /\ k.id = u BY <1>1 DEF IInv, TypeOK, Call
<1>3. /\ call' = [call EXCEPT ![c] = k]
      /\ UNCHANGED <<sessions, upload, temp, dest, expired, stale, interrupted>>
      /\ At(c, "idle") /\ u \in sessions
  BY <1>1 DEF Lookup, files, ages, history
<1> QED BY <1>2, <1>3, QuietTidy DEF At, Between

LEMMA LocksTidy ==
    ASSUME IInv, NEW c \in Calls, WriteOpen(c) \/ CompleteCheck(c) \/ AbortPath(c)
    PROVE  Tidy(c)
<1>1. /\ UNCHANGED <<sessions, upload, temp, dest, expired, stale, interrupted>>
      /\ call[c].pc \in {"writeLock", "completeLock", "abortLock"}
  BY DEF WriteOpen, CompleteCheck, AbortPath, files, ages, history, At
<1>2. PICK k : /\ call' = [call EXCEPT ![c] = k]
               /\ k.pc \in {"idle", "copyBody", "resolve", "drop", "abortRemove"}
               /\ k.id \in {NoUpload, call[c].id}
  <2>1. ASSUME Answer(c)
        PROVE  call' = [call EXCEPT ![c] = Idle] /\ Idle.pc = "idle" /\ Idle.id = NoUpload
    BY <2>1 DEF Answer, Idle
  <2>2. ASSUME NEW ch \in Chunks, call' = [call EXCEPT ![c] = [@ EXCEPT !.pc = "copyBody", !.chunk = ch]]
        PROVE  /\ call' = [call EXCEPT ![c] = [call[c] EXCEPT !.pc = "copyBody", !.chunk = ch]]
               /\ [call[c] EXCEPT !.pc = "copyBody", !.chunk = ch].pc = "copyBody"
               /\ [call[c] EXCEPT !.pc = "copyBody", !.chunk = ch].id = call[c].id
    BY <2>2 DEF IInv, TypeOK, Call
  <2>3. ASSUME NEW pc \in {"resolve", "drop", "abortRemove"}, GoTo(c, pc)
        PROVE  /\ call' = [call EXCEPT ![c] = [call[c] EXCEPT !.pc = pc]]
               /\ [call[c] EXCEPT !.pc = pc].pc = pc /\ [call[c] EXCEPT !.pc = pc].id = call[c].id
    BY <2>3 DEF IInv, TypeOK, Call, GoTo
  <2> QED BY <2>1, <2>2, <2>3 DEF WriteOpen, CompleteCheck, AbortPath
<1> QED BY <1>1, <1>2, QuietTidy DEF Between

LEMMA WriteBodyTidy ==
    ASSUME IInv, NEW c \in Calls, WriteBody(c)
    PROVE  Tidy(c)
<1>1. /\ UNCHANGED <<sessions, dest, expired, interrupted>> /\ stale' \subseteq stale
      /\ call' = [call EXCEPT ![c] = Idle] /\ At(c, "copyBody")
  BY DEF WriteBody, history, Answer
<1>2. call[c].id \in Uploads /\ upload[call[c].id] # NotDrawn
  BY <1>1, Markers DEF IInv, TypeOK, Call, Drawn, At
<1>3. call'[c] = Idle /\ \A d \in Calls \ {c} : call'[d] = call[d] BY <1>1 DEF IInv, TypeOK
<1>4. \A u \in Uploads : upload'[u] = NotDrawn => upload[u] = NotDrawn
  <2>1. Receive(upload[call[c].id], call[c].chunk) # NotDrawn
    <3>1. upload[call[c].id] \in Session BY <1>2 DEF IInv, TypeOK
    <3>2. CASE call[c].chunk \in upload[call[c].id].received BY <1>2, <3>2 DEF Receive
    <3>3. CASE call[c].chunk \notin upload[call[c].id].received
      <4>1. Receive(upload[call[c].id], call[c].chunk).count = upload[call[c].id].count + 1
        BY <3>1, <3>3 DEF Receive, Session
      <4>2. upload[call[c].id].count + 1 # 0 BY <3>1 DEF Session
      <4> QED BY <4>1, <4>2 DEF NotDrawn
    <3> QED BY <3>2, <3>3
  <2>2. \/ upload' = upload
        \/ upload' = [upload EXCEPT ![call[c].id] = Receive(@, call[c].chunk)]
    BY DEF WriteBody
  <2> QED BY <2>1, <2>2 DEF IInv, TypeOK
<1>5. \A u \in Uploads : temp[u] # NoFile => temp'[u] # NoFile
  <2>1. \/ temp' = temp
        \/ temp[call[c].id] # NoFile /\ temp' = [temp EXCEPT ![call[c].id] = @ \cup {call[c].chunk}]
    BY DEF WriteBody
  <2>2. temp[call[c].id] # NoFile =>
           /\ temp[call[c].id] \cup {call[c].chunk} \in SUBSET Chunks
    BY <1>1, <1>2 DEF IInv, TypeOK, Checked
  <2> QED BY <1>2, <2>1, <2>2, MarkersAssumption DEF IInv, TypeOK
<1>6. Delivers(c)' BY <1>3 DEF Delivers, At, Idle
<1> QED BY <1>1, <1>3, <1>4, <1>5, <1>6 DEF Tidy, At, Idle, Between

LEMMA DropTidy ==
    ASSUME IInv, NEW c \in Calls, CompleteDrop(c) \/ AbortRemove(c)
    PROVE  Tidy(c)
<1>1. PICK pc \in {"forget", "abortForget"} :
        /\ GoTo(c, pc) /\ RemoveTemp(call[c].id)
        /\ UNCHANGED <<sessions, upload, dest, expired, stale, interrupted>>
        /\ call[c].pc \in {"drop", "abortRemove"}
  BY DEF CompleteDrop, AbortRemove, ages, history, At
<1>2. call'[c].pc = pc /\ call'[c].id = call[c].id /\ \A d \in Calls \ {c} : call'[d] = call[d]
  BY <1>1 DEF IInv, TypeOK, Call, GoTo
<1>3. \A u \in Uploads : u # call[c].id => temp'[u] = temp[u] BY <1>1 DEF RemoveTemp, IInv, TypeOK
<1>4. Delivers(c)' BY <1>1, <1>2 DEF Delivers, At
<1> QED BY <1>1, <1>2, <1>3, <1>4 DEF Tidy, At, Between

LEMMA ForgetTidy ==
    ASSUME IInv, NEW c \in Calls, CompleteForget(c) \/ CompleteFinish(c) \/ AbortForget(c)
    PROVE  Tidy(c)
<1>1. /\ call' = [call EXCEPT ![c] = Idle] /\ sessions' = sessions \ {call[c].id}
      /\ UNCHANGED <<upload, temp, dest, expired, stale, interrupted>>
      /\ call[c].pc \in {"forget", "finish", "abortForget"}
  BY DEF CompleteForget, CompleteFinish, AbortForget, files, ages, history, At, Answer
<1>2. call'[c] = Idle /\ \A d \in Calls \ {c} : call'[d] = call[d] BY <1>1 DEF IInv, TypeOK
<1>3. Delivers(c)' BY <1>2 DEF Delivers, At, Idle
<1> QED BY <1>1, <1>2, <1>3 DEF Tidy, At, Idle

\* overwrite removes the file under name 0 while no other call is at work on one.
LEMMA ResolveTidy ==
    ASSUME IInv, Kept, NEW c \in Calls, CompleteResolve(c)
    PROVE  Tidy(c)
<1>1. /\ UNCHANGED <<sessions, upload, temp, expired, stale, interrupted>>
      /\ call[c].pc = "resolve"
  BY DEF CompleteResolve, ages, At
<1>2. ASSUME NEW k, call' = [call EXCEPT ![c] = k], dest' = dest,
             k.pc \in {"idle", "drop", "move"}, k.id \in {NoUpload, call[c].id}
      PROVE  Tidy(c)
  BY <1>1, <1>2, QuietTidy DEF Between
<1>3. CASE Answer(c) /\ dest' = dest BY <1>2, <1>3 DEF Answer, Idle
<1>4. CASE GoTo(c, "drop") /\ dest' = dest
  <2>1. [call[c] EXCEPT !.pc = "drop"].pc = "drop" /\ [call[c] EXCEPT !.pc = "drop"].id = call[c].id
    BY DEF IInv, TypeOK, Call
  <2>2. call' = [call EXCEPT ![c] = [call[c] EXCEPT !.pc = "drop"]] BY <1>4 DEF GoTo
  <2> QED BY <1>2, <1>4, <2>1, <2>2
<1>5. ASSUME NEW n \in Names, call' = [call EXCEPT ![c] = [@ EXCEPT !.pc = "move", !.target = n]],
             dest' = dest
      PROVE  Tidy(c)
  <2>1. PICK k : k = [call[c] EXCEPT !.pc = "move", !.target = n] OBVIOUS
  <2>2. k.pc = "move" /\ k.id = call[c].id BY <2>1 DEF IInv, TypeOK, Call
  <2>3. call' = [call EXCEPT ![c] = k] BY <1>5, <2>1
  <2> QED BY <1>2, <1>5, <2>2, <2>3
<1>6. CASE /\ dest' = [dest EXCEPT ![0] = NoFile]
           /\ call' = [Detached(0) EXCEPT ![c] = [@ EXCEPT !.pc = "move", !.target = 0]]
  <2>1. OneActs(c) /\ Moves(c, "move") BY <1>6, OverwriteActs DEF IInv
  <2>2. Delivers(c)' BY <2>1 DEF Moves, Delivers, At
  <2>3. \A n \in Names : dest'[n] = dest[n] \/ Whole(dest'[n])
    BY <1>6 DEF IInv, TypeOK, Whole
  <2> QED BY <1>1, <2>1, <2>2, <2>3 DEF Tidy, OneActs, Moves, At, Holding, Between
<1>7. 0 \in Names BY CountsAssumption DEF Names
<1> QED BY <1>3, <1>4, <1>5, <1>6, <1>7 DEF CompleteResolve

\* A rename moves the whole file; across devices an empty one is made, to be filled.
LEMMA MoveTidy ==
    ASSUME IInv, Kept, NEW c \in Calls, CompleteMove(c)
    PROVE  Tidy(c)
<1> DEFINE u == call[c].id
           n == call[c].target
<1>1. /\ UNCHANGED <<sessions, upload, expired, stale, interrupted>>
      /\ call[c].pc = "move"
  BY DEF CompleteMove, ages, At
<1>2. u \in Uploads /\ n \in Names
  BY <1>1 DEF IInv, TypeOK, Call, Drawn, At
<1>3. ASSUME temp[u] # NoFile PROVE temp[u] = Chunks
  BY <1>1, <1>2, <1>3, CompleteIsWhole DEF IInv, Checked
<1>4. CASE Answer(c) /\ UNCHANGED files
  <2>1. Idle.pc = "idle" /\ Idle.id = NoUpload BY DEF Idle
  <2> QED BY <1>1, <1>4, <2>1, QuietTidy DEF Answer, files, Between
<1>5. CASE /\ temp[u] # NoFile /\ RemoveTemp(u) /\ GoTo(c, "stat")
           /\ dest' = [dest EXCEPT ![n] = Content(u, temp[u])]
  <2>1. /\ call'[c].pc = "stat" /\ call'[c].id = u /\ call'[c].target = n
        /\ \A d \in Calls \ {c} : call'[d] = call[d]
    BY <1>5 DEF IInv, TypeOK, Call, GoTo
  <2>2. Content(u, temp[u]) = [k \in Chunks |-> u] BY <1>3, <1>5 DEF Content
  <2>3. Content(u, temp[u]) # NoFile
    <3>1. Content(u, temp[u]) \in File BY <1>2, <2>2 DEF File
    <3> QED BY <3>1, MarkersAssumption
  <2>4. dest'[n] = Content(u, temp[u]) /\ \A m \in Names : m # n => dest'[m] = dest[m]
    BY <1>2, <1>5 DEF IInv, TypeOK
  <2>5. \A v \in Uploads : v # u => temp'[v] = temp[v] BY <1>5 DEF RemoveTemp, IInv, TypeOK
  <2>6. Delivers(c)' BY <2>1, <2>3, <2>4 DEF Delivers, At
  <2>7. Whole(dest'[n]) BY <1>2, <2>2, <2>4 DEF Whole
  <2> HIDE DEF u, n
  <2>8. u = call[c].id /\ n = call[c].target BY DEF u, n
  <2> QED BY <1>1, <2>1, <2>4, <2>5, <2>6, <2>7, <2>8 DEF Tidy, At, Between, Holding
<1>6. CASE /\ temp[u] # NoFile /\ temp' = temp
           /\ dest' = [dest EXCEPT ![n] = EmptyFile]
           /\ call' = [call EXCEPT ![c] = [@ EXCEPT !.pc = "copy", !.chunk = 1,
                                                    !.source = temp[u], !.linked = TRUE]]
  <2>1. /\ call'[c].pc = "copy" /\ call'[c].id = u /\ call'[c].target = n
        /\ call'[c].chunk = 1 /\ call'[c].source = Chunks /\ call'[c].linked
        /\ \A d \in Calls \ {c} : call'[d] = call[d]
    BY <1>3, <1>6 DEF IInv, TypeOK, Call
  <2>2. \A m \in Names : m # n => dest'[m] = dest[m] BY <1>6 DEF IInv, TypeOK
  <2>3. Delivers(c)' BY <2>1 DEF Delivers, At, Chunks
  <2> HIDE DEF u, n
  <2>4. u = call[c].id /\ n = call[c].target BY DEF u, n
  <2> QED BY <1>1, <1>6, <2>1, <2>2, <2>3, <2>4 DEF Tidy, At, Between, Holding
<1> QED BY <1>4, <1>5, <1>6 DEF CompleteMove

\* A chunk more of the file; all of them make a whole one, and none are left by a failure.
LEMMA CopyTidy ==
    ASSUME IInv, Kept, NEW c \in Calls, CompleteCopy(c)
    PROVE  Tidy(c)
<1> DEFINE u == call[c].id
           n == call[c].target
           k == call[c].chunk
<1>1. /\ UNCHANGED <<sessions, upload, temp, expired, stale, interrupted>>
      /\ call[c].pc = "copy"
  BY DEF CompleteCopy, ages, history, At
<1>2. u \in Uploads /\ n \in Names /\ k \in 0..TotalChunks + 1
  BY <1>1 DEF IInv, TypeOK, Call, Drawn, At
<1>3. /\ call[c].linked /\ call[c].source = Chunks
      /\ \A i \in Chunks : i < k => dest[n][i] = u
  BY <1>1 DEF Kept, Delivering, Delivers, At
<1>4. dest[n] \in File BY <1>1, <1>2, <1>3 DEF IInv, TypeOK, Linked, At
<1>5. CASE /\ MoreToCopy(k)
           /\ dest' = [dest EXCEPT ![n][k] = IF k \in call[c].source THEN u ELSE Hole]
           /\ call' = [call EXCEPT ![c].chunk = k + 1]
  <2>1. /\ call'[c].pc = "copy" /\ call'[c].id = u /\ call'[c].target = n
        /\ call'[c].chunk = k + 1 /\ call'[c].source = Chunks /\ call'[c].linked
        /\ \A d \in Calls \ {c} : call'[d] = call[d]
    BY <1>1, <1>3, <1>5 DEF IInv, TypeOK, Call
  <2>2. \A m \in Names : m # n => dest'[m] = dest[m] BY <1>5 DEF IInv, TypeOK
  <2>3. \A i \in Chunks : i < k + 1 => dest'[n][i] = u
    <3>1. dest'[n] = [dest[n] EXCEPT ![k] = IF k \in Chunks THEN u ELSE Hole]
      BY <1>2, <1>3, <1>5 DEF IInv, TypeOK
    <3>2. dest'[n] = [i \in Chunks |-> IF i = k THEN u ELSE dest[n][i]]
      BY <1>4, <3>1 DEF File
    <3>3. ASSUME NEW i \in Chunks, i < k + 1 PROVE i < k \/ i = k
      BY <1>2, <3>3 DEF Chunks
    <3> QED BY <1>3, <3>2, <3>3
  <2>4. Delivers(c)' BY <2>1, <2>3 DEF Delivers, At
  <2> HIDE DEF u, n, k
  <2>5. u = call[c].id /\ n = call[c].target BY DEF u, n
  <2> QED BY <1>1, <2>1, <2>2, <2>4, <2>5 DEF Tidy, At, Between, Holding
<1>6. CASE ~MoreToCopy(k) /\ GoTo(c, "unlink") /\ dest' = dest
  <2>1. /\ call'[c].pc = "unlink" /\ call'[c].id = u /\ call'[c].target = n
        /\ \A d \in Calls \ {c} : call'[d] = call[d]
    BY <1>6 DEF IInv, TypeOK, Call, GoTo
  <2>2. dest[n] = [i \in Chunks |-> u]
    <3>1. \A i \in Chunks : i < k BY <1>2, <1>6, CountsAssumption DEF MoreToCopy, Chunks
    <3> QED BY <1>3, <1>4, <3>1 DEF File
  <2>3. dest[n] # NoFile BY <1>4, MarkersAssumption
  <2>4. Delivers(c)' BY <1>6, <2>1, <2>3 DEF Delivers, At
  <2>5. Whole(dest'[n]) BY <1>2, <1>6, <2>2 DEF Whole
  <2> HIDE DEF u, n
  <2>6. u = call[c].id /\ n = call[c].target BY DEF u, n
  <2> QED BY <1>1, <1>6, <2>1, <2>4, <2>5, <2>6 DEF Tidy, At, Between, Holding
<1>7. CASE dest' = [dest EXCEPT ![n] = NoFile] /\ call' = [Detached(n) EXCEPT ![c] = Idle]
  <2>1. call'[c] = Idle /\ \A d \in Calls \ {c} : call'[d].pc = call[d].pc /\ call'[d].id = call[d].id
    BY <1>2, <1>7, DetachedTyped DEF IInv
  <2>2. Delivers(c)' BY <2>1 DEF Delivers, At, Idle
  <2>3. \A m \in Names : Whole(dest'[m]) \/ (m # n /\ dest'[m] = dest[m])
    BY <1>7 DEF IInv, TypeOK, Whole
  <2> QED BY <1>1, <2>1, <2>2, <2>3 DEF Tidy, At, Between, Holding, Idle
<1> QED BY <1>3, <1>5, <1>6, <1>7 DEF CompleteCopy

\* What is delivered is there to be seen.
LEMMA StatTidy ==
    ASSUME IInv, Kept, NEW c \in Calls, CompleteUnlink(c) \/ CompleteStat(c)
    PROVE  Tidy(c)
<1>1. /\ UNCHANGED <<sessions, upload, dest, expired, stale, interrupted>>
      /\ call[c].pc \in {"unlink", "stat"}
  BY DEF CompleteUnlink, CompleteStat, files, ages, history, At
<1>2. dest[call[c].target] # NoFile BY <1>1 DEF Kept, Delivering, Delivers
<1>3. PICK pc \in {"stat", "finish"} : GoTo(c, pc)
  BY <1>2 DEF CompleteUnlink, CompleteStat
<1>4. /\ call'[c].pc = pc /\ call'[c].id = call[c].id /\ call'[c].target = call[c].target
      /\ \A d \in Calls \ {c} : call'[d] = call[d]
  BY <1>3 DEF IInv, TypeOK, Call, GoTo
<1>5. \A u \in Uploads : u # call[c].id => temp'[u] = temp[u]
  BY DEF CompleteUnlink, CompleteStat, files, RemoveTemp, IInv, TypeOK
<1>6. Delivers(c)' BY <1>1, <1>2, <1>4 DEF Delivers, At
<1> QED BY <1>1, <1>4, <1>5, <1>6 DEF Tidy, At, Between

LEMMA InitTempKept ==
    ASSUME IInv, Kept, NEW c \in Calls, NEW u \in Uploads, InitTemp(c, u)
    PROVE  Kept'
<1>1. /\ UNCHANGED <<sessions, dest, expired, stale, interrupted>>
      /\ At(c, "idle") /\ upload[u] = NotDrawn
  BY DEF InitTemp, ages, history
<1>2. /\ call'[c].pc = "register" /\ call'[c].id = u
      /\ \A d \in Calls \ {c} : call'[d] = call[d]
  BY DEF InitTemp, IInv, TypeOK, Call
<1>3. temp'[u] # NoFile /\ \A v \in Uploads : v # u => temp'[v] = temp[v]
  <2>1. temp'[u] = {} /\ \A v \in Uploads : v # u => temp'[v] = temp[v]
    BY DEF InitTemp, IInv, TypeOK
  <2>2. {} \in SUBSET Chunks OBVIOUS
  <2> QED BY <2>1, <2>2, MarkersAssumption
<1>4. \A v \in Uploads : upload'[v] = NotDrawn => upload[v] = NotDrawn
  <2>1. \A v \in Uploads : v # u => upload'[v] = upload[v] BY DEF InitTemp, IInv, TypeOK
  <2> QED BY <1>1, <2>1
<1>5. u \notin sessions \cup expired \cup stale /\ \A d \in Calls : call[d].id # u
  BY <1>1 DEF Kept, Registering, IInv, Drawn
<1>6. Registering'
  <2>1. ASSUME NEW d \in Calls, At(d, "register")'
        PROVE  /\ temp'[call'[d].id] # NoFile
               /\ call'[d].id \notin sessions' \cup expired' \cup stale'
               /\ \A e \in Calls : call'[e].id = call'[d].id => e = d
    <3>1. CASE d = c BY <1>1, <1>2, <1>3, <1>5, <3>1
    <3>2. CASE d # c
      <4>1. call'[d] = call[d] /\ At(d, "register") BY <1>2, <2>1, <3>2 DEF At
      <4>2. call[d].id \in Uploads /\ call[d].id # u
        BY <1>5, <4>1 DEF IInv, TypeOK, Call, Drawn, At
      <4>3. /\ temp[call[d].id] # NoFile /\ call[d].id \notin sessions \cup expired \cup stale
            /\ \A e \in Calls : call[e].id = call[d].id => e = d
        BY <4>1 DEF Kept, Registering
      <4> QED BY <1>1, <1>2, <1>3, <3>2, <4>1, <4>2, <4>3
    <3> QED BY <3>1, <3>2
  <2> QED BY <1>1, <1>4, <2>1 DEF Registering, Kept
<1>7. Delivering' BY <1>1, <1>2 DEF Kept, Delivering, Delivers, At
<1>8. SessionHasTemp'
  <2>1. \A v \in Uploads : temp'[v] = NoFile => temp[v] = NoFile BY <1>3
  <2>2. \A d \in Calls : call[d].pc \in Between => call'[d] = call[d] BY <1>1, <1>2 DEF At, Between
  <2> QED BY <1>1, <2>1, <2>2 DEF Kept, SessionHasTemp, IInv, TypeOK, Between
<1>9. DeliveredWhole'
  <2>1. \A d \in Calls : At(d, "copy") => call'[d] = call[d] BY <1>1, <1>2 DEF At
  <2> QED BY <1>1, <2>1 DEF Kept, DeliveredWhole, At
<1> QED BY <1>6, <1>7, <1>8, <1>9 DEF Kept

LEMMA InitRegisterKept ==
    ASSUME IInv, Kept, NEW c \in Calls, InitRegister(c)
    PROVE  Kept'
<1> DEFINE u == call[c].id
<1>1. /\ UNCHANGED <<upload, temp, dest, expired, stale, interrupted>>
      /\ sessions' = sessions \cup {u} /\ At(c, "register")
  BY DEF InitRegister, files, ages, history
<1>2. u \in Uploads /\ temp[u] # NoFile /\ \A d \in Calls : call[d].id = u => d = c
  BY <1>1 DEF Kept, Registering, IInv, TypeOK, Call, Drawn, At
<1>3. call'[c] = Idle /\ \A d \in Calls \ {c} : call'[d] = call[d]
  BY DEF InitRegister, Answer, IInv, TypeOK
<1>4. Registering'
  <2>1. ASSUME NEW d \in Calls, At(d, "register")'
        PROVE  /\ temp'[call'[d].id] # NoFile
               /\ call'[d].id \notin sessions' \cup expired' \cup stale'
               /\ \A e \in Calls : call'[e].id = call'[d].id => e = d
    <3>1. d # c /\ call'[d] = call[d] /\ At(d, "register") BY <1>3, <2>1 DEF At, Idle
    <3>2. call[d].id \in Uploads /\ call[d].id # u
      BY <1>2, <3>1 DEF IInv, TypeOK, Call, Drawn, At
    <3>3. call'[c].id # call[d].id BY <1>3, <3>2, Markers DEF Idle
    <3>4. /\ temp[call[d].id] # NoFile /\ call[d].id \notin sessions \cup expired \cup stale
          /\ \A e \in Calls : call[e].id = call[d].id => e = d
      BY <3>1 DEF Kept, Registering
    <3> QED BY <1>1, <1>3, <3>1, <3>2, <3>3, <3>4
  <2> QED BY <1>1, <2>1 DEF Registering, Kept
<1>5. Delivering' BY <1>1, <1>3 DEF Kept, Delivering, Delivers, At, Idle
<1>6. SessionHasTemp'
  <2>1. \A d \in Calls : call[d].pc \in Between => call'[d] = call[d] BY <1>1, <1>3 DEF At, Between
  <2> QED BY <1>1, <1>2, <2>1 DEF Kept, SessionHasTemp, Between
<1>7. DeliveredWhole'
  <2>1. \A d \in Calls : At(d, "copy") => call'[d] = call[d] BY <1>1, <1>3 DEF At
  <2> QED BY <1>1, <2>1 DEF Kept, DeliveredWhole, At
<1> QED BY <1>4, <1>5, <1>6, <1>7 DEF Kept

\* Only temp files that no session has, or that lose it too, are cleared.
LEMMA CleanupKept ==
    ASSUME IInv, Kept, Cleanup \/ (\E u \in Uploads : Expire(u)) \/ UNCHANGED vars
    PROVE  Kept'
<1>1. UNCHANGED <<upload, dest, call, interrupted>> /\ sessions' \subseteq sessions
  BY DEF Cleanup, CleanupLock, CleanupSessions, CleanupOrphan, CleanupEnd, Expire, files,
         history, vars
<1>2. \A u \in Uploads :
        temp[u] # NoFile /\ temp'[u] = NoFile => u \notin sessions' /\ u \in sessions \cup stale
  BY DEF Cleanup, CleanupLock, CleanupSessions, CleanupOrphan, CleanupEnd, Expire, files,
         history, vars, Orphan, IInv, TypeOK
<1>3. \A u \in Uploads : u \in expired' \cup stale' =>
        \/ u \in expired \cup stale
        \/ (temp[u] # NoFile \/ u \in sessions) /\ \A c \in Calls : ~(At(c, "register") /\ call[c].id = u)
  BY DEF Cleanup, CleanupLock, CleanupSessions, CleanupOrphan, CleanupEnd, Expire, ages, vars
<1>4. Registering'
  <2>1. ASSUME NEW c \in Calls, At(c, "register")
        PROVE  /\ temp'[call[c].id] # NoFile
               /\ call[c].id \notin sessions' \cup expired' \cup stale'
    <3>1. call[c].id \in Uploads BY <2>1 DEF IInv, TypeOK, Call, Drawn, At
    <3>2. temp[call[c].id] # NoFile /\ call[c].id \notin sessions \cup expired \cup stale
      BY <2>1 DEF Kept, Registering
    <3> QED BY <1>1, <1>2, <1>3, <2>1, <3>1, <3>2
  <2>2. ASSUME NEW u \in Uploads, upload[u] = NotDrawn PROVE u \notin expired' \cup stale'
    BY <1>3, <2>2 DEF Kept, Registering, IInv, Drawn
  <2> QED BY <1>1, <2>1, <2>2 DEF Kept, Registering, At
<1>5. Delivering' BY <1>1 DEF Kept, Delivering, Delivers, At
<1>6. SessionHasTemp' BY <1>1, <1>2 DEF Kept, SessionHasTemp, IInv, TypeOK
<1>7. DeliveredWhole' BY <1>1 DEF Kept, DeliveredWhole, At
<1> QED BY <1>4, <1>5, <1>6, <1>7 DEF Kept

\* No session outlives the process; a copy cut short is recorded.
LEMMA CrashKept ==
    ASSUME IInv, Kept, Crash
    PROVE  Kept'
<1>1. /\ sessions' = {} /\ UNCHANGED <<upload, dest, expired, stale>>
      /\ \A c \in Calls : call'[c] = Idle
      /\ interrupted \subseteq interrupted'
      /\ \A c \in Calls : At(c, "copy") => call[c].target \in interrupted'
  BY DEF Crash, files, ages
<1>2. Registering' /\ Delivering' /\ SessionHasTemp'
  BY <1>1 DEF Kept, Registering, Delivering, Delivers, SessionHasTemp, At, Idle
<1>3. DeliveredWhole' BY <1>1 DEF Kept, DeliveredWhole
<1> QED BY <1>2, <1>3 DEF Kept

LEMMA NextKept ==
    ASSUME OneUpload, IInv, Kept, [Next]_vars PROVE Kept'
<1>1. ASSUME NEW c \in Calls, NEW u \in Uploads, Begin(c, u) PROVE Kept'
  <2>1. CASE InitTemp(c, u) BY <2>1, InitTempKept
  <2>2. ASSUME NEW pc \in {"writeLock", "completeLock", "abortLock"}, Lookup(c, u, pc) PROVE Kept'
    BY <2>2, LookupTidy, TidyKeeps
  <2> QED BY <1>1, <2>1, <2>2 DEF Begin, WriteLookup, CompleteLookup, AbortLookup
<1>2. ASSUME NEW c \in Calls, Step(c) PROVE Kept'
  <2>1. CASE InitRegister(c) BY <2>1, InitRegisterKept
  <2>2. InitRegister(c) \/ Tidy(c)
    BY <1>2, LocksTidy, WriteBodyTidy, DropTidy, ForgetTidy, ResolveTidy, MoveTidy, CopyTidy,
       StatTidy DEF Step
  <2> QED BY <2>1, <2>2, TidyKeeps
<1> QED BY <1>1, <1>2, CleanupKept, CrashKept DEF Next

LEMMA KeptAlways == ASSUME OneUpload PROVE Spec => []Kept
<1>1. Init => Kept
  BY DEF Init, Kept, Registering, Delivering, Delivers, SessionHasTemp, DeliveredWhole, At, Idle
<1>2. IInv /\ Kept /\ [Next]_vars => Kept' BY NextKept
<1> QED BY <1>1, <1>2, Invariance, PTL DEF Spec

\* A client that finds its session finds its temp file, whatever its calls do at once, what
\* fails, expires or is killed, as long as no other upload asks for the same name: what
\* CompleteUpload stats after the move is then the file it moved.
THEOREM LoneSessionHasTemp == ASSUME OneUpload PROVE Spec => []SessionHasTemp
<1>1. Kept => SessionHasTemp BY DEF Kept
<1> QED BY <1>1, KeptAlways, PTL

\* Across devices too a file under a name is whole, except while it is copied and where a
\* crash cut the copy short, as long as no other upload asks for the same name.
THEOREM LoneUploadWhole == ASSUME OneUpload PROVE Spec => []DeliveredWhole
<1>1. Kept => DeliveredWhole BY DEF Kept
<1> QED BY <1>1, KeptAlways, PTL

=============================================================================
