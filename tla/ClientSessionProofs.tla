------------------------ MODULE ClientSessionProofs ------------------------
(***************************************************************************)
(* What ClientSession keeps, for any clients, files, commands, entries and *)
(* room on a connection: its type, that a client and its handler stay in   *)
(* step, and that a client told of the end of a write is told of its own,  *)
(* each with the exceptions the property names.                            *)
(***************************************************************************)
EXTENDS ClientSession, SequenceTheorems, FiniteSetTheorems, TLAPS

-----------------------------------------------------------------------------
(* What the steps do to the connections.                                   *)
Pieces == [kind : Kinds, of : Nat]
Progs  == {"ready", "wait", "told", "blank", "gone"}
Handlers == {"read", "check", "address", "path", "enter", "poll", "ended"}

LEMMA Stages ==
  /\ AtWrite \cup {"read", "ended"} = Handlers
  /\ AtWrite = {"check", "address", "path", "enter", "poll"}
  /\ Storing = {"address", "path", "enter"} /\ Storing \subseteq AtWrite
BY DEF AtWrite, Storing, Handlers

\* A piece that is sent is the last of what is on its way, or lost.
LEMMA SentSays ==
  ASSUME TypeOK, NEW c \in Client, NEW kind \in Kinds, serving'[c] \in Nat, Sent(c, kind)
  PROVE  /\ in' \in [Client -> Seq(Pieces)]
         /\ \A d \in Client \ {c} : in'[d] = in[d]
         /\ prog[c] = "gone" => in'[c] = in[c]
         /\ prog[c] # "gone" =>
              /\ Len(in'[c]) = Len(in[c]) + 1
              /\ \A i \in 1..Len(in[c]) : in'[c][i] = in[c][i]
              /\ in'[c][Len(in[c]) + 1] = [kind |-> kind, of |-> serving'[c]]
<1> DEFINE p == [kind |-> kind, of |-> serving'[c]]
<1>1. in \in [Client -> Seq(Pieces)] /\ p \in Pieces /\ in[c] \in Seq(Pieces)
  BY DEF TypeOK, Pieces
<1>2. in' = [in EXCEPT ![c] = IF prog[c] = "gone" THEN in[c] ELSE Append(in[c], p)]
  BY DEF Sent, Piece
<1> HIDE DEF p
<1>3. /\ Append(in[c], p) \in Seq(Pieces) /\ Len(Append(in[c], p)) = Len(in[c]) + 1
      /\ \A i \in 1..Len(in[c]) : Append(in[c], p)[i] = in[c][i]
      /\ Append(in[c], p)[Len(in[c]) + 1] = p
  BY <1>1
<1>4. CASE prog[c] = "gone"
  BY <1>1, <1>2, <1>4
<1>5. CASE prog[c] # "gone"
  <2>1. in'[c] = Append(in[c], p)
    BY <1>1, <1>2, <1>5
  <2>2. in' \in [Client -> Seq(Pieces)] /\ \A d \in Client \ {c} : in'[d] = in[d]
    BY <1>1, <1>2, <1>3, <1>5
  <2> QED BY <1>3, <1>5, <2>1, <2>2 DEF p
<1> QED BY <1>4, <1>5

\* What is taken is everything, or the first piece.
LEMMA TakeSays ==
  ASSUME TypeOK, NEW c \in Client, Take(c)
  PROVE  /\ in' \in [Client -> Seq(Pieces)]
         /\ \A d \in Client \ {c} : in'[d] = in[d]
         /\ in[c] # <<>> /\ Len(in[c]) \in Nat \ {0}
         /\ \/ in'[c] = <<>> /\ Len(in'[c]) = 0
            \/ /\ op[c] \in {"lookup", "write"} /\ prog[c] = "wait"
               /\ Len(in'[c]) = Len(in[c]) - 1
               /\ \A i \in 1..Len(in'[c]) : in'[c][i] = in[c][i + 1]
<1>1. in \in [Client -> Seq(Pieces)] /\ in[c] \in Seq(Pieces) /\ in[c] # <<>>
  BY DEF TypeOK, Pieces, Take
<1>2. Len(in[c]) \in Nat \ {0}
  BY <1>1, EmptySeq
<1>3. CASE in' = [in EXCEPT ![c] = <<>>]
  <2>1. <<>> \in Seq(Pieces) /\ Len(<<>>) = 0
    BY EmptySeq
  <2> HIDE DEF Pieces
  <2> QED BY <1>1, <1>2, <1>3, <2>1
<1>4. CASE op[c] \in {"lookup", "write"} /\ prog[c] = "wait" /\ in' = [in EXCEPT ![c] = Tail(@)]
  <2>1. /\ Tail(in[c]) \in Seq(Pieces) /\ Len(Tail(in[c])) = Len(in[c]) - 1
        /\ \A i \in 1..Len(Tail(in[c])) : Tail(in[c])[i] = in[c][i + 1]
    BY <1>1, HeadTailProperties
  <2>2. in'[c] = Tail(in[c])
    BY <1>1, <1>4
  <2>3. in' \in [Client -> Seq(Pieces)] /\ \A d \in Client \ {c} : in'[d] = in[d]
    BY <1>1, <1>4, <2>1
  <2> QED BY <1>1, <1>2, <1>4, <2>1, <2>2, <2>3
<1> QED BY <1>3, <1>4 DEF Take

\* Marking what is left of a COPY's answer.
LEMMA RestSays ==
  ASSUME TypeOK, NEW c \in Client, in[c] # <<>>, in' = [in EXCEPT ![c][1].kind = "rest"]
  PROVE  /\ in' \in [Client -> Seq(Pieces)]
         /\ \A d \in Client \ {c} : in'[d] = in[d]
         /\ Len(in'[c]) = Len(in[c])
<1>1. in \in [Client -> Seq(Pieces)] /\ in[c] \in Seq(Pieces)
  BY DEF TypeOK, Pieces
<1>2. Len(in[c]) \in Nat \ {0}
  BY <1>1, EmptySeq
<1>3. in[c][1] \in Pieces
  BY <1>1, <1>2, ElementOfSeq
<1> DEFINE p == [in[c][1] EXCEPT !.kind = "rest"]
<1>4. p \in Pieces
  BY <1>3 DEF Pieces, Kinds
<1> HIDE DEF p
<1>5. [in[c] EXCEPT ![1] = p] \in Seq(Pieces) /\ Len([in[c] EXCEPT ![1] = p]) = Len(in[c])
  BY <1>1, <1>2, <1>4, ExceptSeq
<1>6. in' = [in EXCEPT ![c] = [in[c] EXCEPT ![1] = p]]
  BY DEF p
<1> HIDE DEF Pieces
<1> QED BY <1>1, <1>5, <1>6

-----------------------------------------------------------------------------
(* The type invariant, with what it rests on.                              *)

\* Whoever is about to count an entry found room for one before.
Counting == {c \in Client : handler[c] \in Storing}
RoomLeft == write_client_count + Cardinality(Counting) < MaxEntries + Cardinality(Client)

\* What a client may still be sent: two pieces for the command on its way to the
\* handler, one for the WRITE the handler is at.  "failed" comes on top as long as
\* there is room.
Due(c)   == (IF request[c] # 0 THEN 2 ELSE 0) + (IF handler[c] \in AtWrite THEN 1 ELSE 0)
DueFits  == \A c \in Client : Due(c) <= 2 * number[c] /\ Len(in[c]) + Due(c) <= Room + 2 * number[c]

\* A WRITE is of some file, at the client and at its handler.
Targeted ==
  \A c \in Client : /\ op[c] = "write" => wants[c] \in File
                    /\ handler[c] \in AtWrite => target[c] \in File

TypeInv == TypeOK /\ RoomLeft /\ DueFits /\ Targeted

\* What a step of the client program does that is not the giving of a command.
LEMMA ProgramSays ==
  ASSUME TypeInv, NEW c \in Client, Program(c) \/ Quit(c)
  PROVE  /\ UNCHANGED <<entries, target, lost, noticed, reported, missed, handler, given,
                        serving, down, silent>>
         /\ prog' \in [Client -> Progs]
         /\ in' \in [Client -> Seq(Pieces)] /\ Len(in'[c]) <= Len(in[c])
         /\ \A d \in Client \ {c} : prog'[d] = prog[d] /\ in'[d] = in[d]
         /\ spoiled \subseteq spoiled' /\ spoiled' \subseteq spoiled \cup {c}
         /\ \/ UNCHANGED <<pending, held, crossed>>
            \/ \E f \in File, data \in BOOLEAN : TakeAddress(c) /\ Give(c, f, data)
            \/ Release(c)
<1>1. in \in [Client -> Seq(Pieces)] /\ prog \in [Client -> Progs]
  BY DEF TypeInv, TypeOK, Pieces, Progs
<1>2. Len(in[c]) \in Nat
  BY <1>1
<1>3. Take(c) => /\ in' \in [Client -> Seq(Pieces)] /\ Len(in'[c]) <= Len(in[c])
                 /\ \A d \in Client \ {c} : in'[d] = in[d]
  BY <1>2, TakeSays DEF TypeInv
<1> HIDE DEF Pieces
<1>4. CASE TakeLookup(c)
  BY <1>1, <1>3, <1>4 DEF TakeLookup, Goes, writes, crosses, Progs
<1>5. CASE TakeAddress(c)
  <2>1. PICK f \in Addressed(c), data \in BOOLEAN :
          Give(c, f, data) /\ Goes(c, IF data THEN "told" ELSE "blank")
    BY <1>5 DEF TakeAddress
  <2>2. f \in File
    BY <1>5, EntriesAssumption DEF TakeAddress, Addressed, Server, TypeInv, TypeOK, Targeted
  <2>3. prog' \in [Client -> Progs] /\ \A d \in Client \ {c} : prog'[d] = prog[d]
    BY <1>1, <2>1 DEF Goes, Progs
  <2>4. Take(c) /\ UNCHANGED <<handler, given, serving, down, spoiled, silent>>
    BY <1>5 DEF TakeAddress
  <2>5. UNCHANGED <<entries, target, lost, noticed, reported, missed>>
    BY <2>1 DEF Give
  <2> QED BY <1>3, <1>5, <2>1, <2>2, <2>3, <2>4, <2>5
<1>6. CASE TakeAddressFail(c)
  BY <1>1, <1>3, <1>6 DEF TakeAddressFail, Goes, writes, crosses, Progs
<1>7. CASE TakeText(c)
  BY <1>1, <1>3, <1>7 DEF TakeText, Goes, writes, crosses, Progs
<1>12. CASE TakeRefusal(c)
  BY <1>1, <1>2, <1>12 DEF TakeRefusal, Goes, writes, crosses, session, Progs
<1>8. CASE TakeList(c)
  <2>1. prog' = [prog EXCEPT ![c] = "ready"] \/ prog' = prog
    BY <1>8 DEF TakeList, Goes
  <2> QED BY <1>1, <1>3, <1>8, <2>1 DEF TakeList, writes, crosses, Progs
<1>9. CASE TakeCopy(c)
  <2>1. in' \in [Client -> Seq(Pieces)] /\ Len(in'[c]) <= Len(in[c]) /\ \A d \in Client \ {c} : in'[d] = in[d]
    BY <1>1, <1>2, <1>3, <1>9, RestSays DEF TypeInv, TakeCopy
  <2>2. /\ prog' = [prog EXCEPT ![c] = "ready"] /\ (spoiled' = spoiled \cup {c} \/ spoiled' = spoiled)
        /\ UNCHANGED <<writes, handler, given, serving, down, silent>>
    BY <1>9 DEF TakeCopy, Goes
  <2> QED BY <1>1, <2>1, <2>2 DEF writes, crosses, Progs
<1>10. CASE TakeEnd(c)
  BY <1>1, <1>2, <1>10 DEF TakeEnd, Goes, writes, crosses, session, Progs
<1>11. CASE Quit(c)
  <2>1. <<>> \in Seq(Pieces) /\ Len(<<>>) = 0
    BY EmptySeq
  <2> QED BY <1>1, <1>2, <1>11, <2>1 DEF Quit, Goes, Release, crosses, Progs
<1> QED BY <1>4, <1>5, <1>6, <1>7, <1>8, <1>9, <1>10, <1>11, <1>12 DEF Program

LEMMA Basics ==
  ASSUME TypeOK
  PROVE  /\ Room \in Nat \ {0} /\ MaxEntries \in Nat \ {0}
         /\ IsFiniteSet(Client) /\ Cardinality(Client) \in Nat
         /\ write_client_count \in Nat
         /\ \A c \in Client :
              /\ number[c] \in Nat /\ Len(in[c]) \in Nat
              /\ Due(c) \in 0..3 /\ request[c] \in Nat /\ serving[c] \in Nat
<1>1. /\ Room \in Nat \ {0} /\ MaxEntries \in Nat \ {0}
      /\ IsFiniteSet(Client) /\ Cardinality(Client) \in Nat
  BY EntriesAssumption, SessionAssumption, FS_CardinalityType
<1>2. write_client_count \in Nat
  BY <1>1 DEF TypeOK, WritesOK
<1>3. ASSUME NEW c \in Client
      PROVE  /\ number[c] \in Nat /\ Len(in[c]) \in Nat
             /\ Due(c) \in 0..3 /\ request[c] \in Nat /\ serving[c] \in Nat
  <2>1. in[c] \in Seq(Pieces)
    BY DEF TypeOK, Pieces
  <2>2. Due(c) \in 0..3
    BY DEF Due
  <2> QED BY <2>1, <2>2 DEF TypeOK
<1> QED BY <1>1, <1>2, <1>3

\* The connections keep to their bound where one client's does.
LEMMA DueStep ==
  ASSUME TypeInv, NEW c \in Client,
         \A d \in Client \ {c} : /\ request'[d] = request[d] /\ handler'[d] = handler[d]
                                 /\ number'[d] = number[d] /\ in'[d] = in[d],
         number'[c] \in Nat, Len(in'[c]) \in Nat,
         Due(c)' <= 2 * number'[c], Len(in'[c]) + Due(c)' <= Room + 2 * number'[c]
  PROVE  DueFits' /\ \A d \in Client : Len(in'[d]) <= Room + 2 * number'[d]
<1>1. \A d \in Client \ {c} : Due(d)' = Due(d)
  BY DEF Due
<1>2. DueFits'
  BY <1>1 DEF DueFits, TypeInv
<1>3. ASSUME NEW d \in Client PROVE Len(in'[d]) <= Room + 2 * number'[d]
  <2>1. Len(in'[d]) + Due(d)' <= Room + 2 * number'[d]
    BY <1>2 DEF DueFits
  <2>2. Due(d)' >= 0 /\ Due(d)' \in Int
    BY DEF Due
  <2>3. Room + 2 * number'[d] \in Int /\ Len(in'[d]) \in Int
    <3>1. number'[d] \in Nat
      BY Basics DEF TypeInv
    <3>2. Len(in'[d]) \in Nat
      BY Basics DEF TypeInv
    <3> QED BY <3>1, <3>2, SessionAssumption
  <2> HIDE DEF Due
  <2> QED BY <2>1, <2>2, <2>3
<1> QED BY <1>2, <1>3

\* The array of entries and who polls it are not touched.
LEMMA RoomStays ==
  ASSUME TypeInv, UNCHANGED write_client_count, Counting' \subseteq Counting
  PROVE  RoomLeft'
<1>1. IsFiniteSet(Counting)
  BY Basics, FS_Subset DEF Counting, TypeInv
<1>2. Cardinality(Counting') <= Cardinality(Counting) /\ IsFiniteSet(Counting')
  BY <1>1, FS_Subset
<1>3. Cardinality(Counting') \in Nat /\ Cardinality(Counting) \in Nat
  BY <1>1, <1>2, FS_CardinalityType
<1> QED BY <1>2, <1>3, Basics DEF TypeInv, RoomLeft

\* At first nothing is on its way.
LEMMA InitType == Init => TypeInv
<1> SUFFICES ASSUME Init PROVE TypeInv
  OBVIOUS
<1>1. /\ Room \in Nat \ {0} /\ MaxEntries \in Nat \ {0}
      /\ IsFiniteSet(Client) /\ Cardinality(Client) \in Nat
  BY EntriesAssumption, SessionAssumption, FS_CardinalityType
<1>2. WritesOK
  <2>1. write_clients \in [Places -> WriteEntry]
    BY DEF Init, WritesInit, WriteEntry
  <2>2. write_client_count \in 0..(MaxEntries + Cardinality(Client) - 1)
    BY <1>1 DEF Init, WritesInit
  <2> QED BY <2>1, <2>2 DEF Init, WritesInit, WritesOK
<1>3. in \in [Client -> Seq(Pieces)] /\ \A c \in Client : Len(in[c]) = 0
  <2>1. <<>> \in Seq(Pieces) /\ Len(<<>>) = 0
    BY EmptySeq
  <2> HIDE DEF Pieces
  <2> QED BY <2>1 DEF Init
<1>4. TypeOK
  <2>1. number \in [Client -> Nat] /\ wants \in [Client -> File \cup {NoFile}]
    BY DEF Init
  <2>2. /\ request \in [Client -> Nat] /\ serving \in [Client -> Nat]
        /\ silent \in [Client -> Nat]
    BY <1>1 DEF Init
  <2>3. \A c \in Client : Len(in[c]) <= Room + 2 * number[c]
    BY <1>1, <1>3 DEF Init
  <2>4. /\ prog \in [Client -> {"ready", "wait", "told", "blank", "gone"}] /\ op \in [Client -> Ops]
        /\ down \in BOOLEAN /\ spoiled \subseteq Client
    BY DEF Init, Ops
  <2> QED BY <1>2, <1>3, <2>1, <2>2, <2>3, <2>4 DEF TypeOK, Pieces
<1>5. RoomLeft
  <2>1. Counting = {}
    BY Stages DEF Init, WritesInit, Counting
  <2> QED BY <1>1, <2>1, FS_EmptySet DEF Init, WritesInit, RoomLeft
<1>6. DueFits
  BY <1>1, <1>3, Stages DEF Init, WritesInit, DueFits, Due
<1>7. Targeted
  BY Stages DEF Init, WritesInit, Targeted
<1> QED BY <1>4, <1>5, <1>6, <1>7 DEF TypeInv

\* A command is given: at most two pieces more will come.
LEMMA AskType ==
  ASSUME TypeInv, NEW c \in Client, NEW o \in Ops, Ask(c, o) PROVE TypeInv'
<1>1. /\ request[c] = 0
      /\ prog' = [prog EXCEPT ![c] = "wait"] /\ op' = [op EXCEPT ![c] = o]
      /\ number' = [number EXCEPT ![c] = number[c] + 1]
      /\ request' = [request EXCEPT ![c] = number'[c]]
      /\ UNCHANGED <<write_clients, write_client_count, target, pending, held, lost, noticed, reported,
                     crossed, missed, handler, in, serving, down, spoiled, silent>>
  BY DEF Ask, writes, entries, crosses, session
<1>2. wants' \in [Client -> File \cup {NoFile}] /\ Targeted'
  <2>1. CASE o = "write" /\ \E f \in File : wants' = [wants EXCEPT ![c] = f]
    BY <1>1, <2>1 DEF TypeInv, TypeOK, Targeted
  <2>2. CASE o # "write" /\ UNCHANGED wants
    BY <1>1, <2>2 DEF TypeInv, TypeOK, Targeted
  <2> QED BY <2>1, <2>2 DEF Ask
<1>3. WritesOK'
  BY <1>1 DEF TypeInv, TypeOK, WritesOK
<1>4. /\ Room \in Nat \ {0} /\ number[c] \in Nat /\ Len(in[c]) \in Nat
  BY Basics DEF TypeInv
<1>5. /\ number' \in [Client -> Nat] /\ request' \in [Client -> Nat]
      /\ number'[c] = number[c] + 1 /\ request'[c] = number[c] + 1
      /\ \A d \in Client \ {c} : number'[d] = number[d] /\ request'[d] = request[d]
  <2>1. number[c] + 1 \in Nat
    BY <1>4
  <2> QED BY <1>1, <2>1 DEF TypeInv, TypeOK
<1>6. Due(c)' <= 2 * number'[c] /\ Len(in'[c]) + Due(c)' <= Room + 2 * number'[c]
  <2>1. Due(c) \in 0..3 /\ Due(c) <= 2 * number[c] /\ Len(in[c]) + Due(c) <= Room + 2 * number[c]
    BY Basics DEF TypeInv, DueFits
  <2>2. Due(c)' = Due(c) + 2
    BY <1>1, <1>4, <1>5 DEF Due
  <2>3. Len(in'[c]) = Len(in[c]) /\ number'[c] = number[c] + 1
    BY <1>1, <1>5
  <2> DEFINE l == Len(in[c])
             n == number[c]
  <2>4. l \in Nat /\ n \in Nat /\ Due(c) <= 2 * n /\ l + Due(c) <= Room + 2 * n
    BY <1>4, <2>1
  <2>5. Len(in'[c]) = l /\ number'[c] = n + 1
    BY <2>3
  <2>7. Due(c) \in Int /\ Room \in Int
    BY <1>4, <2>1
  <2> HIDE DEF l, n
  <2>6. Due(c)' <= 2 * (n + 1) /\ l + Due(c)' <= Room + 2 * (n + 1)
    BY <2>2, <2>4, <2>7
  <2> QED BY <2>5, <2>6
<1>7. DueFits' /\ \A d \in Client : Len(in'[d]) <= Room + 2 * number'[d]
  <2>1. number'[c] \in Nat /\ Len(in'[c]) \in Nat
    BY <1>1, <1>4, <1>5
  <2> QED BY <1>1, <1>5, <1>6, <2>1, DueStep
<1>8. TypeOK'
  BY <1>1, <1>2, <1>3, <1>5, <1>7 DEF TypeInv, TypeOK
<1>9. RoomLeft'
  BY <1>1, RoomStays DEF Counting
<1> QED BY <1>2, <1>7, <1>8, <1>9 DEF TypeInv

\* The client takes what is there, or goes.
LEMMA ProgramType ==
  ASSUME TypeInv, NEW c \in Client, Program(c) \/ Quit(c) PROVE TypeInv'
<1>1. /\ UNCHANGED <<entries, target, lost, noticed, reported, missed, handler, given,
                     serving, down, silent>>
      /\ prog' \in [Client -> Progs]
      /\ in' \in [Client -> Seq(Pieces)] /\ Len(in'[c]) <= Len(in[c])
      /\ \A d \in Client \ {c} : prog'[d] = prog[d] /\ in'[d] = in[d]
      /\ spoiled' \subseteq spoiled \cup {c}
      /\ \/ UNCHANGED <<pending, held, crossed>>
         \/ \E f \in File, data \in BOOLEAN : TakeAddress(c) /\ Give(c, f, data)
         \/ Release(c)
  BY ProgramSays
<1>2. /\ UNCHANGED <<write_clients, write_client_count, target, lost, noticed, reported, missed,
                     handler, op, wants, number, request, serving, down, silent>>
  BY <1>1 DEF entries, given
<1>3. pending' \subseteq Client \X File /\ held' \subseteq Client \X File /\ crossed' \subseteq Client
  <2>1. pending \subseteq Client \X File /\ held \subseteq Client \X File /\ crossed \subseteq Client
    BY DEF TypeInv, TypeOK, WritesOK
  <2>2. ASSUME NEW f \in File, NEW data \in BOOLEAN, Give(c, f, data)
        PROVE  pending' \subseteq Client \X File /\ held' \subseteq Client \X File /\ crossed' \subseteq Client
    BY <2>1, <2>2 DEF Give
  <2>3. CASE Release(c)
    BY <2>1, <2>3 DEF Release, crosses
  <2> QED BY <1>1, <2>1, <2>2, <2>3
<1>4. WritesOK'
  BY <1>2, <1>3 DEF TypeInv, TypeOK, WritesOK
<1>5. DueFits' /\ \A d \in Client : Len(in'[d]) <= Room + 2 * number'[d]
  <2>1. Len(in[c]) \in Nat /\ number[c] \in Nat /\ Due(c) \in 0..3 /\ Room \in Nat
    BY Basics DEF TypeInv
  <2>2. in'[c] \in Seq(Pieces)
    BY <1>1
  <2>3. Len(in'[c]) \in Nat
    BY <2>2, LenProperties
  <2>4. Due(c) <= 2 * number[c] /\ Len(in[c]) + Due(c) <= Room + 2 * number[c]
    BY DEF TypeInv, DueFits
  <2>5. Due(c)' = Due(c)
    BY <1>2 DEF Due
  <2> DEFINE l == Len(in[c])
             m == Len(in'[c])
             n == number[c]
  <2>7. /\ l \in Nat /\ m \in Nat /\ n \in Nat /\ m <= l /\ n = number'[c] /\ l + Due(c) <= Room + 2 * n
        /\ Due(c) \in Int /\ Room \in Int
    BY <1>1, <1>2, <2>1, <2>3, <2>4
  <2> HIDE DEF l, m, n
  <2>6. m + Due(c)' <= Room + 2 * n
    BY <2>5, <2>7
  <2>8. /\ number'[c] \in Nat /\ Due(c)' <= 2 * number'[c] /\ Len(in'[c]) + Due(c)' <= Room + 2 * number'[c]
    BY <2>4, <2>5, <2>6, <2>7 DEF m, n
  <2>9. \A d \in Client \ {c} : /\ request'[d] = request[d] /\ handler'[d] = handler[d]
                                 /\ number'[d] = number[d] /\ in'[d] = in[d]
    BY <1>1, <1>2
  <2> QED BY <2>3, <2>8, <2>9, DueStep
<1>6. TypeOK'
  BY <1>1, <1>2, <1>4, <1>5 DEF TypeInv, TypeOK, Pieces, Progs
<1>7. RoomLeft'
  BY <1>2, RoomStays DEF Counting
<1>8. Targeted'
  BY <1>2 DEF TypeInv, Targeted
<1> QED BY <1>5, <1>6, <1>7, <1>8 DEF TypeInv

\* An entry whose status or activity is set is still an entry.
LEMMA EntriesStay ==
  ASSUME TypeOK, NEW T,
         \/ \E v \in 0..2 : write_clients' = [i \in DOMAIN write_clients |->
               IF i \in T THEN [write_clients[i] EXCEPT !.status = v] ELSE write_clients[i]]
         \/ \E i : write_clients' = [write_clients EXCEPT ![i].active = FALSE]
  PROVE  write_clients' \in [Places -> WriteEntry]
<1>1. write_clients \in [Places -> WriteEntry]
  BY DEF TypeOK, WritesOK
<1>2. \A e \in WriteEntry : /\ \A v \in 0..2 : [e EXCEPT !.status = v] \in WriteEntry
                            /\ [e EXCEPT !.active = FALSE] \in WriteEntry
  BY DEF WriteEntry
<1>3. \A i \in Places : write_clients[i] \in WriteEntry
  BY <1>1
<1> HIDE DEF WriteEntry
<1>4. CASE \E v \in 0..2 : write_clients' = [i \in DOMAIN write_clients |->
               IF i \in T THEN [write_clients[i] EXCEPT !.status = v] ELSE write_clients[i]]
  <2>1. PICK v \in 0..2 : write_clients' = [i \in DOMAIN write_clients |->
               IF i \in T THEN [write_clients[i] EXCEPT !.status = v] ELSE write_clients[i]]
    BY <1>4
  <2>2. \A i \in Places : [write_clients[i] EXCEPT !.status = v] \in WriteEntry
    BY <1>2, <1>3
  <2> QED BY <1>1, <1>3, <2>1, <2>2
<1>5. CASE \E i : write_clients' = [write_clients EXCEPT ![i].active = FALSE]
  BY <1>1, <1>2, <1>3, <1>5
<1> QED BY <1>4, <1>5

\* Credit's and Notice's assignments in that form.
LEMMA EntriesAre ==
  /\ \A f : Credit(f) => \E T : write_clients' = [i \in DOMAIN write_clients |->
               IF i \in T THEN [write_clients[i] EXCEPT !.status = 1] ELSE write_clients[i]]
  /\ \A f : Notice(f) => \E T : write_clients' = [i \in DOMAIN write_clients |->
               IF i \in T THEN [write_clients[i] EXCEPT !.status = 2] ELSE write_clients[i]]
<1>2. ASSUME NEW f, Credit(f)
      PROVE  \E T : write_clients' = [i \in DOMAIN write_clients |->
               IF i \in T THEN [write_clients[i] EXCEPT !.status = 1] ELSE write_clients[i]]
  <2> DEFINE T == {i \in Open(f) : \A j \in Open(f) : i <= j}
  <2>1. write_clients' = [i \in DOMAIN write_clients |->
          IF i \in T THEN [write_clients[i] EXCEPT !.status = 1] ELSE write_clients[i]]
    BY <1>2 DEF Credit
  <2> HIDE DEF T
  <2> QED BY <2>1
<1>3. ASSUME NEW f, Notice(f)
      PROVE  \E T : write_clients' = [i \in DOMAIN write_clients |->
               IF i \in T THEN [write_clients[i] EXCEPT !.status = 2] ELSE write_clients[i]]
  <2> DEFINE T == {i \in Made : write_clients[i].server = f /\ write_clients[i].active}
  <2>1. write_clients' = [i \in DOMAIN write_clients |->
          IF i \in T THEN [write_clients[i] EXCEPT !.status = 2] ELSE write_clients[i]]
    BY <1>3 DEF Notice
  <2> HIDE DEF T
  <2> QED BY <2>1
<1> QED BY <1>2, <1>3

\* What is there and what is to come.
LEMMA SumsFit ==
  \A r, n, l, m \in Nat, d, e \in 0..3 :
    /\ d <= 2 * n /\ l + d <= r + 2 * n
    /\ (m + e <= l + d /\ e <= d) \/ (m <= r /\ e <= d)
    => e <= 2 * n /\ m + e <= r + 2 * n
OBVIOUS

\* A handler's step keeps the type where it does so for what it changes.
LEMMA HandlerKeeps ==
  ASSUME TypeInv, NEW c \in Client,
         UNCHANGED <<pending, held, lost, noticed, prog, op, wants, number>>,
         target' \in [Client -> File \cup {NoFile}], Targeted',
         write_clients' \in [Places -> WriteEntry],
         write_client_count' \in Nat, RoomLeft',
         handler' \in [Client -> Handlers],
         reported' \subseteq Client, crossed' \subseteq Client, missed' \subseteq Client,
         request' \in [Client -> Nat], serving' \in [Client -> Nat],
         in' \in [Client -> Seq(Pieces)], down' \in BOOLEAN, spoiled' \subseteq Client,
         silent' \in [Client -> Nat],
         \A d \in Client \ {c} : /\ request'[d] = request[d] /\ handler'[d] = handler[d]
                                 /\ in'[d] = in[d],
         \/ Len(in'[c]) + Due(c)' <= Len(in[c]) + Due(c) /\ Due(c)' <= Due(c)
         \/ Len(in'[c]) <= Room /\ Due(c)' <= Due(c)
  PROVE  TypeInv'
<1>1. /\ Room \in Nat /\ MaxEntries \in Nat /\ IsFiniteSet(Client) /\ number[c] \in Nat
      /\ Len(in[c]) \in Nat /\ Due(c) \in 0..3
  BY Basics DEF TypeInv
<1>2. write_client_count' \in 0..(MaxEntries + Cardinality(Client) - 1)
  <2>1. IsFiniteSet(Counting')
    BY <1>1, FS_Subset DEF Counting
  <2>2. Cardinality(Counting') \in Nat /\ Cardinality(Client) \in Nat
    BY <1>1, <2>1, FS_CardinalityType
  <2> QED BY <1>1, <2>2 DEF RoomLeft
<1>3. Len(in'[c]) \in Nat
  <2>1. in'[c] \in Seq(Pieces)
    OBVIOUS
  <2> QED BY <2>1, LenProperties
<1>4. Due(c)' \in 0..3
  BY DEF Due
<1>5. Due(c)' <= 2 * number'[c] /\ Len(in'[c]) + Due(c)' <= Room + 2 * number'[c]
  <2> DEFINE l == Len(in[c])
             m == Len(in'[c])
             n == number[c]
  <2>1. l \in Nat /\ m \in Nat /\ n \in Nat /\ n = number'[c]
    BY <1>1, <1>3
  <2>2. Due(c) <= 2 * n /\ l + Due(c) <= Room + 2 * n
    BY DEF TypeInv, DueFits
  <2>3. \/ m + Due(c)' <= l + Due(c) /\ Due(c)' <= Due(c)
        \/ m <= Room /\ Due(c)' <= Due(c)
    OBVIOUS
  <2> HIDE DEF l, m, n
  <2>4. Due(c)' <= 2 * n /\ m + Due(c)' <= Room + 2 * n
    BY <1>1, <1>4, <2>1, <2>2, <2>3, SumsFit, Zenon
  <2> QED BY <2>1, <2>4 DEF m
<1>6. DueFits' /\ \A d \in Client : Len(in'[d]) <= Room + 2 * number'[d]
  <2>1. number'[c] \in Nat
    BY <1>1
  <2> QED BY <1>3, <1>5, <2>1, DueStep
<1>7. WritesOK'
  BY <1>2, Stages DEF TypeInv, TypeOK, WritesOK
<1>8. TypeOK'
  BY <1>6, <1>7 DEF TypeInv, TypeOK, Pieces
<1> QED BY <1>6, <1>8 DEF TypeInv

\* A thread that waits at its entry, or goes back, counts no entry.
LEMMA ServeType ==
  ASSUME TypeInv, NEW c \in Client, Serve(c) \/ ServeWrite(c) PROVE TypeInv'
<1>1. TypeOK /\ WritesOK /\ handler[c] = "read" /\ request[c] # 0 /\ request[c] \in Nat
  BY DEF TypeInv, TypeOK, Serve, ServeWrite
<1>2. /\ request' = [request EXCEPT ![c] = 0] /\ serving' = [serving EXCEPT ![c] = request[c]]
      /\ UNCHANGED <<pending, held, lost, noticed, prog, op, wants, number,
                     write_clients, write_client_count>>
  <2>1. CASE Serve(c)
    BY <2>1 DEF Serve, writes, entries
  <2>2. CASE ServeWrite(c)
    BY <2>2 DEF ServeWrite, Begin, writes, entries
  <2> QED BY <2>1, <2>2
<1>3. /\ request' \in [Client -> Nat] /\ serving' \in [Client -> Nat]
      /\ serving'[c] \in Nat /\ request'[c] = 0
      /\ \A d \in Client \ {c} : request'[d] = request[d]
  <2>1. request \in [Client -> Nat] /\ serving \in [Client -> Nat]
    BY <1>1 DEF TypeOK
  <2> QED BY <1>1, <1>2, <2>1
<1>4. /\ handler' \in [Client -> Handlers]
      /\ handler'[c] \in {"read", "check"} /\ \A d \in Client \ {c} : handler'[d] = handler[d]
      /\ target' \in [Client -> File \cup {NoFile}] /\ Targeted'
      /\ reported' \subseteq Client /\ crossed' \subseteq Client /\ missed' \subseteq Client
  <2>1. CASE UNCHANGED <<handler, writes>>
    BY <1>1, <1>2, <2>1, Stages DEF writes, crosses, WritesOK, TypeInv, Targeted
  <2>2. CASE op[c] = "write" /\ Begin(c, wants[c])
    <3>1. /\ handler' = [handler EXCEPT ![c] = "check"] /\ target' = [target EXCEPT ![c] = wants[c]]
          /\ reported' = reported \ {c} /\ missed' = missed \ {c}
          /\ crossed' = crossed \cup {c} \/ crossed' = crossed \ {c}
      BY <2>2 DEF Begin
    <3>2. wants[c] \in File
      BY <2>2 DEF TypeInv, Targeted
    <3> QED BY <1>1, <1>2, <3>1, <3>2, Stages DEF WritesOK, TypeInv, Targeted
  <2> QED BY <2>1, <2>2 DEF Serve, ServeWrite
<1>5. /\ in' \in [Client -> Seq(Pieces)] /\ \A d \in Client \ {c} : in'[d] = in[d]
      /\ Len(in'[c]) = Len(in[c]) \/ Len(in'[c]) = Len(in[c]) + 1
  <2>1. ASSUME NEW kind \in Kinds, Sent(c, kind)
        PROVE  /\ in' \in [Client -> Seq(Pieces)] /\ \A d \in Client \ {c} : in'[d] = in[d]
               /\ Len(in'[c]) = Len(in[c]) \/ Len(in'[c]) = Len(in[c]) + 1
    <3> HIDE DEF Pieces
    <3> QED BY <1>1, <1>3, <2>1, SentSays
  <2>2. CASE UNCHANGED in
    BY <1>1, <2>2 DEF TypeOK, Pieces
  <2>3. Answers[op[c]] \subseteq Kinds \cup {"silent"}
    BY <1>1 DEF TypeOK, Answers, Ops, Kinds
  <2>4. CASE Serve(c)
    BY <2>1, <2>2, <2>3, <2>4 DEF Serve
  <2>5. CASE ServeWrite(c)
    BY <2>1, <2>5 DEF ServeWrite, Kinds
  <2> QED BY <2>4, <2>5
<1>6. down' \in BOOLEAN /\ spoiled' \subseteq Client /\ silent' \in [Client -> Nat]
  <2>1. CASE Serve(c)
    <3>1. down' = down \/ down' = TRUE
      BY <2>1 DEF Serve, Killed
    <3>2. silent' = silent \/ silent' = [silent EXCEPT ![c] = request[c]]
      BY <2>1 DEF Serve
    <3> QED BY <1>1, <2>1, <3>1, <3>2 DEF Serve, TypeOK
  <2>2. CASE ServeWrite(c)
    BY <1>1, <2>2 DEF ServeWrite, TypeOK
  <2> QED BY <2>1, <2>2
<1>7. Due(c) = 2 /\ Due(c)' \in 0..1
  BY <1>1, <1>3, <1>4, Stages DEF Due
<1>8. Len(in'[c]) + Due(c)' <= Len(in[c]) + Due(c) /\ Due(c)' <= Due(c)
  <2>1. Len(in[c]) \in Nat
    BY <1>1, Basics
  <2> HIDE DEF Due
  <2> QED BY <1>5, <1>7, <2>1
<1>9. write_client_count' \in Nat /\ write_clients' \in [Places -> WriteEntry]
  BY <1>1, <1>2, Basics DEF WritesOK
<1>10. RoomLeft'
  <2>1. Counting' \subseteq Counting
    BY <1>4, Stages DEF Counting
  <2> QED BY <1>2, <2>1, RoomStays
<1> HIDE DEF Pieces
<1> QED BY <1>2, <1>3, <1>4, <1>5, <1>6, <1>8, <1>9, <1>10, HandlerKeeps

\* What the polling finds sends one piece and ends, or sends one and goes on.
LEMMA PollType ==
  ASSUME TypeInv, NEW c \in Client, Completed(c) \/ Failed(c) PROVE TypeInv'
<1>1. TypeOK /\ WritesOK /\ handler[c] = "poll" /\ serving' = serving
  BY DEF TypeInv, TypeOK, Completed, Failed, PollCompleted, PollFailed
<1>2. UNCHANGED <<target, pending, held, lost, noticed, reported, crossed, missed, prog, op, wants,
                  number, write_client_count, request, silent>>
  BY DEF Completed, Failed, PollCompleted, PollFailed, writes, entries, crosses, client, given
<1>3. serving'[c] \in Nat
  BY <1>1, Basics
<1>4. /\ handler' \in [Client -> Handlers]
      /\ handler'[c] = (IF Completed(c) THEN "read" ELSE "poll") \/ handler'[c] = "poll"
      /\ Completed(c) => handler'[c] = "read"
      /\ \A d \in Client \ {c} : handler'[d] = handler[d]
  BY <1>1, Stages DEF Completed, Failed, PollCompleted, PollFailed, WritesOK
<1>5. /\ write_clients' \in [Places -> WriteEntry] /\ write_client_count' \in Nat
  <2>1. CASE Completed(c)
    <3>1. write_clients' = [write_clients EXCEPT ![write_client_count].active = FALSE]
      BY <2>1 DEF Completed, PollCompleted
    <3>2. \E i : write_clients' = [write_clients EXCEPT ![i].active = FALSE]
      BY <3>1, Zenon
    <3> QED BY <1>1, <1>2, <3>2, EntriesStay, Basics
  <2>2. CASE Failed(c)
    BY <1>1, <1>2, <2>2, Basics DEF Failed, PollFailed, writes, entries, WritesOK
  <2> QED BY <2>1, <2>2
<1>6. down' \in BOOLEAN /\ spoiled' \subseteq Client
  BY <1>1 DEF Completed, Failed, Killed, TypeOK
<1>7. RoomLeft'
  <2>1. Counting' \subseteq Counting
    BY <1>1, <1>4, Stages DEF Counting
  <2> QED BY <1>2, <2>1, RoomStays
<1>8. Len(in[c]) \in Nat /\ Due(c) \in 0..3 /\ Room \in Nat
  BY <1>1, Basics
<1>9. /\ in' \in [Client -> Seq(Pieces)] /\ \A d \in Client \ {c} : in'[d] = in[d]
      /\ \/ Len(in'[c]) + Due(c)' <= Len(in[c]) + Due(c) /\ Due(c)' <= Due(c)
         \/ Len(in'[c]) <= Room /\ Due(c)' <= Due(c)
  <2> HIDE DEF Pieces
  <2>1. CASE Completed(c)
    <3>1. Due(c)' = Due(c) - 1
      BY <1>1, <1>2, <1>4, <2>1, Stages DEF Due
    <3>2. /\ in' \in [Client -> Seq(Pieces)] /\ \A d \in Client \ {c} : in'[d] = in[d]
          /\ in'[c] = in[c] \/ Len(in'[c]) = Len(in[c]) + 1
      BY <1>1, <1>3, <2>1, SentSays DEF Completed, Kinds
    <3> QED BY <1>8, <3>1, <3>2
  <2>2. CASE Failed(c)
    <3>1. Due(c)' = Due(c)
      BY <1>2, <2>2 DEF Due, Failed, PollFailed
    <3>2. CASE UNCHANGED in
      <4>1. in' \in [Client -> Seq(Pieces)] /\ \A d \in Client \ {c} : in'[d] = in[d]
        BY <1>1, <3>2 DEF TypeOK, Pieces
      <4>2. Len(in'[c]) = Len(in[c])
        BY <3>2
      <4> QED BY <1>8, <3>1, <4>1, <4>2
    <3>3. CASE prog[c] # "gone" /\ Len(in[c]) < Room /\ Sent(c, "failed")
      <4>1. /\ in' \in [Client -> Seq(Pieces)] /\ \A d \in Client \ {c} : in'[d] = in[d]
            /\ Len(in'[c]) = Len(in[c]) + 1
        BY <1>1, <1>3, <3>3, SentSays DEF Kinds
      <4> QED BY <1>8, <3>1, <3>3, <4>1
    <3> QED BY <2>2, <3>2, <3>3 DEF Failed
  <2> QED BY <2>1, <2>2
<1>10. request' \in [Client -> Nat] /\ serving' \in [Client -> Nat]
       /\ silent' \in [Client -> Nat] /\ target' \in [Client -> File \cup {NoFile}] /\ Targeted'
       /\ reported' \subseteq Client /\ crossed' \subseteq Client /\ missed' \subseteq Client
  BY <1>1, <1>2, <1>4, Stages DEF TypeOK, WritesOK, TypeInv, Targeted
<1> HIDE DEF Pieces
<1> QED BY <1>2, <1>4, <1>5, <1>6, <1>7, <1>9, <1>10, HandlerKeeps

\* The room check, the stores and the count, finding no room, the store over the
\* counter, and the end of the thread.
LEMMA EntryType ==
  ASSUME TypeInv, NEW c \in Client, Stored(c) \/ Overruns(c) \/ NoRoom(c) \/ Hangup(c)
  PROVE  TypeInv'
<1>1. TypeOK /\ WritesOK /\ handler \in [Client -> Handlers]
  BY Stages DEF TypeInv, TypeOK, WritesOK
<1>2. UNCHANGED <<target, pending, held, lost, noticed, reported, missed, prog, op, wants, number,
                  request, in, serving, spoiled>>
  BY DEF Stored, Check, Address, Path, Store, Enter, Overruns, NoRoom, CheckFull, Hangup, client, given,
     session, writes, crosses
<1>3. /\ handler' \in [Client -> Handlers]
      /\ \A d \in Client \ {c} : handler'[d] = handler[d]
      /\ handler'[c] \in AtWrite => handler[c] \in AtWrite
      /\ handler'[c] \in Storing => handler[c] \in Storing \/ Check(c)
  BY <1>1, Stages DEF Stored, Check, Address, Path, Store, Enter, Overruns, Overrun, NoRoom, CheckFull, Hangup, Handlers
<1>4. /\ MaxEntries \in Nat \ {0} /\ IsFiniteSet(Client) /\ Cardinality(Client) \in Nat
      /\ write_client_count \in Nat
  BY <1>1, Basics
<1>5. write_clients' \in [Places -> WriteEntry]
  <2>1. CASE Address(c) \/ Path(c)
    <3>1. PICK e : write_clients' = [write_clients EXCEPT ![write_client_count + 1] = e]
                    /\ (e = [Fresh EXCEPT !.server = Recorded[target[c]]] \/ e =
                        [Fresh EXCEPT !.file = target[c], !.status = 0, !.active = TRUE])
      BY <2>1 DEF Address, Path, Store
    <3>2. target[c] \in File /\ Recorded[target[c]] \in File
      BY <2>1, EntriesAssumption, Stages DEF Address, Path, Store, TypeInv, Targeted
    <3>3. CASE write_client_count + 1 \in Places
      <4>1. write_clients[write_client_count + 1] \in WriteEntry
        BY <1>1, <3>3 DEF WritesOK
      <4>2. e \in WriteEntry
        <5>1. \A w \in WriteEntry, g \in File : [w EXCEPT !.server = g] \in WriteEntry
          BY DEF WriteEntry
        <5>2. \A w \in WriteEntry, g \in File : [w EXCEPT !.file = g] \in WriteEntry
          BY DEF WriteEntry
        <5>3. \A w \in WriteEntry : [w EXCEPT !.status = 0] \in WriteEntry
          BY DEF WriteEntry
        <5>4. \A w \in WriteEntry : [w EXCEPT !.active = TRUE] \in WriteEntry
          BY DEF WriteEntry
        <5> HIDE DEF WriteEntry
        <5> DEFINE w == write_clients[write_client_count + 1]
        <5>5. [w EXCEPT !.server = Recorded[target[c]]] \in WriteEntry
          BY <3>2, <4>1, <5>1
        <5>6. [w EXCEPT !.file = target[c], !.status = 0, !.active = TRUE] \in WriteEntry
          <6>1. [w EXCEPT !.file = target[c]] \in WriteEntry
            BY <3>2, <4>1, <5>2
          <6>2. [w EXCEPT !.file = target[c], !.status = 0] \in WriteEntry
            BY <5>3, <6>1
          <6> QED BY <5>4, <6>2
        <5> QED BY <3>1, <5>5, <5>6 DEF Fresh
      <4>3. write_clients \in [Places -> WriteEntry]
        BY <1>1 DEF WritesOK
      <4> HIDE DEF WriteEntry, Places
      <4>4. write_clients' = [write_clients EXCEPT ![write_client_count + 1] = e]
        BY <3>1
      <4> QED BY <3>3, <4>2, <4>3, <4>4
    <3>4. CASE write_client_count + 1 \notin Places
      BY <1>1, <3>1, <3>4 DEF WritesOK
    <3> QED BY <3>3, <3>4
  <2>2. CASE UNCHANGED write_clients
    BY <1>1, <2>2 DEF WritesOK
  <2> QED BY <2>1, <2>2 DEF Stored, Check, Enter, Overruns, NoRoom, CheckFull, Hangup, writes, entries
<1>6. RoomLeft' /\ write_client_count' \in Nat
  <2>1. CASE Check(c)
    <3>1. write_client_count' = write_client_count /\ write_client_count < MaxEntries
      BY <2>1 DEF Check, writes, entries
    <3>2. IsFiniteSet(Counting') /\ Cardinality(Counting') <= Cardinality(Client)
      <4>1. Counting' \in SUBSET Client
        BY DEF Counting
      <4> QED BY <1>4, <4>1, FS_Subset
    <3>3. Cardinality(Counting') \in Nat
      BY <3>2, FS_CardinalityType
    <3> QED BY <1>4, <3>1, <3>2, <3>3 DEF RoomLeft
  <2>2. CASE Enter(c)
    <3>1. write_client_count' = write_client_count + 1 /\ Counting' = Counting \ {c} /\ c \in Counting
      <4>1. handler[c] = "enter" /\ handler' = [handler EXCEPT ![c] = "poll"]
        BY <2>2 DEF Enter
      <4>2. handler[c] \in Storing /\ handler'[c] \notin Storing
        BY <1>1, <4>1, Stages
      <4> QED BY <1>3, <2>2, <4>2 DEF Enter, Counting
    <3>2. IsFiniteSet(Counting)
      <4>1. Counting \in SUBSET Client
        BY DEF Counting
      <4> QED BY <1>4, <4>1, FS_Subset
    <3>3. Cardinality(Counting) \in Nat /\ Cardinality(Counting') = Cardinality(Counting) - 1
      BY <3>1, <3>2, FS_CardinalityType, FS_RemoveElement
    <3>4. write_client_count + Cardinality(Counting) < MaxEntries + Cardinality(Client)
      BY DEF TypeInv, RoomLeft
    <3> QED BY <1>4, <3>1, <3>3, <3>4 DEF RoomLeft
  <2>3. CASE ~Check(c) /\ ~Enter(c)
    <3>1. write_client_count' = write_client_count /\ Counting' \subseteq Counting
      BY <1>3, <2>3 DEF Stored, Address, Path, Store, Overruns, NoRoom, CheckFull, Hangup, writes, entries, Counting
    <3> QED BY <1>4, <3>1, RoomStays
  <2> QED BY <2>1, <2>2, <2>3
<1>7. silent' \in [Client -> Nat]
  <2>1. silent' = silent \/ silent' = [silent EXCEPT ![c] = serving[c]]
    BY DEF Stored, Overruns, NoRoom, Hangup, session
  <2> QED BY <1>1, <2>1 DEF TypeOK
<1>8. Len(in'[c]) + Due(c)' <= Len(in[c]) + Due(c) /\ Due(c)' <= Due(c)
  <2>1. request' = request /\ in' = in
    BY <1>2
  <2>2. Due(c)' <= Due(c) /\ Due(c)' \in 0..3 /\ Due(c) \in 0..3
    BY <1>3, <2>1 DEF Due
  <2>3. Len(in[c]) \in Nat
    BY <1>1, Basics
  <2> QED BY <2>1, <2>2, <2>3
<1>9. /\ in' \in [Client -> Seq(Pieces)] /\ request' \in [Client -> Nat]
      /\ serving' \in [Client -> Nat] /\ reported' \subseteq Client /\ missed' \subseteq Client
      /\ spoiled' \subseteq Client /\ target' \in [Client -> File \cup {NoFile}]
  BY <1>1, <1>2 DEF TypeOK, WritesOK, Pieces
<1>10. Targeted'
  BY <1>2, <1>3 DEF TypeInv, Targeted
<1>11. crossed' \subseteq Client /\ down' \in BOOLEAN
  <2>1. crossed' = crossed \/ crossed' = crossed \cup Beside(c)
    BY DEF Stored, Check, Address, Path, Store, Enter, Overruns, NoRoom, CheckFull, Hangup, writes, crosses
  <2>2. down' = down \/ down' = TRUE
    BY DEF Stored, Overruns, NoRoom, Hangup, session
  <2> QED BY <1>1, <2>1, <2>2 DEF TypeOK, WritesOK, Beside
<1> HIDE DEF Pieces
<1> QED BY <1>2, <1>3, <1>5, <1>6, <1>7, <1>8, <1>9, <1>10, <1>11, HandlerKeeps

\* A storage server reports, is lost, or is found to be.
LEMMA StorageType ==
  ASSUME TypeInv, NEW f \in Server, Storage(f) \/ (Lose(f) /\ UNCHANGED <<client, session>>)
  PROVE  TypeInv'
<1>1. TypeOK /\ WritesOK /\ f \in File
  <2>1. TypeOK /\ WritesOK
    BY DEF TypeInv, TypeOK
  <2>2. f \in File
    BY EntriesAssumption DEF Server
  <2> QED BY <2>1, <2>2
<1>2. UNCHANGED <<write_client_count, handler, target, crossed, prog, op, wants, number, request,
                  in, serving, down, spoiled, silent>>
  BY DEF Storage, Report, Notice, Lose, client, given, session, entries, crosses
<1>3. write_clients' \in [Places -> WriteEntry]
  <2>1. CASE \E c \in Client : Report(c, f)
    <3>1. Credit(f)
      BY <2>1 DEF Report
    <3>2. PICK T : write_clients' = [i \in DOMAIN write_clients |->
            IF i \in T THEN [write_clients[i] EXCEPT !.status = 1] ELSE write_clients[i]]
      BY <3>1, EntriesAre, Zenon
    <3>3. \E v \in 0..2 : write_clients' = [i \in DOMAIN write_clients |->
            IF i \in T THEN [write_clients[i] EXCEPT !.status = v] ELSE write_clients[i]]
      <4>1. 1 \in 0..2
        OBVIOUS
      <4> QED BY <3>2, <4>1, Zenon
    <3> QED BY <1>1, <3>3, EntriesStay, Zenon
  <2>2. CASE Notice(f)
    <3>1. PICK T : write_clients' = [i \in DOMAIN write_clients |->
            IF i \in T THEN [write_clients[i] EXCEPT !.status = 2] ELSE write_clients[i]]
      BY <2>2, EntriesAre, Zenon
    <3>2. \E v \in 0..2 : write_clients' = [i \in DOMAIN write_clients |->
            IF i \in T THEN [write_clients[i] EXCEPT !.status = v] ELSE write_clients[i]]
      <4>1. 2 \in 0..2
        OBVIOUS
      <4> QED BY <3>1, <4>1, Zenon
    <3> QED BY <1>1, <3>2, EntriesStay, Zenon
  <2>3. CASE Lose(f)
    BY <1>1, <2>3 DEF Lose, entries, WritesOK
  <2> QED BY <2>1, <2>2, <2>3 DEF Storage
<1>4. /\ pending' \subseteq Client \X File /\ lost' \subseteq File /\ noticed' \subseteq lost'
      /\ held' \subseteq Client \X File /\ reported' \subseteq Client /\ missed' \subseteq Client
  BY <1>1 DEF Storage, Report, Notice, Lose, WritesOK, crosses
<1>5. TypeOK'
  BY <1>1, <1>2, <1>3, <1>4 DEF TypeOK, WritesOK
<1>6. RoomLeft'
  BY <1>2 DEF TypeInv, RoomLeft, Counting
<1>7. DueFits' /\ Targeted'
  BY <1>2 DEF TypeInv, DueFits, Due, Targeted
<1> QED BY <1>5, <1>6, <1>7 DEF TypeInv

LEMMA TypeHolds == Spec => []TypeInv
<1>1. TypeInv /\ [Next]_vars => TypeInv'
  <2> SUFFICES ASSUME TypeInv, [Next]_vars PROVE TypeInv'
    OBVIOUS
  <2>1. CASE UNCHANGED vars
    BY <2>1 DEF vars, writes, entries, crosses, client, given, session, TypeInv, TypeOK, WritesOK, RoomLeft,
      Counting, DueFits, Due, Targeted
  <2>2. ASSUME NEW c \in Client, Handler(c) PROVE TypeInv'
    BY <2>2, ServeType, PollType, EntryType DEF Handler
  <2>3. ASSUME NEW c \in Client, Program(c) \/ Quit(c) \/ \E o \in Asks[c] : Ask(c, o) PROVE TypeInv'
    BY <2>3, ProgramType, AskType, SessionAssumption
  <2> QED BY <2>1, <2>2, <2>3, StorageType DEF Next
<1> QED BY InitType, <1>1, PTL DEF Spec

\* Everything keeps its type; a connection holds at most two pieces for each
\* command, and Room besides (naming_server.c:389-393 sends "Write failed" on and
\* on, and send blocks), and the counter of entries leaves its array by no more
\* than there are clients (naming_server.c:377-387).
THEOREM TypeCorrect == Spec => []TypeOK
<1>1. TypeInv => TypeOK
  BY DEF TypeInv
<1> QED BY TypeHolds, <1>1, PTL

-----------------------------------------------------------------------------
(* Who is told of the end of a write.                                      *)

\* Of a WRITE that no other got in the way of: none of the same path goes on; there
\* is room for its entry; the entry it is about to count is fresh and names its
\* path, and so does the last one, which it polls, and that has been credited only
\* with its own report.
Alone(c)  == \A d \in Client \ {c} : <<d, target[c]>> \notin pending \cup held
Roomy(c)  == handler[c] \in Storing => write_client_count < MaxEntries
Counts(c) == handler[c] = "enter" =>
               LET e == write_clients[write_client_count + 1]
               IN  e.file = target[c] /\ e.status = 0
Polls(c)  == handler[c] = "poll" =>
               /\ write_client_count \in 1..MaxEntries
               /\ Last.file = target[c]
               /\ Last.status = 1 => c \in reported
OwnOf(c)  == handler[c] \in AtWrite => Alone(c) /\ Roomy(c) /\ Counts(c) /\ Polls(c)

OwnInv == \A c \in Client \ crossed : OwnOf(c)

\* A step that begins nothing, stores nothing and credits nothing.
LEMMA OwnStays ==
  ASSUME TypeInv, OwnInv, crossed \subseteq crossed', write_client_count' = write_client_count,
         \A i \in Places : /\ write_clients'[i].status = write_clients[i].status
                           /\ write_clients'[i].file = write_clients[i].file,
         \A c \in Client : handler'[c] \in AtWrite =>
            handler'[c] = handler[c] /\ target'[c] = target[c],
         \A c \in Client, f \in File : <<c, f>> \in (pending \cup held)' =>
            <<c, f>> \in pending \cup held \/ \A d \in Client \ {c} :
               d \in crossed' \/ target[d] # f \/ handler[d] \notin AtWrite,
         reported \subseteq reported'
  PROVE  OwnInv'
<1> SUFFICES ASSUME NEW c \in Client, c \notin crossed', handler'[c] \in AtWrite
             PROVE  Alone(c)' /\ Roomy(c)' /\ Counts(c)' /\ Polls(c)'
  BY DEF OwnInv, OwnOf
<1>1. handler'[c] = handler[c] /\ target'[c] = target[c] /\ target[c] \in File
  BY DEF TypeInv, Targeted
<1>2. Alone(c) /\ Roomy(c) /\ Counts(c) /\ Polls(c)
  BY <1>1 DEF OwnInv, OwnOf
<1>3. Alone(c)'
  BY <1>1, <1>2 DEF Alone
<1>4. /\ MaxEntries \in Nat \ {0} /\ Cardinality(Client) \in Nat \ {0} /\ write_client_count \in Nat
      /\ 1..MaxEntries \subseteq Places
  <2>1. MaxEntries \in Nat \ {0} /\ Cardinality(Client) \in Nat /\ write_client_count \in Nat
    BY Basics DEF TypeInv
  <2>2. Cardinality(Client) # 0
    BY <2>1, Basics, FS_EmptySet DEF TypeInv
  <2> QED BY <2>1, <2>2 DEF Places
<1>5. Roomy(c)'
  BY <1>1, <1>2 DEF Roomy
<1>6. Counts(c)'
  <2> SUFFICES ASSUME handler[c] = "enter"
               PROVE  /\ write_clients'[write_client_count + 1].file = target[c]
                      /\ write_clients'[write_client_count + 1].status = 0
    BY <1>1 DEF Counts
  <2>1. write_client_count + 1 \in Places
    BY <1>2, <1>4, Stages DEF Roomy
  <2> QED BY <1>2, <2>1 DEF Counts
<1>7. Polls(c)'
  <2> SUFFICES ASSUME handler[c] = "poll"
               PROVE  /\ write_client_count \in 1..MaxEntries
                      /\ write_clients'[write_client_count].file = target[c]
                      /\ write_clients'[write_client_count].status = 1 => c \in reported'
    BY <1>1 DEF Polls, Last
  <2>1. write_client_count \in 1..MaxEntries /\ write_client_count \in Places
    BY <1>2, <1>4 DEF Polls
  <2> QED BY <1>2, <2>1 DEF Polls, Last
<1> QED BY <1>3, <1>5, <1>6, <1>7

\* A WRITE begins; one of the same path that still goes on is in its way.
LEMMA OwnBegin ==
  ASSUME TypeInv, OwnInv, NEW c \in Client, NEW f \in File, Begin(c, f), handler[c] = "read"
  PROVE  OwnInv'
<1>1. /\ UNCHANGED <<write_clients, write_client_count, pending, held>>
      /\ handler' = [handler EXCEPT ![c] = "check"] /\ target' = [target EXCEPT ![c] = f]
      /\ reported' = reported \ {c}
      /\ crossed \ {c} \subseteq crossed'
      /\ c \notin crossed' => \A d \in Client : <<d, f>> \notin pending \cup held
  BY DEF Begin, entries
<1>2. /\ handler'[c] = "check" /\ target'[c] = f
      /\ \A d \in Client \ {c} : handler'[d] = handler[d] /\ target'[d] = target[d]
  BY <1>1 DEF TypeInv, TypeOK, WritesOK
<1>3. ASSUME NEW d \in Client \ {c}, d \notin crossed' PROVE OwnOf(d)'
  <2>1. OwnOf(d)
    BY <1>1, <1>3 DEF OwnInv
  <2> QED BY <1>1, <1>2, <2>1 DEF OwnOf, Alone, Roomy, Counts, Polls, Last
<1>4. ASSUME c \notin crossed' PROVE OwnOf(c)'
  <2>1. Alone(c)'
    BY <1>1, <1>2, <1>4 DEF Alone
  <2>2. handler'[c] \notin Storing /\ handler'[c] # "enter" /\ handler'[c] # "poll"
    BY <1>2, Stages
  <2> QED BY <2>1, <2>2 DEF OwnOf, Roomy, Counts, Polls
<1> QED BY <1>3, <1>4 DEF OwnInv

\* Whoever stores or counts is in the way of every other WRITE.
LEMMA OwnStored ==
  ASSUME TypeInv, OwnInv, NEW c \in Client, Check(c) \/ Address(c) \/ Path(c) \/ Enter(c)
  PROVE  OwnInv'
<1>1. /\ UNCHANGED <<target, pending, held, reported>> /\ crossed \subseteq crossed'
      /\ handler \in [Client -> Handlers] /\ \A d \in Client \ {c} : handler'[d] = handler[d]
      /\ write_clients \in [Places -> WriteEntry]
      /\ MaxEntries \in Nat \ {0} /\ Cardinality(Client) \in Nat /\ write_client_count \in Nat
  BY Basics, Stages DEF Check, Address, Path, Store, Enter, writes, crosses, TypeInv, TypeOK, WritesOK
<1>2. ASSUME NEW d \in Client \ {c}, d \notin crossed' PROVE OwnOf(d)'
  <2>1. CASE Check(c)
    <3>1. OwnOf(d)
      BY <1>1, <1>2 DEF OwnInv
    <3>2. UNCHANGED <<write_clients, write_client_count>>
      BY <2>1 DEF Check, writes, entries
    <3> QED BY <1>1, <3>1, <3>2 DEF OwnOf, Alone, Roomy, Counts, Polls, Last
  <2>2. CASE Address(c) \/ Path(c) \/ Enter(c)
    <3>1. crossed' = crossed \cup Beside(c)
      BY <2>2 DEF Address, Path, Store, Enter
    <3>2. handler[d] \notin AtWrite
      BY <1>2, <3>1 DEF Beside
    <3> QED BY <1>1, <3>2 DEF OwnOf
  <2> QED BY <2>1, <2>2
<1>3. ASSUME c \notin crossed' PROVE OwnOf(c)'
  <2>1. OwnOf(c) /\ handler[c] \in AtWrite
    BY <1>1, <1>3, Stages DEF OwnInv, Check, Address, Path, Store, Enter
  <2>2. Alone(c)'
    BY <1>1, <2>1 DEF OwnOf, Alone
  <2>3. CASE Check(c)
    <3>1. handler'[c] = "address" /\ write_client_count' < MaxEntries
      BY <1>1, <2>3 DEF Check, writes, entries
    <3> QED BY <2>2, <3>1 DEF OwnOf, Roomy, Counts, Polls
  <2>4. CASE Address(c)
    <3>1. handler[c] = "address" /\ handler'[c] = "path" /\ write_client_count' = write_client_count
      BY <1>1, <2>4 DEF Address, Store
    <3>2. write_client_count < MaxEntries
      BY <2>1, <3>1, Stages DEF OwnOf, Roomy
    <3> QED BY <2>2, <3>1, <3>2 DEF OwnOf, Roomy, Counts, Polls
  <2>5. CASE Path(c)
    <3>1. /\ handler[c] = "path" /\ handler'[c] = "enter" /\ write_client_count' = write_client_count
          /\ write_clients' = [write_clients EXCEPT ![write_client_count + 1] =
               [Fresh EXCEPT !.file = target[c], !.status = 0, !.active = TRUE]]
      BY <1>1, <2>5 DEF Path, Store
    <3>2. write_client_count < MaxEntries
      BY <2>1, <3>1, Stages DEF OwnOf, Roomy
    <3>3. write_client_count + 1 \in Places
      BY <1>1, <3>2 DEF Places
    <3>4. write_clients'[write_client_count + 1] =
            [Fresh EXCEPT !.file = target[c], !.status = 0, !.active = TRUE]
      BY <1>1, <3>1, <3>3
    <3>5. Fresh \in WriteEntry
      BY <1>1, <3>3 DEF Fresh
    <3>6. /\ write_clients'[write_client_count + 1].file = target[c]
          /\ write_clients'[write_client_count + 1].status = 0
      BY <3>4, <3>5 DEF WriteEntry
    <3> QED BY <1>1, <2>2, <3>1, <3>2, <3>6 DEF OwnOf, Roomy, Counts, Polls
  <2>6. CASE Enter(c)
    <3>1. /\ handler[c] = "enter" /\ handler'[c] = "poll" /\ write_clients' = write_clients
          /\ write_client_count' = write_client_count + 1
      BY <1>1, <2>6 DEF Enter, entries
    <3>2. /\ write_client_count < MaxEntries
          /\ write_clients[write_client_count + 1].file = target[c]
          /\ write_clients[write_client_count + 1].status = 0
      BY <2>1, <3>1, Stages DEF OwnOf, Roomy, Counts
    <3>3. Polls(c)'
      BY <1>1, <3>1, <3>2 DEF Polls, Last
    <3>4. handler'[c] \notin Storing /\ handler'[c] # "enter"
      BY <3>1, Stages
    <3> QED BY <2>2, <3>3, <3>4 DEF OwnOf, Roomy, Counts
  <2> QED BY <2>3, <2>4, <2>5, <2>6
<1> QED BY <1>2, <1>3 DEF OwnInv

\* What a storage server's thread does to the entries: it touches those that are
\* counted, keeps their paths, and sets status 1 only for a report of that path.
LEMMA StatusSays ==
  ASSUME TypeInv, NEW f
  PROVE  /\ Credit(f) => \A i \in Places :
              /\ write_clients'[i].file = write_clients[i].file
              /\ \/ write_clients'[i].status = write_clients[i].status
                 \/ i <= write_client_count /\ write_clients[i].file = f
         /\ Notice(f) => \A i \in Places :
              /\ write_clients'[i].file = write_clients[i].file
              /\ \/ write_clients'[i].status = write_clients[i].status
                 \/ i <= write_client_count /\ write_clients'[i].status = 2
<1>1. write_clients \in [Places -> WriteEntry] /\ DOMAIN write_clients = Places
  BY DEF TypeInv, TypeOK, WritesOK
<1>2. \A e \in WriteEntry, v \in 0..2 :
        [e EXCEPT !.status = v].status = v /\ [e EXCEPT !.status = v].file = e.file
  BY DEF WriteEntry
<1>3. ASSUME Credit(f), NEW i \in Places
      PROVE  /\ write_clients'[i].file = write_clients[i].file
             /\ \/ write_clients'[i].status = write_clients[i].status
                \/ i <= write_client_count /\ write_clients[i].file = f
  <2>1. CASE i \in Open(f) /\ \A j \in Open(f) : i <= j
    <3>1. write_clients'[i] = [write_clients[i] EXCEPT !.status = 1]
      BY <1>1, <1>3, <2>1 DEF Credit
    <3> QED BY <1>1, <1>2, <2>1, <3>1 DEF Open, Made
  <2>2. CASE ~(i \in Open(f) /\ \A j \in Open(f) : i <= j)
    BY <1>1, <1>3, <2>2 DEF Credit
  <2> QED BY <2>1, <2>2
<1>4. ASSUME Notice(f), NEW i \in Places
      PROVE  /\ write_clients'[i].file = write_clients[i].file
             /\ \/ write_clients'[i].status = write_clients[i].status
                \/ i <= write_client_count /\ write_clients'[i].status = 2
  <2>1. CASE i \in Made /\ write_clients[i].server = f /\ write_clients[i].active
    <3>1. write_clients'[i] = [write_clients[i] EXCEPT !.status = 2]
      BY <1>1, <1>4, <2>1 DEF Notice
    <3> QED BY <1>1, <1>2, <2>1, <3>1 DEF Made
  <2>2. CASE ~(i \in Made /\ write_clients[i].server = f /\ write_clients[i].active)
    BY <1>1, <1>4, <2>2 DEF Notice
  <2> QED BY <2>1, <2>2
<1> QED BY <1>3, <1>4

LEMMA OwnStorage ==
  ASSUME TypeInv, OwnInv, NEW f \in File, (\E d \in Client : Report(d, f)) \/ Notice(f)
  PROVE  OwnInv'
<1>1. /\ UNCHANGED <<crossed, handler, target, held, write_client_count>>
      /\ pending' \subseteq pending /\ reported \subseteq reported'
  BY DEF Report, Notice, crosses
<1> SUFFICES ASSUME NEW c \in Client, c \notin crossed, handler[c] \in AtWrite
             PROVE  Alone(c)' /\ Roomy(c)' /\ Counts(c)' /\ Polls(c)'
  BY <1>1 DEF OwnInv, OwnOf
<1>2. Alone(c) /\ Roomy(c) /\ Counts(c) /\ Polls(c)
  BY DEF OwnInv, OwnOf
<1>3. Alone(c)' /\ Roomy(c)'
  BY <1>1, <1>2 DEF Alone, Roomy
<1>4. MaxEntries \in Nat \ {0} /\ Cardinality(Client) \in Nat /\ write_client_count \in Nat
  BY Basics DEF TypeInv
<1>5. Credit(f) \/ Notice(f)
  BY DEF Report
<1>6. Counts(c)'
  <2> SUFFICES ASSUME handler[c] = "enter"
               PROVE  /\ write_clients'[write_client_count + 1].file = target[c]
                      /\ write_clients'[write_client_count + 1].status = 0
    BY <1>1 DEF Counts
  <2>1. write_client_count + 1 \in Places /\ ~(write_client_count + 1 <= write_client_count)
    BY <1>2, <1>4, Stages DEF Roomy, Places
  <2>2. /\ write_clients[write_client_count + 1].file = target[c]
        /\ write_clients[write_client_count + 1].status = 0
    BY <1>2 DEF Counts
  <2> DEFINE i == write_client_count + 1
  <2> HIDE DEF i
  <2>3. i \in Places /\ ~(i <= write_client_count)
    BY <2>1 DEF i
  <2>4. write_clients'[i].file = write_clients[i].file /\ write_clients'[i].status = write_clients[i].status
    BY <1>5, <2>3, StatusSays
  <2> QED BY <2>2, <2>4 DEF i
<1>7. Polls(c)'
  <2> SUFFICES ASSUME handler[c] = "poll"
               PROVE  /\ write_client_count \in 1..MaxEntries
                      /\ write_clients'[write_client_count].file = target[c]
                      /\ write_clients'[write_client_count].status = 1 => c \in reported'
    BY <1>1 DEF Polls, Last
  <2>1. /\ write_client_count \in 1..MaxEntries
        /\ write_clients[write_client_count].file = target[c]
        /\ write_clients[write_client_count].status = 1 => c \in reported
    BY <1>2 DEF Polls, Last
  <2>2. write_client_count \in Places
    BY <1>4, <2>1 DEF Places
  <2>3. write_clients'[write_client_count].file = target[c]
    BY <1>5, <2>1, <2>2, StatusSays
  <2>4. CASE Notice(f)
    <3>1. \/ write_clients'[write_client_count].status = write_clients[write_client_count].status
          \/ write_clients'[write_client_count].status = 2
      BY <2>2, <2>4, StatusSays
    <3> QED BY <1>1, <2>1, <2>3, <3>1
  <2>5. ASSUME NEW d \in Client, Report(d, f), write_clients'[write_client_count].status = 1
        PROVE  c \in reported'
    <3>1. CASE d = c
      BY <2>5, <3>1 DEF Report
    <3>2. CASE d # c
      <4>1. <<d, f>> \in pending
        BY <2>5 DEF Report
      <4>2. f # target[c]
        BY <1>2, <3>2, <4>1 DEF Alone
      <4>3. write_clients'[write_client_count].status = write_clients[write_client_count].status
        BY <2>1, <2>2, <2>5, <4>2, StatusSays DEF Report
      <4> QED BY <1>1, <2>1, <2>5, <4>3
    <3> QED BY <3>1, <3>2
  <2> QED BY <2>1, <2>3, <2>4, <2>5
<1> QED BY <1>3, <1>6, <1>7

\* The client gives its data, or hangs up, or takes something else.
LEMMA OwnProgram ==
  ASSUME TypeInv, OwnInv, NEW c \in Client, Program(c) \/ Quit(c) PROVE OwnInv'
<1>1. /\ UNCHANGED <<entries, target, reported, handler>>
      /\ \/ UNCHANGED <<pending, held, crossed>>
         \/ \E f \in File, data \in BOOLEAN : TakeAddress(c) /\ Give(c, f, data)
         \/ Release(c)
  BY ProgramSays
<1>2. CASE UNCHANGED <<pending, held, crossed>>
  BY <1>1, <1>2, OwnStays DEF entries
<1>3. ASSUME NEW f \in File, NEW data \in BOOLEAN, Give(c, f, data) PROVE OwnInv'
  <2>1. /\ (pending \cup held)' = pending \cup held \cup {<<c, f>>}
        /\ crossed' = crossed \cup {d \in Client \ {c} : handler[d] \in AtWrite /\ target[d] = f}
    BY <1>3 DEF Give
  <2>2. ASSUME NEW d \in Client, NEW g \in File, <<d, g>> \in (pending \cup held)',
               <<d, g>> \notin pending \cup held, NEW e \in Client \ {d}
        PROVE  e \in crossed' \/ target[e] # g \/ handler[e] \notin AtWrite
    BY <2>1, <2>2
  <2>3. crossed \subseteq crossed'
    BY <2>1
  <2> QED BY <1>1, <2>2, <2>3, OwnStays DEF entries
<1>4. CASE Release(c)
  <2>1. (pending \cup held)' = pending \cup held /\ crossed' = crossed
    BY <1>4 DEF Release, crosses
  <2> QED BY <1>1, <2>1, OwnStays DEF entries
<1> QED BY <1>1, <1>2, <1>3, <1>4

\* The other steps.
LEMMA OwnElse ==
  ASSUME TypeInv, OwnInv, NEW c \in Client,
         \/ Serve(c) \/ (ServeWrite(c) /\ UNCHANGED <<handler, writes>>)
         \/ Completed(c) \/ Failed(c) \/ Overruns(c) \/ NoRoom(c) \/ Hangup(c)
         \/ \E o \in Ops : Ask(c, o)
  PROVE  OwnInv'
<1>1. handler \in [Client -> Handlers] /\ write_clients \in [Places -> WriteEntry]
  BY Stages DEF TypeInv, TypeOK, WritesOK
<1>2. UNCHANGED <<crossed, target, write_client_count, pending, held, reported>>
  BY DEF Serve, ServeWrite, Completed, PollCompleted, Failed, PollFailed, Overruns, NoRoom, CheckFull,
     Hangup, Ask, writes, entries, crosses
<1>3. ASSUME NEW i \in Places
      PROVE  /\ write_clients'[i].status = write_clients[i].status
             /\ write_clients'[i].file = write_clients[i].file
  <2>1. CASE Completed(c)
    <3>1. \A e \in WriteEntry : [e EXCEPT !.active = FALSE].status = e.status
                                 /\ [e EXCEPT !.active = FALSE].file = e.file
      BY DEF WriteEntry
    <3> QED BY <1>1, <2>1, <3>1 DEF Completed, PollCompleted
  <2> QED BY <2>1 DEF Serve, ServeWrite, Failed, PollFailed, Overruns, NoRoom, CheckFull, Hangup, Ask, writes, entries
<1>4. ASSUME NEW d \in Client, handler'[d] \in AtWrite PROVE handler'[d] = handler[d]
  BY <1>1, <1>4, Stages DEF Serve, ServeWrite, Completed, PollCompleted, Failed, PollFailed, Overruns, NoRoom,
     CheckFull, Hangup, Ask
<1> QED BY <1>2, <1>3, <1>4, OwnStays

LEMMA OwnHolds == Spec => [](TypeInv /\ OwnInv)
<1>1. Init => OwnInv
  BY Stages DEF Init, WritesInit, OwnInv, OwnOf
<1>2. TypeInv /\ OwnInv /\ [Next]_vars => OwnInv'
  <2> SUFFICES ASSUME TypeInv, OwnInv, [Next]_vars PROVE OwnInv'
    OBVIOUS
  <2>1. CASE UNCHANGED vars
    <3>1. UNCHANGED <<crossed, target, write_client_count, write_clients, handler, pending, held, reported>>
      BY <2>1 DEF vars, writes, entries, crosses
    <3> QED BY <3>1, OwnStays
  <2>2. ASSUME NEW c \in Client, Handler(c) PROVE OwnInv'
    <3>1. CASE ServeWrite(c)
      <4>1. CASE Begin(c, wants[c])
        <5>1. op[c] = "write" /\ handler[c] = "read" /\ wants[c] \in File
          BY <3>1 DEF ServeWrite, TypeInv, Targeted
        <5> QED BY <4>1, <5>1, OwnBegin
      <4> QED BY <3>1, <4>1, OwnElse DEF ServeWrite
    <3> QED BY <2>2, <3>1, OwnStored, OwnElse DEF Handler, Stored
  <2>3. ASSUME NEW c \in Client, Program(c) \/ Quit(c) \/ \E o \in Asks[c] : Ask(c, o) PROVE OwnInv'
    BY <2>3, OwnProgram, OwnElse, SessionAssumption
  <2>4. ASSUME NEW f \in Server, Lose(f) PROVE OwnInv'
    <3>1. /\ UNCHANGED <<crossed, target, write_client_count, write_clients, handler, reported>>
          /\ pending' \subseteq pending /\ held' \subseteq held
      BY <2>4 DEF Lose, entries, crosses
    <3> QED BY <3>1, OwnStays
  <2>5. Server \subseteq File
    BY EntriesAssumption DEF Server
  <2> QED BY <2>1, <2>2, <2>3, <2>4, <2>5, OwnStorage DEF Next, Storage
<1> QED BY <1>1, <1>2, TypeHolds, PTL DEF Spec

\* A handler that found room at its check still has it when it stores, unless
\* another stored meanwhile, for any number of clients and entries
\* (naming_server.c:379-387).
THEOREM RoomKept == Spec => []RoomIsKept
<1>1. OwnInv => RoomIsKept
  BY Stages DEF OwnInv, OwnOf, Roomy, RoomIsKept
<1> QED BY <1>1, OwnHolds, PTL

\* Only the end of the polling takes a handler from there back to its socket.
LEMMA FinishedIs ==
  ASSUME TypeInv, [Next]_vars, NEW c \in Client, Finished(c) PROVE PollCompleted(c)
<1>1. handler[c] = "poll" /\ handler'[c] = "read" /\ handler'[c] # handler[c]
      /\ handler \in [Client -> Handlers]
  BY Stages DEF Finished, TypeInv, TypeOK, WritesOK
<1>2. ~UNCHANGED handler
  BY <1>1
<1>3. PICK d \in Client : Handler(d)
  <2>1. ASSUME NEW d \in Client, Program(d) \/ Quit(d) PROVE UNCHANGED handler
    BY <2>1, ProgramSays
  <2>2. ASSUME NEW d \in Client, NEW o, Ask(d, o) PROVE UNCHANGED handler
    BY <2>2 DEF Ask
  <2>3. ASSUME NEW f, Storage(f) \/ Lose(f) PROVE UNCHANGED handler
    BY <2>3 DEF Storage, Report, Notice, Lose
  <2> QED BY <1>2, <2>1, <2>2, <2>3 DEF Next, vars
<1>4. CASE Completed(d)
  BY <1>1, <1>4 DEF Completed, PollCompleted
<1>5. CASE ~Completed(d)
  BY <1>1, <1>3, <1>5 DEF Handler, Serve, ServeWrite, Begin, Failed, PollFailed, NoRoom, CheckFull,
     Hangup, Stored, Check, Address, Path, Store, Enter, Overruns
<1> QED BY <1>4, <1>5

\* Whatever other WRITEs are under way, a client is told that its own is over only
\* once its storage server has reported it, unless another handler stored while its
\* own was at work or another write of the same path went on, for any number of
\* clients, files and entries (naming_server.c:379-400, 1434-1439).
THEOREM CompletedOwn == Spec => CompletedIsOwn
<1>1. TypeInv /\ OwnInv /\ [Next]_vars =>
        [\A c \in Client : Finished(c) /\ c \notin crossed => c \in reported]_vars
  <2> SUFFICES ASSUME TypeInv, OwnInv, [Next]_vars, NEW c \in Client, Finished(c), c \notin crossed
               PROVE  c \in reported
    OBVIOUS
  <2>1. PollCompleted(c)
    BY FinishedIs
  <2>2. OwnOf(c) /\ handler[c] = "poll"
    BY DEF OwnInv, Finished
  <2>3. Polls(c) /\ Last.status = 1
    BY <2>1, <2>2, Stages DEF PollCompleted, OwnOf
  <2> QED BY <2>2, <2>3 DEF Polls
<1> QED BY <1>1, OwnHolds, PTL DEF Spec, CompletedIsOwn

-----------------------------------------------------------------------------
(* A client and its handler stay in step.                                  *)

\* Of a client nothing was left over for: while its command is on its way there
\* is nothing for it; what is there is for its last command; the handler of a
\* WRITE is at that command, and has sent its address and no more; and what waits
\* is one piece, or an address and the end of its write.
Turn1(c) == ~down /\ request[c] # 0 =>
              in[c] = <<>> /\ handler[c] = "read" /\ prog[c] \in {"wait", "gone"}
Turn2(c) == in[c] # <<>> =>
              prog[c] # "ready" /\ \A i \in 1..Len(in[c]) : in[c][i].of = number[c]
Turn3(c) == ~down /\ handler[c] \in AtWrite =>
              /\ serving[c] = number[c] /\ op[c] = "write" /\ request[c] = 0 /\ prog[c] # "ready"
              /\ prog[c] = "wait" => Len(in[c]) = 1 /\ Head1(c) = "info"
              /\ prog[c] \in {"told", "blank"} => in[c] = <<>>
Turn4(c) == in[c] # <<>> /\ prog[c] = "wait" =>
              \/ Len(in[c]) = 1
              \/ op[c] = "write" /\ Len(in[c]) = 2 /\ Head1(c) = "info"
InTurn(c) == Turn1(c) /\ Turn2(c) /\ Turn3(c) /\ Turn4(c)

\* Of every client: its command on its way is its last, and its thread ends after it.
Numbered(c) == /\ request[c] # 0 => request[c] = number[c]
               /\ handler[c] = "ended" => prog[c] = "gone"

TurnInv == (\A c \in Client : Numbered(c)) /\ \A c \in Client \ spoiled : InTurn(c)

\* A step of one client, or of its handler, leaves the others alone.
LEMMA TurnStep ==
  ASSUME TypeInv, TurnInv, NEW c \in Client,
         \A d \in Client \ {c} :
           /\ request'[d] = request[d] /\ number'[d] = number[d] /\ in'[d] = in[d]
           /\ handler'[d] = handler[d] /\ prog'[d] = prog[d] /\ serving'[d] = serving[d]
           /\ op'[d] = op[d],
         spoiled \subseteq spoiled', down => down',
         Numbered(c)', c \notin spoiled' => InTurn(c)'
  PROVE  TurnInv'
<1>1. ASSUME NEW d \in Client \ {c} PROVE Numbered(d)'
  BY DEF TurnInv, Numbered
<1>2. ASSUME NEW d \in Client \ {c}, d \notin spoiled' PROVE InTurn(d)'
  <2>1. d \notin spoiled /\ InTurn(d)
    BY <1>2 DEF TurnInv
  <2> QED BY <2>1 DEF InTurn, Turn1, Turn2, Turn3, Turn4, Head1
<1> QED BY <1>1, <1>2 DEF TurnInv

\* A command is given where nothing waits and the handler is at its socket.
LEMMA TurnAsk ==
  ASSUME TypeInv, TurnInv, NEW c \in Client, NEW o \in Ops, Ask(c, o) PROVE TurnInv'
<1>1. /\ prog[c] = "ready" /\ request[c] = 0
      /\ number' = [number EXCEPT ![c] = number[c] + 1]
      /\ request' = [request EXCEPT ![c] = number'[c]]
      /\ prog' = [prog EXCEPT ![c] = "wait"] /\ op' = [op EXCEPT ![c] = o]
      /\ UNCHANGED <<handler, in, serving, down, spoiled>>
  BY DEF Ask, session
<1>2. \A d \in Client \ {c} :
        /\ request'[d] = request[d] /\ number'[d] = number[d] /\ in'[d] = in[d]
        /\ handler'[d] = handler[d] /\ prog'[d] = prog[d] /\ serving'[d] = serving[d]
        /\ op'[d] = op[d]
  BY <1>1 DEF TypeInv, TypeOK
<1>3. request'[c] = number'[c] /\ prog'[c] = "wait"
  BY <1>1 DEF TypeInv, TypeOK
<1>4. handler[c] # "ended" /\ handler[c] \in Handlers
  BY <1>1, Stages DEF TurnInv, Numbered, TypeInv, TypeOK, WritesOK
<1>5. Numbered(c)'
  BY <1>1, <1>3, <1>4 DEF Numbered
<1>6. ASSUME c \notin spoiled' PROVE InTurn(c)'
  <2>1. Turn2(c) /\ Turn3(c)
    BY <1>1, <1>6 DEF TurnInv, InTurn
  <2>2. in[c] = <<>> /\ (~down => handler[c] = "read")
    <3>1. handler[c] \notin AtWrite \/ down
      BY <1>1, <2>1 DEF Turn3
    <3> QED BY <1>1, <1>4, <2>1, <3>1, Stages DEF Turn2, Handlers
  <2> QED BY <1>1, <1>3, <2>2, Stages DEF InTurn, Turn1, Turn2, Turn3, Turn4
<1> QED BY <1>1, <1>2, <1>5, <1>6, TurnStep

\* What a client that is in step takes: everything, or the address alone where
\* the end of its write waits behind.
LEMMA TurnTakes ==
  ASSUME TypeInv, NEW c \in Client, InTurn(c), Take(c)
  PROVE  /\ in[c] # <<>> /\ (down \/ request[c] = 0)
         /\ \/ in'[c] = <<>>
            \/ /\ op[c] = "write" /\ prog[c] = "wait" /\ Len(in[c]) = 2 /\ Head1(c) = "info"
               /\ Len(in'[c]) = 1 /\ in'[c][1].of = number[c]
<1>1. /\ in' \in [Client -> Seq(Pieces)] /\ in[c] # <<>> /\ Len(in[c]) \in Nat \ {0}
      /\ \/ in'[c] = <<>> /\ Len(in'[c]) = 0
         \/ /\ op[c] \in {"lookup", "write"} /\ prog[c] = "wait"
            /\ Len(in'[c]) = Len(in[c]) - 1
            /\ \A i \in 1..Len(in'[c]) : in'[c][i] = in[c][i + 1]
  <2> HIDE DEF Pieces
  <2> QED BY TakeSays DEF TypeInv
<1>2. down \/ request[c] = 0
  BY <1>1 DEF InTurn, Turn1
<1>3. CASE Len(in[c]) = 1
  <2>1. Len(in'[c]) = 0 /\ in'[c] \in Seq(Pieces)
    BY <1>1, <1>3
  <2>2. in'[c] = <<>>
    BY <2>1, EmptySeq
  <2> QED BY <1>1, <1>2, <2>2
<1>4. CASE Len(in[c]) # 1 /\ in'[c] # <<>>
  <2>1. op[c] = "write" /\ prog[c] = "wait" /\ Len(in[c]) = 2 /\ Head1(c) = "info"
    BY <1>1, <1>4 DEF InTurn, Turn4
  <2>2. Len(in'[c]) = 1 /\ in'[c][1] = in[c][2]
    <3>1. Len(in'[c]) = 1 /\ \A i \in 1..Len(in'[c]) : in'[c][i] = in[c][i + 1]
      BY <1>1, <1>4, <2>1
    <3> QED BY <3>1
  <2>3. in[c][2].of = number[c]
    BY <1>1, <2>1 DEF InTurn, Turn2
  <2> QED BY <1>1, <1>2, <2>1, <2>2, <2>3
<1> QED BY <1>1, <1>2, <1>3, <1>4

LEMMA TurnProgram ==
  ASSUME TypeInv, TurnInv, NEW c \in Client, Program(c) \/ Quit(c) PROVE TurnInv'
<1>1. /\ UNCHANGED <<handler, given, serving, down>> /\ spoiled \subseteq spoiled'
      /\ \A d \in Client \ {c} : prog'[d] = prog[d] /\ in'[d] = in[d]
      /\ prog \in [Client -> Progs]
  BY ProgramSays DEF TypeInv, TypeOK, Progs
<1>2. UNCHANGED <<op, number, request>>
  BY <1>1 DEF given
<1>3. \A to : Goes(c, to) => prog'[c] = to
  BY <1>1 DEF Goes
<1>4. prog[c] = "gone" => prog'[c] = "gone"
  BY <1>3 DEF Program, Quit, TakeLookup, TakeAddress, TakeAddressFail, TakeRefusal, TakeText, TakeList, TakeCopy, TakeEnd
<1>5. Numbered(c)'
  BY <1>1, <1>2, <1>4 DEF TurnInv, Numbered
<1>6. ASSUME c \notin spoiled' PROVE InTurn(c)'
  <2>1. InTurn(c)
    BY <1>1, <1>6 DEF TurnInv
  <2>2. Take(c) => /\ in[c] # <<>> /\ (down \/ request[c] = 0)
                   /\ \/ in'[c] = <<>>
                      \/ /\ op[c] = "write" /\ prog[c] = "wait" /\ Len(in[c]) = 2 /\ Head1(c) = "info"
                         /\ Len(in'[c]) = 1 /\ in'[c][1].of = number[c]
    BY <2>1, TurnTakes
  \* Ready or waiting it leaves nothing behind, and the handler is not at its write.
  <2>3. CASE in'[c] = <<>> /\ (down \/ request[c] = 0) /\ (down \/ handler[c] \notin AtWrite)
    BY <1>1, <1>2, <2>3 DEF InTurn, Turn1, Turn2, Turn3, Turn4
  <2>4. CASE TakeLookup(c)
    <3>1. prog[c] = "wait" /\ op[c] = "lookup" /\ Take(c)
      BY <2>4 DEF TakeLookup
    <3> QED BY <2>1, <2>2, <2>3, <3>1 DEF InTurn, Turn3
  <2>12. CASE TakeRefusal(c)
    <3>1. prog[c] = "blank" /\ prog'[c] = "told" /\ in' = in
      BY <1>3, <2>12 DEF TakeRefusal, session
    <3> QED BY <1>1, <1>2, <2>1, <3>1 DEF InTurn, Turn1, Turn2, Turn3, Turn4, Head1
  <2>5. CASE TakeAddress(c) \/ (TakeAddressFail(c) /\ Head1(c) = "info")
    <3>1. Take(c) /\ prog'[c] \in {"told", "blank", "gone"} /\ prog[c] = "wait"
      BY <1>3, <2>5 DEF TakeAddress, TakeAddressFail
    <3>2. Turn1(c)' /\ Turn4(c)'
      BY <1>1, <1>2, <2>2, <3>1 DEF Turn1, Turn4
    <3>3. Turn2(c)'
      <4>1. in'[c] # <<>> => \A i \in 1..Len(in'[c]) : in'[c][i].of = number[c]
        BY <2>2, <3>1
      <4> QED BY <1>2, <3>1, <4>1 DEF Turn2
    <3>4. Turn3(c)'
      <4> SUFFICES ASSUME ~down, handler[c] \in AtWrite PROVE Turn3(c)'
        BY <1>1 DEF Turn3
      <4>1. serving[c] = number[c] /\ op[c] = "write" /\ request[c] = 0 /\ Len(in[c]) = 1
        BY <2>1, <3>1 DEF InTurn, Turn3
      <4>2. in'[c] = <<>>
        BY <2>2, <3>1, <4>1
      <4> QED BY <1>1, <1>2, <3>1, <4>1, <4>2 DEF Turn3
    <3> QED BY <3>2, <3>3, <3>4 DEF InTurn
  <2>6. CASE TakeAddressFail(c) /\ Head1(c) # "info"
    <3>1. prog[c] = "wait" /\ Take(c)
      BY <2>6 DEF TakeAddressFail
    <3> QED BY <2>1, <2>2, <2>3, <2>6, <3>1 DEF InTurn, Turn3
  <2>7. CASE TakeText(c)
    <3>1. ((prog[c] = "wait" /\ op[c] = "change") \/ prog[c] = "told") /\ Take(c)
      BY <2>7 DEF TakeText
    <3> QED BY <2>1, <2>2, <2>3, <3>1 DEF InTurn, Turn3
  <2>8. CASE TakeList(c)
    <3>1. prog[c] = "wait" /\ op[c] = "list" /\ Take(c)
      BY <2>8 DEF TakeList
    <3> QED BY <2>1, <2>2, <2>3, <3>1 DEF InTurn, Turn3
  <2>9. CASE TakeCopy(c)
    <3>1. prog[c] = "wait" /\ op[c] = "copy" /\ Take(c)
      BY <1>6, <2>9 DEF TakeCopy
    <3> QED BY <2>1, <2>2, <2>3, <3>1 DEF InTurn, Turn3
  <2>10. CASE TakeEnd(c)
    BY <1>1, <2>3, <2>10 DEF TakeEnd, session
  <2>11. CASE Quit(c)
    <3>1. in'[c] = <<>> /\ prog'[c] = "gone"
      BY <1>3, <2>11 DEF Quit, TypeInv, TypeOK
    <3> QED BY <1>1, <1>2, <2>1, <3>1 DEF InTurn, Turn1, Turn2, Turn3, Turn4
  <2> QED BY <2>4, <2>5, <2>6, <2>7, <2>8, <2>9, <2>10, <2>11, <2>12 DEF Program
<1> QED BY <1>1, <1>2, <1>5, <1>6, TurnStep

\* The handler takes the command and sends its answer, for that command.
LEMMA TurnServe ==
  ASSUME TypeInv, TurnInv, ~down, NEW c \in Client, Serve(c) \/ ServeWrite(c) PROVE TurnInv'
<1>1. /\ handler[c] = "read" /\ request[c] # 0
      /\ request' = [request EXCEPT ![c] = 0] /\ serving' = [serving EXCEPT ![c] = request[c]]
      /\ UNCHANGED <<prog, op, number>> /\ spoiled \subseteq spoiled'
  BY DEF Serve, ServeWrite
<1>2. /\ request'[c] = 0 /\ serving'[c] = number[c] /\ serving'[c] \in Nat
      /\ \A d \in Client \ {c} : request'[d] = request[d] /\ serving'[d] = serving[d]
  BY <1>1 DEF TypeInv, TypeOK, TurnInv, Numbered
<1>3. /\ handler'[c] = "read" \/ (handler'[c] = "check" /\ op[c] = "write" /\ Sent(c, "info"))
      /\ \A d \in Client \ {c} : handler'[d] = handler[d]
  BY <1>1 DEF Serve, ServeWrite, Begin, TypeInv, TypeOK, WritesOK
<1>4. UNCHANGED in \/ \E kind \in Kinds : Sent(c, kind)
  <2>1. Answers[op[c]] \subseteq Kinds \cup {"silent"}
    BY DEF TypeInv, TypeOK, Answers, Ops, Kinds
  <2> QED BY <2>1 DEF Serve, ServeWrite, Kinds
<1>5. \A d \in Client \ {c} : in'[d] = in[d]
  BY <1>2, <1>4, SentSays DEF TypeInv
<1>6. Numbered(c)'
  BY <1>2, <1>3 DEF Numbered
<1>7. ASSUME c \notin spoiled' PROVE InTurn(c)'
  <2>1. in[c] = <<>> /\ prog[c] \in {"wait", "gone"}
    BY <1>1, <1>7 DEF TurnInv, InTurn, Turn1
  <2>2. Len(in[c]) = 0
    BY <2>1, EmptySeq
  <2>3. ASSUME NEW kind \in Kinds, Sent(c, kind)
       PROVE  \/ prog[c] = "gone" /\ in'[c] = <<>>
              \/ Len(in'[c]) = 1 /\ in'[c][1] = [kind |-> kind, of |-> number[c]]
    <3>1. /\ prog[c] = "gone" => in'[c] = in[c]
          /\ prog[c] # "gone" =>
               /\ Len(in'[c]) = Len(in[c]) + 1
               /\ in'[c][Len(in[c]) + 1] = [kind |-> kind, of |-> serving'[c]]
      BY <1>2, <2>3, SentSays DEF TypeInv
    <3>2. Len(in[c]) + 1 = 1
      BY <2>2
    <3> QED BY <1>2, <2>1, <3>1, <3>2
  <2>4. /\ in'[c] = <<>> \/ (Len(in'[c]) = 1 /\ in'[c][1].of = number[c])
        /\ handler'[c] = "check" /\ prog[c] = "wait" => Len(in'[c]) = 1 /\ in'[c][1].kind = "info"
    <3>1. in'[c] = <<>> \/ (Len(in'[c]) = 1 /\ in'[c][1].of = number[c])
      <4>1. CASE UNCHANGED in
        BY <2>1, <4>1
      <4>2. ASSUME NEW kind \in Kinds, Sent(c, kind)
            PROVE  in'[c] = <<>> \/ (Len(in'[c]) = 1 /\ in'[c][1].of = number[c])
        <5>1. \/ prog[c] = "gone" /\ in'[c] = <<>>
              \/ Len(in'[c]) = 1 /\ in'[c][1] = [kind |-> kind, of |-> number[c]]
          BY <2>3, <4>2
        <5> QED BY <5>1
      <4> QED BY <1>4, <4>1, <4>2
    <3>2. ASSUME handler'[c] = "check", prog[c] = "wait" PROVE Len(in'[c]) = 1 /\ in'[c][1].kind = "info"
      BY <1>3, <2>3, <3>2 DEF Kinds
    <3> QED BY <3>1, <3>2
  <2>5. Turn1(c)' /\ Turn2(c)' /\ Turn4(c)'
    BY <1>1, <1>2, <2>1, <2>4 DEF Turn1, Turn2, Turn4
  <2>6. Turn3(c)'
    BY <1>1, <1>2, <1>3, <2>1, <2>4, Stages DEF Turn3, Head1
  <2> QED BY <2>5, <2>6 DEF InTurn
<1> QED BY <1>1, <1>2, <1>3, <1>5, <1>6, <1>7, TurnStep DEF Serve, ServeWrite

\* The end of the polling comes behind the address, or by itself.
LEMMA TurnCompleted ==
  ASSUME TypeInv, TurnInv, ~down, NEW c \in Client, Completed(c) PROVE TurnInv'
<1>1. /\ handler[c] = "poll" /\ handler' = [handler EXCEPT ![c] = "read"]
      /\ UNCHANGED <<prog, op, number, request, serving, spoiled>> /\ Sent(c, "completed")
  BY DEF Completed, PollCompleted, client, given
<1>2. /\ handler'[c] = "read" /\ \A d \in Client \ {c} : handler'[d] = handler[d]
  BY <1>1 DEF TypeInv, TypeOK, WritesOK
<1>3. serving'[c] \in Nat /\ "completed" \in Kinds
  BY <1>1 DEF TypeInv, TypeOK, Kinds
<1>4. /\ \A d \in Client \ {c} : in'[d] = in[d]
      /\ prog[c] = "gone" => in'[c] = in[c]
      /\ prog[c] # "gone" =>
           /\ Len(in'[c]) = Len(in[c]) + 1
           /\ \A i \in 1..Len(in[c]) : in'[c][i] = in[c][i]
           /\ in'[c][Len(in[c]) + 1] = [kind |-> "completed", of |-> serving'[c]]
  BY <1>1, <1>3, SentSays DEF TypeInv
<1>5. Numbered(c)'
  BY <1>1, <1>2 DEF TurnInv, Numbered
<1>6. ASSUME c \notin spoiled' PROVE InTurn(c)'
  <2>1. InTurn(c) /\ serving[c] = number[c] /\ op[c] = "write" /\ request[c] = 0 /\ prog[c] # "ready"
    BY <1>1, <1>6, Stages DEF TurnInv, InTurn, Turn3
  <2>2. Turn1(c)' /\ Turn3(c)'
    BY <1>1, <1>2, <2>1, Stages DEF Turn1, Turn3
  <2>3. Len(in[c]) \in Nat /\ (in[c] # <<>> => \A i \in 1..Len(in[c]) : in[c][i].of = number[c])
    BY <2>1, Basics DEF TypeInv, InTurn, Turn2
  <2>4. \A i \in 1..Len(in[c]) : in[c][i].of = number[c]
    BY <2>3, EmptySeq
  <2>5. Turn2(c)'
    <3>1. CASE prog[c] = "gone"
      BY <1>1, <1>4, <2>4, <3>1 DEF Turn2
    <3>2. CASE prog[c] # "gone"
      <4>1. in'[c][Len(in[c]) + 1].of = number[c]
        BY <1>1, <1>4, <2>1, <3>2
      <4>2. \A i \in 1..Len(in'[c]) : i \in 1..Len(in[c]) \/ i = Len(in[c]) + 1
        BY <1>4, <2>3, <3>2
      <4> QED BY <1>1, <1>4, <2>1, <2>4, <3>2, <4>1, <4>2 DEF Turn2
    <3> QED BY <3>1, <3>2
  <2>6. Turn4(c)'
    <3> SUFFICES ASSUME prog[c] = "wait" PROVE Len(in'[c]) = 2 /\ in'[c][1].kind = "info"
      BY <1>1, <2>1 DEF Turn4, Head1
    <3>1. Len(in[c]) = 1 /\ in[c][1].kind = "info"
      BY <1>1, <2>1, Stages DEF InTurn, Turn3, Head1
    <3> QED BY <1>4, <3>1
  <2> QED BY <2>2, <2>5, <2>6 DEF InTurn
<1> QED BY <1>1, <1>2, <1>4, <1>5, <1>6, TurnStep DEF Completed, Killed

\* After "Write failed" the client is not counted on; the other steps send nothing.
LEMMA TurnHandler ==
  ASSUME TypeInv, TurnInv, ~down, NEW c \in Client,
         \/ Failed(c) \/ NoRoom(c) \/ Hangup(c)
         \/ Stored(c) \/ Overruns(c)
  PROVE  TurnInv'
<1>1. /\ UNCHANGED <<prog, op, number, request, serving>> /\ spoiled \subseteq spoiled'
      /\ \A d \in Client \ {c} : handler'[d] = handler[d]
      /\ handler'[c] = "ended" => prog[c] = "gone"
  BY DEF Failed, PollFailed, NoRoom, CheckFull, Hangup, Stored, Check, Address, Path, Store, Enter, Overruns, client, given, session, TypeInv, TypeOK,
     WritesOK, TurnInv, Numbered
<1>2. Numbered(c)'
  BY <1>1 DEF TurnInv, Numbered
<1>3. CASE Failed(c)
  <2>1. serving'[c] \in Nat /\ "failed" \in Kinds
    BY <1>1 DEF TypeInv, TypeOK, Kinds
  <2>2. \A d \in Client \ {c} : in'[d] = in[d]
    BY <1>3, <2>1, SentSays DEF Failed, TypeInv
  <2>3. c \in spoiled'
    BY <1>3 DEF Failed
  <2> QED BY <1>1, <1>2, <2>2, <2>3, TurnStep
<1>4. CASE ~Failed(c)
  <2>1. UNCHANGED <<in, spoiled>>
    BY <1>4 DEF NoRoom, Hangup, Stored, Overruns, session
  <2>2. /\ handler[c] \in AtWrite \/ (request[c] = 0 /\ handler'[c] = "ended")
        /\ handler'[c] \in AtWrite => handler[c] \in AtWrite
    BY <1>4, Stages DEF NoRoom, CheckFull, Hangup, Stored, Check, Address, Path, Store, Enter, Overruns,
       Overrun, TypeInv, TypeOK, WritesOK
  <2>3. ASSUME c \notin spoiled' PROVE InTurn(c)'
    <3>1. InTurn(c)
      BY <2>1, <2>3 DEF TurnInv
    <3>2. request[c] = 0
      BY <2>2, <3>1 DEF InTurn, Turn3
    <3> QED BY <1>1, <2>1, <2>2, <3>1, <3>2 DEF InTurn, Turn1, Turn2, Turn3, Turn4, Head1
  <2> QED BY <1>1, <1>2, <2>1, <2>3, TurnStep
<1> QED BY <1>3, <1>4

LEMMA TurnHolds == Spec => []TurnInv
<1>1. Init => TurnInv
  BY Stages DEF Init, WritesInit, TurnInv, Numbered, InTurn, Turn1, Turn2, Turn3, Turn4
<1>2. TypeInv /\ TurnInv /\ [Next]_vars => TurnInv'
  <2> SUFFICES ASSUME TypeInv, TurnInv, [Next]_vars PROVE TurnInv'
    OBVIOUS
  <2>1. ASSUME UNCHANGED <<handler, client, session>> PROVE TurnInv'
    BY <2>1 DEF client, given, session, TurnInv, Numbered, InTurn, Turn1, Turn2, Turn3, Turn4, Head1
  <2>2. ASSUME NEW c \in Client, Handler(c) PROVE TurnInv'
    BY <2>2, TurnServe, TurnCompleted, TurnHandler DEF Handler
  <2>3. ASSUME NEW c \in Client, Program(c) \/ Quit(c) \/ \E o \in Asks[c] : Ask(c, o) PROVE TurnInv'
    BY <2>3, TurnProgram, TurnAsk, SessionAssumption
  <2>4. ASSUME NEW f \in Server, Storage(f) \/ (Lose(f) /\ UNCHANGED <<client, session>>) PROVE TurnInv'
    BY <2>1, <2>4 DEF Storage, Report, Notice, Lose
  <2> QED BY <2>1, <2>2, <2>3, <2>4 DEF Next, vars
<1> QED BY <1>1, <1>2, TypeHolds, PTL DEF Spec

\* Whatever comes for a client is for the command it waits on, unless an earlier
\* COPY left something or a write failed, for any number of clients, commands and
\* entries and any room on a connection (client.c:116-127, naming_server.c:388-403).
THEOREM StaysInStep == Spec => []InStep
<1>1. TurnInv => InStep
  BY DEF TurnInv, InTurn, Turn2, InStep
<1> QED BY <1>1, TurnHolds, PTL

=============================================================================
