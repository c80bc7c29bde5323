------------------------------- MODULE Audit --------------------------------
(* The audit log (audit.rs): JSON lines, each with a sequence number and the  *)
(* hash of the one before.  The hash of a line stands for what it is computed *)
(* from: the earlier hash, the sequence and the event.  An event is written   *)
(* piece by piece, so a failing write leaves a part of it, or all of it       *)
(* without its newline; the next event is then appended to the same line.     *)
EXTENDS Naturals, Sequences

Genesis == <<>>   \* GENESIS_HASH

ComputeHash(sequence, previous, event) == Append(previous, <<sequence, event>>)

EmptyAuditFile == [lines |-> <<>>, ended |-> TRUE]

NewChain == [next |-> 1, previous |-> Genesis]

Chained(chain, event) ==
  [whole |-> TRUE, sequence |-> chain.next, previous |-> chain.previous, event |-> event,
   hash |-> ComputeHash(chain.next, chain.previous, event)]

Broken(line) == [line EXCEPT !.whole = FALSE]

(* The bytes of a line go to the end of the file, whatever it ends with.      *)
AppendLine(file, line, ended) ==
  IF file.ended THEN [lines |-> Append(file.lines, line), ended |-> ended]
  ELSE [lines |-> [file.lines EXCEPT ![Len(file.lines)] = Broken(@)], ended |-> ended]

(* Mutant: the chain moves on before the line is written.                     *)
AdvancedAnyway(chain, line, written) == [next |-> line.sequence + 1, previous |-> line.hash]

(* The chain moves on when the line is on file.                               *)
Advanced(chain, line, written) ==
  IF written THEN [next |-> line.sequence + 1, previous |-> line.hash] ELSE chain

(* verify_existing_chain: what it accepts, and the chain it goes on with.     *)
ChainVerifies(file) ==
  \A i \in 1..Len(file.lines) :
    LET line == file.lines[i]
    IN /\ line.whole
       /\ line.sequence = i
       /\ line.previous = (IF i = 1 THEN Genesis ELSE file.lines[i - 1].hash)
       /\ line.hash = ComputeHash(line.sequence, line.previous, line.event)

ChainOf(file) ==
  IF file.lines = <<>> THEN NewChain
  ELSE [next |-> Len(file.lines) + 1, previous |-> file.lines[Len(file.lines)].hash]

=============================================================================
