------------------------- MODULE MCControlledSync -------------------------
(***************************************************************************)
(* Instances of ControlledSync.  The producer and the consumer can pass;   *)
(* the stream and the empty program meet the bound on evidence, with a     *)
(* result and with a grant; the embrace deadlocks or meets the bound on    *)
(* decisions, and one program misuses its resources.                       *)
(***************************************************************************)
EXTENDS ControlledSync

Do(name, res, value) == [op |-> name, res |-> res, value |-> value]
MCProgram(code, decisions, evidence, attempts) ==
  [code |-> code, max_decisions |-> decisions, max_evidence |-> evidence,
   max_attempts |-> attempts]

ProducerConsumer == <<<<Do("lock", "m", 0), Do("send", "q", 1), Do("unlock", "m", 0)>>,
                      <<Do("receive", "q", 0)>>>>
Stream == <<<<Do("send", "q", 1), Do("send", "q", 2)>>,
            <<Do("receive", "q", 0), Do("receive", "q", 0)>>>>
Embrace == <<<<Do("lock", "m", 0), Do("lock", "n", 0)>>, <<Do("lock", "n", 0), Do("lock", "m", 0)>>>>
Recursive == <<<<Do("checkpoint", "$none", 0), Do("lock", "m", 0), Do("lock", "m", 0)>>,
               <<Do("send", "m", 1)>>>>
Nothing == <<<<>>, <<>>>>
AllPrograms ==
  {MCProgram(ProducerConsumer, 8, 25, 1), MCProgram(Stream, 8, 17, 2),
   MCProgram(Embrace, 4, 26, 1), MCProgram(Recursive, 5, 26, 2), MCProgram(Nothing, 4, 7, 1)}
UnwindProgram == {MCProgram(ProducerConsumer, 8, 18, 1)}
=============================================================================
