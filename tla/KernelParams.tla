---------------------------- MODULE KernelParams ----------------------------
(***************************************************************************)
(* How the arguments of a kernel call reach the parameter memory of its    *)
(* grid (cuda-sim.cc, cuda_runtime_api.cc): the launch takes one argument  *)
(* after the other with its size and its offset, the function binds each   *)
(* to the formal parameter of its number, and finalize lays them out again *)
(* and writes them word by word.                                           *)
(*                                                                         *)
(* A byte of an argument is <<call, number of the argument, place>>.       *)
(***************************************************************************)
EXTENDS Integers, Sequences, SequencesExt, TLC

CONSTANTS Functions,     \* host functions of the kernels
          FormalsOf      \* their formals: sequences of [size, align] in bytes,
                         \* align = 0 where the PTX has no .align

ASSUME FormalsAssumption ==
  FormalsOf \in [Functions -> Seq([size : Nat \ {0}, align : Nat])]

WordSize == 4
RoundUp(address, by) == ((address + by - 1) \div by) * by
AlignOf(formal, size) == IF formal.align = 0 THEN size ELSE formal.align

\* Formals are numbered from 0, in the name <kernel>_param_<number>.
ParamInfo(fn) ==
  [i \in 0 .. Len(FormalsOf[fn]) - 1 |-> FormalsOf[fn][i + 1]]

\* Behind the argument before, which starts at offset.
NextOffset(info, i, offset) ==
  RoundUp(offset + info[i - 1].size, AlignOf(info[i], info[i].size))

\* The size and the offset the launch gives the i-th argument.
ParamConfig(fn) ==
  LET info == ParamInfo(fn)
      offset[i \in DOMAIN info] ==
        IF i = 0 THEN 0 ELSE NextOffset(info, i, offset[i - 1])
  IN [i \in DOMAIN info |-> [size |-> info[i].size, offset |-> offset[i]]]

\* An argument goes to the front of the list of the call.
SetArg(args, call, i, config) ==
  <<[call |-> call, number |-> i, size |-> config.size,
     offset |-> config.offset]>> \o args

\* add_param_data(argcount - argn, a) for argn = 1, 2, ...: the last argument
\* of the list is the first parameter.
AddParamData(args) == [i \in 0 .. Len(args) - 1 |-> args[Len(args) - i]]

WordsOf(arg, address, size) ==
  [a \in address .. address + RoundUp(size, WordSize) - 1 |->
     <<arg.call, arg.number, a - address>>]

\* What is written replaces what the memory has there.
Write(words, memory) ==
  [a \in DOMAIN words \cup DOMAIN memory |->
     IF a \in DOMAIN words THEN words[a] ELSE memory[a]]

\* The smaller of the actual and the formal size counts; the last word of a
\* parameter may take bytes past its end, which the next parameter overwrites.
AddParam(info, values, i, laid) ==
  LET size == IF values[i].size < info[i].size THEN values[i].size
              ELSE info[i].size
      address == RoundUp(laid.next, AlignOf(info[i], size))
  IN [next |-> address + size,
      memory |-> Write(WordsOf(values[i], address, size), laid.memory),
      address |-> [j \in 0 .. i |-> IF j = i THEN address ELSE laid.address[j]]]

\* Memory and addresses after the first n parameters.
Finalize(fn, values) ==
  LET after[n \in 0 .. Len(FormalsOf[fn])] ==
        IF n = 0 THEN [next |-> 0, memory |-> << >>, address |-> << >>]
        ELSE AddParam(ParamInfo(fn), values, n - 1, after[n - 1])
  IN after[Len(FormalsOf[fn])]

InitGrid(fn, args) == Finalize(fn, AddParamData(args))

\* Every parameter starts at the offset it was passed with, as finalize
\* asserts, and all its bytes are those of the argument of its number in the
\* call.
HasArgumentsOf(params, fn, call) ==
  \A i \in DOMAIN ParamInfo(fn) :
    /\ params.address[i] = ParamConfig(fn)[i].offset
    /\ \A b \in 0 .. ParamInfo(fn)[i].size - 1 :
         params.memory[params.address[i] + b] = <<call, i, b>>
=============================================================================
