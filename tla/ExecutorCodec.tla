---------------------------- MODULE ExecutorCodec ----------------------------
(***************************************************************************)
(* The instruction of the executor program: what the scripts put into it   *)
(* (scripts/lib/direct-venues.mjs, direct-roundtrip.mjs and                *)
(* atomic-executor.mjs) and what the program makes of it                   *)
(* (programs/atomic-executor/src/lib.rs) before it runs a leg.             *)
(*                                                                         *)
(* Abstraction: the data of a leg is its layout (abi), the words at the    *)
(* offsets 8 and 16 (amount and limit) and whether its slices ask for      *)
(* accounts of a transfer hook.  Magic, version, lengths, indices, flags   *)
(* and the user's signature are one field of the instruction, wellFormed;  *)
(* owners, mints and authorities of the two token accounts another,        *)
(* ownAccounts.                                                            *)
(***************************************************************************)
EXTENDS Integers

Programs == {"pump", "meteora", "another"}
Abis == {"pump_buy", "pump_sell", "swap2", "none"}

LegData(abi, amount, limit, hooks) ==
  [abi |-> abi, amount |-> amount, limit |-> limit, hooks |-> hooks]
LegDataOver(amounts) ==
  [abi : Abis, amount : amounts, limit : amounts, hooks : BOOLEAN]

Length(data) == IF data.abi = "swap2" THEN 32 ELSE 24

\* What a venue takes of the quote token for a first leg, at most: the maximum
\* of a Pump buy, the exact input of a swap2.
MaxSpend(data) == IF data.abi = "pump_buy" THEN data.limit ELSE data.amount

----------------------------------------------------------------------------
(* The scripts.  hooks: the pool's mints ask for transfer hooks (the SDK). *)

MeteoraExactInput(input, hooks) == LegData("swap2", input, 0, hooks)
PumpBuy(base, maxQuote) == LegData("pump_buy", base, maxQuote, FALSE)

\* Dynamic legs: the program will patch the amount, here it is 1.
MeteoraDynamic(estimate, hooks) ==
  [MeteoraExactInput(estimate, hooks) EXCEPT !.amount = 1]
PumpDynamicSell == LegData("pump_sell", 1, 1, FALSE)

\* dynamicAmountOffset() checks the template and answers 8.
DynamicTemplate(data) ==
  /\ data.amount = 1
  /\ \/ data.abi = "pump_sell" /\ data.limit = 1
     \/ data.abi = "swap2" /\ data.limit = 0
DynamicAmountOffset == 8

\* buildExecutorInstruction(), which copies the legs and what it is told.
ExecutorInstruction(firstProgram, firstData, secondProgram, secondData, offset) ==
  [firstProgram |-> firstProgram, firstData |-> firstData,
   secondProgram |-> secondProgram, secondData |-> secondData,
   offset |-> offset, wellFormed |-> TRUE, ownAccounts |-> TRUE]

\* buildDirectRoundTrip() throws otherwise: an amount is not positive, or
\* there is nothing to fund.
Composes(direction, input, base, maxQuote) ==
  /\ direction \in {"meteora_to_pump", "pump_to_meteora"}
  /\ input > 0
  /\ direction = "pump_to_meteora" => base > 0 /\ maxQuote > 0

DirectRoundTrip(direction, input, base, maxQuote, hooks) ==
  IF direction = "meteora_to_pump"
  THEN ExecutorInstruction("meteora", MeteoraExactInput(input, hooks),
                           "pump", PumpDynamicSell, DynamicAmountOffset)
  ELSE ExecutorInstruction("pump", PumpBuy(base, maxQuote),
                           "meteora", MeteoraDynamic(base, hooks), DynamicAmountOffset)

----------------------------------------------------------------------------
(* The program.                                                            *)

ParsesInstruction(t) == t.wellFormed /\ t.offset + 8 <= Length(t.secondData)

ValidateProgramPair(t) == {t.firstProgram, t.secondProgram} = {"pump", "meteora"}

ValidatePump(data, abi, dynamic) ==
  /\ data.abi = abi
  /\ IF dynamic THEN data.amount = 1 /\ data.limit = 1
                ELSE data.amount # 0 /\ data.limit # 0

ValidateMeteora(data, dynamic) ==
  /\ data.abi = "swap2" /\ data.limit = 0 /\ ~data.hooks
  /\ IF dynamic THEN data.amount = 1 ELSE data.amount # 0

Legs(t) ==
  \/ /\ t.firstProgram = "pump" /\ t.secondProgram = "meteora"
     /\ ValidatePump(t.firstData, "pump_buy", FALSE) /\ ValidateMeteora(t.secondData, TRUE)
  \/ /\ t.firstProgram = "meteora" /\ t.secondProgram = "pump"
     /\ ValidateMeteora(t.firstData, FALSE) /\ ValidatePump(t.secondData, "pump_sell", TRUE)

\* Mutant: any eight bytes of the second leg may be patched.
ValidateAnyOffset(t) == Legs(t)
ValidateRouteAbis(t) == t.offset = DynamicAmountOffset /\ Legs(t)

TokenStates(t) == t.ownAccounts

\* patch_u64_le() at one of the words, or beyond them.
PatchU64(data, offset, value) ==
  [data EXCEPT !.abi = IF offset = 0 THEN "none" ELSE @,
               !.amount = IF offset = 8 THEN value ELSE @,
               !.limit = IF offset = 16 THEN value ELSE @]
=============================================================================
