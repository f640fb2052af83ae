-------------------------- MODULE MCModuleGraphLong --------------------------
(* A page of 256 blocks of one instruction, in functions of 32 blocks. *)
EXTENDS ModuleGraph

LongMapped == 256 .. 511

LongCodes ==
  {[a \in LongMapped |->
      CASE a % 32 = 0  -> [op |-> "brcc", tgts |-> {a + 16}]
        [] a % 16 = 15 -> [op |-> "jalr", tgts |-> {}]
        [] OTHER       -> [op |-> "alu", tgts |-> {}]]}

LongProfiles == {[executed |-> LongMapped, brind_target |-> {},
                  segment_entry |-> {a \in LongMapped : a % 32 = 0}]}

=============================================================================
