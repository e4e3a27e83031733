-------------------------- MODULE BootloaderConfig --------------------------
(***************************************************************************)
(* The configuration a kernel carries in its .bootloader-config section    *)
(* (api/src/config.rs): serialize, run when the kernel is compiled, and    *)
(* deserialize, run by the bootloader.  A configuration is a function from *)
(* field names to values, a section a sequence of bytes.  An integer takes *)
(* two bytes, least significant first.                                     *)
(***************************************************************************)
EXTENDS Integers, Sequences

CONSTANT Base     \* number of values of a byte

ASSUME BaseAssumption == Base \in Nat /\ Base > 2

Bytes == 0..(Base - 1)

Words == 0..(Base * Base - 1)

ToLeBytes(word) == <<word % Base, word \div Base>>

FromLeBytes(bytes) == bytes[1] + Base * bytes[2]

Dynamic == [type |-> "Dynamic"]

FixedAddress(addr) == [type |-> "FixedAddress", addr |-> addr]

None == [type |-> "None"]

Some(value) == [type |-> "Some", value |-> value]

Uuid == 1

Error == [ok |-> FALSE]

Ok(value) == [ok |-> TRUE, value |-> value]

\* The fields, in the order serialize writes them
Written == <<
  <<"uuid", "uuid">>, <<"version_major", "word">>, <<"version_minor", "word">>,
  <<"version_patch", "word">>, <<"pre_release", "flag">>,
  <<"kernel_stack_size", "word">>,
  <<"kernel_stack", "mapping">>, <<"boot_info", "mapping">>, <<"framebuffer", "mapping">>,
  <<"physical_memory", "option_mapping">>, <<"page_table_recursive", "option_mapping">>,
  <<"aslr", "flag">>,
  <<"dynamic_range_start", "option_word">>, <<"dynamic_range_end", "option_word">>,
  <<"ramdisk_memory", "mapping">>,
  <<"minimum_framebuffer_height", "option_word">>, <<"minimum_framebuffer_width", "option_word">> >>

\* Plausible fault: deserialize takes the ends of the dynamic range for each
\* other.
ReadSwapped == [Written EXCEPT ![13] = Written[14], ![14] = Written[13]]

\* and the order in which deserialize takes them
Read == <<
  <<"uuid", "uuid">>, <<"version_major", "word">>, <<"version_minor", "word">>,
  <<"version_patch", "word">>, <<"pre_release", "flag">>,
  <<"kernel_stack_size", "word">>,
  <<"kernel_stack", "mapping">>, <<"boot_info", "mapping">>, <<"framebuffer", "mapping">>,
  <<"physical_memory", "option_mapping">>, <<"page_table_recursive", "option_mapping">>,
  <<"aslr", "flag">>,
  <<"dynamic_range_start", "option_word">>, <<"dynamic_range_end", "option_word">>,
  <<"ramdisk_memory", "mapping">>,
  <<"minimum_framebuffer_height", "option_word">>, <<"minimum_framebuffer_width", "option_word">> >>

Width(type) ==
  CASE type \in {"uuid", "flag"} -> 1
    [] type = "word" -> 2
    [] type \in {"mapping", "option_word"} -> 3
    [] type = "option_mapping" -> 4

\* The values of a field
Mappings == {Dynamic} \cup {FixedAddress(addr) : addr \in Words}

Options(values) == {None} \cup {Some(value) : value \in values}

Values(type) ==
  CASE type = "uuid" -> {Uuid}
    [] type = "flag" -> BOOLEAN
    [] type = "word" -> Words
    [] type = "mapping" -> Mappings
    [] type = "option_word" -> Options(Words)
    [] type = "option_mapping" -> Options(Mappings)

Names == {Written[k][1] : k \in 1..Len(Written)}

IsConfig(config) ==
  /\ config = [name \in Names |-> config[name]]
  /\ \A k \in 1..Len(Written) : config[Written[k][1]] \in Values(Written[k][2])

-----------------------------------------------------------------------------
SerializeMapping(m) == IF m = Dynamic THEN <<0, 0, 0>> ELSE <<1>> \o ToLeBytes(m.addr)

SerializeField(type, value) ==
  CASE type = "uuid" -> <<Uuid>>
    [] type = "word" -> ToLeBytes(value)
    [] type = "flag" -> IF value THEN <<1>> ELSE <<0>>
    [] type = "mapping" -> SerializeMapping(value)
    [] type = "option_mapping" ->
         IF value = None THEN <<0, 0, 0, 0>> ELSE <<1>> \o SerializeMapping(value.value)
    [] type = "option_word" ->
         IF value = None THEN <<0, 0, 0>> ELSE <<1>> \o ToLeBytes(value.value)

\* The buffer after the k-th call of a concat_ function, the last one returned
Concat(parts) ==
  LET buf[k \in 1..Len(parts)] == IF k = 1 THEN parts[k] ELSE buf[k - 1] \o parts[k]
  IN  buf[Len(parts)]

serialize(config) ==
  Concat([k \in 1..Len(Written) |-> SerializeField(Written[k][2], config[Written[k][1]])])

-----------------------------------------------------------------------------
\* Plausible fault: the address of a dynamic mapping is not looked at.
DeserializeMappingLoosely(b) ==
  CASE b[1] = 0 -> Ok(Dynamic)
    [] b[1] = 1 -> Ok(FixedAddress(FromLeBytes(Tail(b))))
    [] OTHER -> Error

DeserializeMapping(b) ==
  CASE b[1] = 0 /\ Tail(b) = <<0, 0>> -> Ok(Dynamic)
    [] b[1] = 1 -> Ok(FixedAddress(FromLeBytes(Tail(b))))
    [] OTHER -> Error

DeserializeOptionMapping(b) ==
  CASE b[1] = 0 /\ Tail(b) = <<0, 0, 0>> -> Ok(None)
    [] b[1] = 1 /\ DeserializeMapping(Tail(b)).ok -> Ok(Some(DeserializeMapping(Tail(b)).value))
    [] OTHER -> Error

DeserializeOptionWord(b) ==
  CASE b[1] = 0 /\ Tail(b) = <<0, 0>> -> Ok(None)
    [] b[1] = 1 -> Ok(Some(FromLeBytes(Tail(b))))
    [] OTHER -> Error

DeserializeField(type, b) ==
  CASE type = "uuid" -> IF b = <<Uuid>> THEN Ok(Uuid) ELSE Error
    [] type = "word" -> Ok(FromLeBytes(b))
    [] type = "flag" -> IF b[1] \in {0, 1} THEN Ok(b[1] = 1) ELSE Error
    [] type = "mapping" -> DeserializeMapping(b)
    [] type = "option_mapping" -> DeserializeOptionMapping(b)
    [] type = "option_word" -> DeserializeOptionWord(b)

\* What comes before field k of the reader's order
Before[k \in 1..(Len(Read) + 1)] ==
  IF k = 1 THEN 0 ELSE Before[k - 1] + Width(Read[k - 1][2])

SerializedLen == Before[Len(Read) + 1]

FieldOf(section, k) ==
  DeserializeField(Read[k][2], SubSeq(section, Before[k] + 1, Before[k + 1]))

\* The version is read and kept, and compared with nothing.
deserialize(section) ==
  IF Len(section) # SerializedLen THEN Error
  ELSE IF \E k \in 1..Len(Read) : ~FieldOf(section, k).ok THEN Error
  ELSE Ok([name \in {Read[k][1] : k \in 1..Len(Read)} |->
             FieldOf(section, CHOOSE k \in 1..Len(Read) : Read[k][1] = name).value])

=============================================================================
