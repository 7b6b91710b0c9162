-------------------------- MODULE ConfigFunctions ---------------------------
(***************************************************************************)
(* What the functions of function_implementations.hpp return for given     *)
(* strings, and what those return that a program added to its parser.      *)
(*                                                                         *)
(* What lies outside of the parser (environment, files, commands, the text *)
(* formats, added functions) are constant partial functions.  A result is  *)
(* a set of at most one entry: none stands for an exception.               *)
(***************************************************************************)
EXTENDS ConfigTree, ConfigIntegers

CONSTANTS
  Environment,   \* of the process: names to strings
  Files,         \* file names to their contents
  Commands,      \* shell commands to their output
  JaxnTexts,     \* texts that are JAXN to the rules that match in them
  ConfigTexts,   \* texts that are config values to the entries phase 1 builds
  Words(_),      \* the words of a string, for split
  Printed(_),    \* the JAXN text of a value, for print
  NotUtf8,       \* the binary contents that are no UTF-8
  Extensions     \* names of functions to what they do with one string

Jaxn == INSTANCE JaxnToEntry WITH
  max_mantissa_digits <- 772, MaxIntegerDigits <- 20, MaxDigits <- 2^20, MaxExponentDigits <- 9

Look(table, s) == {table[t] : t \in DOMAIN table \cap {s}}

(* The string that an argument is: binary data has to be UTF-8. *)
text_of(e) ==
  CASE e.kind = "string" -> {e.string}
    [] e.kind = "binary" -> {e.binary} \ NotUtf8
    [] OTHER             -> {}

jaxn_function(s) == UNION {Jaxn!jaxn_entry(rules) : rules \in Look(JaxnTexts, s)}

split_function(s) ==
  ArrayEntry([i \in DOMAIN Words(s) |-> [NewConcat EXCEPT !.concat = <<StringEntry(Words(s)[i])>>]])

env_if_function(s, d) == StringEntry(IF s \in DOMAIN Environment THEN Environment[s] ELSE d)

StringFunctions == {"binary", "env", "jaxn", "read", "shell", "split", "string"}

string_function(f, s) ==
  CASE f = "binary" -> {BinaryEntry(s)}
    [] f = "env"    -> {StringEntry(t) : t \in Look(Environment, s)}
    [] f = "jaxn"   -> jaxn_function(s)
    [] f = "read"   -> {BinaryEntry(t) : t \in Look(Files, s)}
    [] f = "shell"  -> {StringEntry(t) : t \in Look(Commands, s)}
    [] f = "split"  -> {split_function(s)}
    [] f = "string" -> {StringEntry(s)}
=============================================================================
