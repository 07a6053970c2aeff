----------------------------- MODULE ShaModule ------------------------------
(* The extension module "sha" (sha256_hash.pyx as compiled by Cython, built *)
(* for CPython 3.10): how it is imported, called and how it reports errors. *)
(* Each function is a program for the machine of References: what it owns,  *)
(* where each of its calls may fail, and what it cleans up. Names are those *)
(* of the C functions without their prefix. Branches of the preprocessor    *)
(* that this build does not take have no statement.                         *)
EXTENDS FunctionObject

(* The static variables that importing sets. The strings are in three groups, *)
(* "sha256_hash" is the reference by which Python reaches the function, and  *)
(* "cache_entry" is an entry of the cache of code objects; CodeObjectCache   *)
(* has them all.                                                             *)
Strings == {"n_s_RuntimeError", "kp_u_failed", "n_s"}

ModuleVariables ==
  Strings \cup {"main_interpreter", "m", "d", "b", "cython_runtime", "empty_tuple", "empty_bytes", "empty_unicode",
                "CyFunctionType", "builtin_RuntimeError", "tuple_", "tuple__2", "tuple__3", "tuple__4", "codeobj__5",
                "type_type", "sha256_hash", "cache_entry"}

----------------------------------------------------------------------------
(* Import, first half: the module object.                                    *)
check_single_interpreter == [
  entry     |-> <<IfNull("main_interpreter", "first"), If("other_interpreter", "changed"), Succeed>>,
  first     |-> <<Borrow("main_interpreter"), Succeed>>,
  changed   |-> <<Raise("failed")>>,
  failed    |-> <<Fail>>]

copy_spec_to_module == [
  entry     |-> <<New("value", "missing"), Maybe("copied"), Must("unset"), Goto("copied")>>,
  copied    |-> <<Drop("value"), Succeed>>,
  unset     |-> <<Drop("value"), Fail>>,
  missing   |-> <<Maybe("failed"), NoError, Succeed>>,   \* not an AttributeError?
  failed    |-> <<Fail>>]

pymod_create == [
  entry     |-> <<Call("check_single_interpreter", "", "failed"), IfNull("m", "fresh"),
                  Incref("m", "module"), Return("module")>>,
  fresh     |-> <<New("modname", "bad"), New("module", ""), Drop("modname"), IfNull("module", "bad"),
                  Call("copy_spec_to_module", "", "bad"), Call("copy_spec_to_module", "", "bad"),
                  Call("copy_spec_to_module", "", "bad"), Call("copy_spec_to_module", "", "bad"),
                  Return("module")>>,
  bad       |-> <<XDrop("module"), Fail>>,
  failed    |-> <<Fail>>]

(* Import, second half: the module is executed. Its static variables are set *)
(* up to the table of strings ...                                            *)
pymod_exec_globals == [
  entry     |-> <<IfNull("m", "fresh"), If("another_module", "imported"), Succeed>>,
  imported  |-> <<Raise("failed")>>,
  failed    |-> <<Fail>>,
  fresh     |-> <<Borrow("pyinit_module"), Incref("pyinit_module", "m"), New("d", "L1"), New("b", "L1"),
                  New("cython_runtime", "L1"), Must("L1"), Call("check_binary_version", "", "L1"),
                  New("empty_tuple", "L1"), New("empty_bytes", "L1"), New("empty_unicode", "L1"),
                  Call("CyFunction_init", "", "L1"), Call("InitConstants", "", "L1"),
                  Goto("strings")>>]

(* ... and then the names it looks up, its constants, and its one function.  *)
(* "stringtab_initialized" is the flag of that name.                         *)
pymod_exec_body == [
  strings   |-> <<Borrow("stringtab_initialized"), Must("L1"), Call("InitCachedBuiltins", "", "L1"),
                  Call("InitCachedConstants", "", "L1"), Call("modinit_type_import_code", "", "L1"),
                  New("t_2", "L1"), Uses("n_s"), Must("L1"), Call("CyFunction_New", "t_3", "L1"),
                  Uses("t_2"), Clear("t_2"), Must("L1"), Incref("t_3", "sha256_hash"), Clear("t_3"),
                  New("t_3", "L1"), Must("L1"), Clear("t_3"), Succeed>>,
  L1        |-> <<XDrop("t_2"), XDrop("t_3"), IfNull("d", "undo"), IfNull("stringtab_initialized", "undo"),
                  Call("AddTraceback", "", ""), Goto("undo")>>,
  undo      |-> <<XClear("m"), Fail>>]

pymod_exec == pymod_exec_globals @@ pymod_exec_body

(* PyErr_WarnEx fails when the warning is an error.                          *)
check_binary_version == [
  entry     |-> <<Maybe("same"), Must("failed"), Goto("same")>>,
  same      |-> <<Succeed>>,
  failed    |-> <<Fail>>]

(* What InitString returns is not looked at.                                 *)
InitStrings == [
  entry     |-> <<New("n_s_RuntimeError", ""), New("kp_u_failed", ""), New("n_s", ""), Succeed>>]

CreateStringTabAndInitStrings == [
  entry     |-> <<Call("InitStrings", "", "failed"), Succeed>>,
  failed    |-> <<Fail>>]

InitConstants == [
  entry     |-> <<Call("CreateStringTabAndInitStrings", "", "failed"), Succeed>>,
  failed    |-> <<Fail>>]

PyObject_GetAttrStrNoError == [
  entry     |-> <<New("result", "missing"), Return("result")>>,
  missing   |-> <<Maybe("failed"), NoError, Fail>>,      \* an AttributeError is cleared
  failed    |-> <<Fail>>]

(* A variant of GetBuiltinName that leaves "not found" without an exception. *)
GetBuiltinName_NoNameError == [
  entry     |-> <<Uses("b"), Uses("n_s_RuntimeError"),
                  Call("PyObject_GetAttrStrNoError", "result", "failed"), Return("result")>>,
  failed    |-> <<Fail>>]

GetBuiltinName == [
  entry     |-> <<Uses("b"), Uses("n_s_RuntimeError"),
                  Call("PyObject_GetAttrStrNoError", "result", "missing"), Return("result")>>,
  missing   |-> <<IfExc("failed"), Raise("failed")>>,
  failed    |-> <<Fail>>]

InitCachedBuiltins == [
  entry     |-> <<Call("GetBuiltinName", "builtin_RuntimeError", "failed"), Succeed>>,
  failed    |-> <<Fail>>]

(* A variant of InitCachedConstants that does not look at one result.        *)
InitCachedConstants_Unchecked == [
  entry     |-> <<Uses("kp_u_failed"), New("tuple_", "failed"), New("tuple__2", ""),
                  New("tuple__3", "failed"), Uses("n_s"), New("tuple__4", "failed"),
                  Uses("empty_bytes"), Uses("empty_tuple"), New("codeobj__5", "failed"), Succeed>>,
  failed    |-> <<Fail>>]

InitCachedConstants == [
  entry     |-> <<Uses("kp_u_failed"), New("tuple_", "failed"), New("tuple__2", "failed"),
                  New("tuple__3", "failed"), Uses("n_s"), New("tuple__4", "failed"),
                  Uses("empty_bytes"), Uses("empty_tuple"), New("codeobj__5", "failed"), Succeed>>,
  failed    |-> <<Fail>>]

ImportType == [
  entry     |-> <<New("result", "bad"), Maybe("refused"), Maybe("refused"), Maybe("warn"), Return("result")>>,
  refused   |-> <<Raise("bad")>>,
  warn      |-> <<Must("bad"), Return("result")>>,
  bad       |-> <<XDrop("result"), Fail>>]

modinit_type_import_code == [
  entry     |-> <<New("t_1", "L1"), Call("ImportType", "type_type", "L1"), Clear("t_1"), Succeed>>,
  L1        |-> <<XDrop("t_1"), Fail>>]

----------------------------------------------------------------------------
(* The type of the function, shared with other Cython modules, and the       *)
(* function object.                                                          *)
VerifyCachedType == [
  entry     |-> <<Maybe("refused"), Maybe("refused"), Succeed>>,
  refused   |-> <<Raise("failed")>>,
  failed    |-> <<Fail>>]

(* A variant of FetchCommonTypeFromSpec that does not reset cached_type.     *)
FetchCommonTypeFromSpec_NoReset == [
  entry     |-> <<New("abi_module", "failed"), New("cached_type", "missing"),
                  Call("VerifyCachedType", "", "bad"), Goto("done")>>,
  missing   |-> <<Maybe("bad"), NoError, New("cached_type", "bad"), Must("bad"), Must("bad"), Goto("done")>>,
  bad       |-> <<XDrop("cached_type"), Goto("done")>>,
  done      |-> <<Drop("abi_module"), Return("cached_type")>>,
  failed    |-> <<Fail>>]

FetchCommonTypeFromSpec == [
  entry     |-> <<New("abi_module", "failed"), New("cached_type", "missing"),
                  Call("VerifyCachedType", "", "bad"), Goto("done")>>,
  missing   |-> <<Maybe("bad"), NoError, New("cached_type", "bad"), Must("bad"), Must("bad"), Goto("done")>>,
  bad       |-> <<XClear("cached_type"), Goto("done")>>,
  done      |-> <<Drop("abi_module"), Return("cached_type")>>,
  failed    |-> <<Fail>>]

CyFunction_init == [
  entry     |-> <<Call("FetchCommonTypeFromSpec", "CyFunctionType", "failed"), Succeed>>,
  failed    |-> <<Fail>>]

CyFunction_New == [
  entry     |-> <<Uses("CyFunctionType"), New("op", "failed"), Uses("n_s"), Uses("d"), Uses("codeobj__5"),
                  Return("op")>>,
  failed    |-> <<Fail>>]

----------------------------------------------------------------------------
(* A call: from the interpreter by vectorcall, or through __call__ with a    *)
(* tuple and a dictionary.                                                   *)
CyFunction_Vectorcall_FASTCALL_KEYWORDS == [
  entry     |-> <<Uses("sha256_hash"), Call("pw_sha256_hash", "res", ""), Return("res")>>]

PyVectorcall_FastCallDict == [
  entry     |-> <<If("kwds", "keywords"), Call("CyFunction_Vectorcall_FASTCALL_KEYWORDS", "res", ""),
                  Return("res")>>,
  keywords  |-> <<Call("PyVectorcall_FastCallDict_kw", "res", ""), Return("res")>>]

PyVectorcall_FastCallDict_kw == [
  entry     |-> <<New("newargs", "failed"), New("kwnames", "no_names"), Borrow("key"), Incref("key", "kwvalues"),
                  If("nonstring_kw", "refused"),
                  Call("CyFunction_Vectorcall_FASTCALL_KEYWORDS", "res", ""), Goto("cleanup")>>,
  refused   |-> <<Raise("cleanup")>>,
  cleanup   |-> <<Drop("kwnames"), Drop("kwvalues"), Drop("newargs"), Return("res")>>,
  no_names  |-> <<Drop("newargs"), Fail>>,
  failed    |-> <<Fail>>]

CyFunction_CallAsMethod == [
  entry     |-> <<Uses("sha256_hash"), Call("PyVectorcall_FastCallDict", "result", ""), Return("result")>>]

(* The arguments of the call: exactly one, by position or as "message".      *)
pw_sha256_hash == [
  entry     |-> <<If("kwds", "kwds"), If("onearg", "take"), Goto("L5")>>,
  kwds      |-> <<If("twoargs", "L5"), If("onearg", "extra"),
                  Call("GetKwValue_FASTCALL", "values", "missing"), If("other_kw", "parse"), Goto("L6")>>,
  missing   |-> <<IfExc("L3"), Goto("L5")>>,
  extra     |-> <<Borrow("values"), If("message_kw", "parse"), If("other_kw", "parse"), Goto("L6")>>,
  parse     |-> <<Call("ParseOptionalKeywords", "", "L3"), Goto("L6")>>,
  take      |-> <<Borrow("values"), Goto("L6")>>,
  L5        |-> <<Call("RaiseArgtupleInvalid", "", ""), Goto("L3")>>,
  L3        |-> <<Call("AddTraceback", "", ""), Fail>>,
  L6        |-> <<Uses("values"), Call("ArgTypeTest", "", "L1"), Call("pf_sha256_hash", "r", ""), Return("r")>>,
  L1        |-> <<Return("r")>>]

PyUnicode_Equals == [
  entry     |-> <<Maybe("strings"), New("py_result", "failed"), Must("untold"), Drop("py_result"), Succeed>>,
  untold    |-> <<Drop("py_result"), Fail>>,
  strings   |-> <<Must("failed"), Succeed>>,
  failed    |-> <<Fail>>]

(* NULL without an exception: there is no such keyword.                      *)
GetKwValue_FASTCALL == [
  entry     |-> <<If("message_kw", "given"), If("other_kw", "compare"), Fail>>,
  compare   |-> <<Uses("n_s"), Call("PyUnicode_Equals", "", "failed"), Fail>>,
  given     |-> <<Maybe("found"), Uses("n_s"), Call("PyUnicode_Equals", "", "failed"), Goto("found")>>,
  found     |-> <<Borrow("kwvalue"), Return("kwvalue")>>,
  failed    |-> <<Fail>>]

(* Each turn of the loop ends with the key and the value released; "message" *)
(* comes first.                                                              *)
ParseOptionalKeywords == [
  entry     |-> <<Borrow("kwname"), If("message_kw", "message"), Goto("next")>>,
  message   |-> <<If("onearg", "twice"), Maybe("next"), Incref("kwname", "key"), Incref("kwname", "value"),
                  Uses("n_s"), Must("bad"), Goto("next")>>,
  twice     |-> <<Incref("kwname", "key"), Incref("kwname", "value"), Must("bad"), Raise("bad")>>,
  next      |-> <<XClear("key"), XClear("value"), If("other_kw", "other"), XDrop("key"), XDrop("value"), Succeed>>,
  other     |-> <<Incref("kwname", "key"), Incref("kwname", "value"), If("nonstring_kw", "invalid"),
                  Must("bad"), Goto("invalid")>>,
  invalid   |-> <<Raise("bad")>>,
  bad       |-> <<XDrop("key"), XDrop("value"), Fail>>]

RaiseArgtupleInvalid == [
  entry     |-> <<Raise("out")>>,
  out       |-> <<Void>>]

(* None is allowed.                                                          *)
ArgTypeTest == [
  entry     |-> <<If("notbytes", "refused"), Succeed>>,
  refused   |-> <<Raise("failed")>>,
  failed    |-> <<Fail>>]

----------------------------------------------------------------------------
(* The body of sha256_hash. OpenSSL's functions report failure without an    *)
(* exception; the last one writes into the buffer.                           *)
pf_sha256_hash_digest == [
  entry     |-> <<Malloc("hash"), If("none", "no_len"), Maybe("unready"), If("none", "no_bytes"),
                  Maybe("unready"), Uses("hash"), Maybe("unready"), Goto("result")>>,
  no_len    |-> <<Raise("L1")>>,
  no_bytes  |-> <<Raise("L1")>>,
  unready   |-> <<XDrop("hash"), Uses("builtin_RuntimeError"), Uses("tuple_"), Uses("tuple__2"), Uses("tuple__3"),
                  Call("PyObject_Call", "t_3", "L1"), Uses("t_3"), Call("Raise_exception", "", ""),
                  Clear("t_3"), Goto("L1")>>]

pf_sha256_hash_result == [
  result    |-> <<Uses("hash"), New("t_3", "L1"), Move("t_3", "py_hash"), XDrop("hash"),
                  Incref("py_hash", "r"), Goto("L0")>>,
  L1        |-> <<XDrop("t_3"), Call("AddTraceback", "", ""), Goto("L0")>>,
  L0        |-> <<XDrop("py_hash"), Return("r")>>]

pf_sha256_hash == pf_sha256_hash_digest @@ pf_sha256_hash_result

PyObject_Call == [
  entry     |-> <<Maybe("no_slot"), Must("failed"), Maybe("check"), New("result", "check"), Return("result")>>,
  no_slot   |-> <<New("result", "failed"), Return("result")>>,
  check     |-> <<IfExc("failed"), Raise("failed")>>,    \* NULL without an exception
  failed    |-> <<Fail>>]

(* For any type, value, traceback and cause.                                 *)
Raise_exception == [
  entry     |-> <<Maybe("refused"), Maybe("instance"), Maybe("class"), Goto("refused")>>,
  instance  |-> <<Maybe("refused"), Goto("cause")>>,
  class     |-> <<Must("bad"), Maybe("cause"), New("args", "bad"), New("owned_instance", ""), Drop("args"),
                  IfNull("owned_instance", "bad"), Maybe("refused"), Goto("cause")>>,
  cause     |-> <<Maybe("set"), Maybe("refused"), New("fixed_cause", "bad"), Drop("fixed_cause"), Goto("set")>>,
  set       |-> <<Raise("bad")>>,
  refused   |-> <<Raise("bad")>>,
  bad       |-> <<XDrop("owned_instance"), Void>>]

----------------------------------------------------------------------------
(* The traceback of an error, with the code object made for it.              *)
CLineForTraceback == [
  entry     |-> <<IfNull("cython_runtime", "done"), Fetch("fetched"), Maybe("attribute"), Uses("n_s"),
                  Maybe("unset"), Must(""), Goto("restore")>>,
  attribute |-> <<Uses("n_s"), Call("PyObject_GetAttrStrNoError", "use_cline_obj", "no_attr"), Must(""),
                  Drop("use_cline_obj"), Goto("restore")>>,
  no_attr   |-> <<NoError, Goto("unset")>>,
  unset     |-> <<Uses("cython_runtime"), Uses("n_s"), Must(""), Goto("restore")>>,
  restore   |-> <<Restore("fetched"), Void>>,
  done      |-> <<Void>>]

find_code_object == [
  entry     |-> <<IfNull("cache_entry", "missing"), Maybe("missing"), Incref("cache_entry", "code_object"),
                  Return("code_object")>>,
  missing   |-> <<Fail>>]

insert_code_object == [
  entry     |-> <<Borrow("code_object"), Maybe("done"), IfNull("cache_entry", "store"), Void>>,
  store     |-> <<Incref("code_object", "cache_entry"), Void>>,
  done      |-> <<Void>>]

CreateCodeObjectForTraceback == [
  entry     |-> <<Maybe("plain"), New("py_funcname", "bad"), Must("bad"), New("py_code", ""),
                  XDrop("py_funcname"), Return("py_code")>>,
  plain     |-> <<New("py_code", ""), XDrop("py_funcname"), Return("py_code")>>,
  bad       |-> <<XDrop("py_funcname"), Fail>>]

AddTraceback == [
  entry     |-> <<Call("CLineForTraceback", "", ""), Call("find_code_object", "py_code", "create"),
                  Goto("frame")>>,
  create    |-> <<Fetch("fetched"), Call("CreateCodeObjectForTraceback", "py_code", "no_code"),
                  Restore("fetched"), Call("insert_code_object", "", ""), Goto("frame")>>,
  no_code   |-> <<XDrop("fetched"), Goto("bad")>>,
  frame     |-> <<Uses("d"), New("py_frame", "bad"), Must("bad"), Goto("bad")>>,
  bad       |-> <<XDrop("py_code"), XDrop("py_frame"), Void>>]

----------------------------------------------------------------------------
(* importlib: a module that could not be executed is forgotten, and what it  *)
(* defined with it.                                                          *)
import_sha == [
  entry     |-> <<Call("pymod_create", "module", "failed"), Call("pymod_exec", "", "undo"), Drop("module"), Succeed>>,
  undo      |-> <<Drop("module"), IfNull("m", "forget"), Fail>>,
  forget    |-> <<XClear("sha256_hash"), Fail>>,
  failed    |-> <<Fail>>]

ShaCode == FunctionCode @@ [
  check_single_interpreter |-> check_single_interpreter, copy_spec_to_module |-> copy_spec_to_module,
  pymod_create |-> pymod_create, pymod_exec |-> pymod_exec, check_binary_version |-> check_binary_version,
  InitStrings |-> InitStrings, CreateStringTabAndInitStrings |-> CreateStringTabAndInitStrings,
  InitConstants |-> InitConstants, PyObject_GetAttrStrNoError |-> PyObject_GetAttrStrNoError,
  GetBuiltinName |-> GetBuiltinName, InitCachedBuiltins |-> InitCachedBuiltins,
  InitCachedConstants |-> InitCachedConstants, ImportType |-> ImportType,
  modinit_type_import_code |-> modinit_type_import_code, VerifyCachedType |-> VerifyCachedType,
  FetchCommonTypeFromSpec |-> FetchCommonTypeFromSpec, CyFunction_init |-> CyFunction_init,
  CyFunction_New |-> CyFunction_New,
  CyFunction_Vectorcall_FASTCALL_KEYWORDS |-> CyFunction_Vectorcall_FASTCALL_KEYWORDS,
  PyVectorcall_FastCallDict |-> PyVectorcall_FastCallDict,
  PyVectorcall_FastCallDict_kw |-> PyVectorcall_FastCallDict_kw,
  CyFunction_CallAsMethod |-> CyFunction_CallAsMethod, pw_sha256_hash |-> pw_sha256_hash,
  PyUnicode_Equals |-> PyUnicode_Equals, GetKwValue_FASTCALL |-> GetKwValue_FASTCALL,
  ParseOptionalKeywords |-> ParseOptionalKeywords, RaiseArgtupleInvalid |-> RaiseArgtupleInvalid,
  ArgTypeTest |-> ArgTypeTest, pf_sha256_hash |-> pf_sha256_hash, PyObject_Call |-> PyObject_Call,
  Raise_exception |-> Raise_exception, CLineForTraceback |-> CLineForTraceback,
  find_code_object |-> find_code_object, insert_code_object |-> insert_code_object,
  CreateCodeObjectForTraceback |-> CreateCodeObjectForTraceback, AddTraceback |-> AddTraceback,
  import_sha |-> import_sha]

----------------------------------------------------------------------------
(* No function of the module uses what is not there and none releases what   *)
(* it does not own, whatever library calls fail and however often it is      *)
(* imported and called, except: the digest is written without looking at     *)
(* what malloc returned (sha256_hash.c:2469), and the results of the string  *)
(* table's entries are not looked at (sha256_hash.c:6543).                   *)
OnlyKnownFaults ==
  \A x \in Faults : x = <<"pf_sha256_hash", "hash">> \/ x[2] \in Strings

(* No reference is forgotten on any path of any function, except the buffer  *)
(* of the digest when the message is None or the result cannot be made       *)
(* (sha256_hash.c:2479, 2620), what an import that failed had already set up *)
(* when the import is tried again (sha256_hash.c:3066), and one of the two   *)
(* defaults if only the other is still to be had (sha256_hash.c:4534). When a *)
(* function object is gone, so is every reference that it held.              *)
SetAgain == {<<"pymod_exec", v>> : v \in {"d", "b", "cython_runtime", "empty_tuple", "empty_bytes", "empty_unicode"}}
            \cup {<<"CyFunction_init", "CyFunctionType">>}
            \cup ({"InitStrings", "InitCachedConstants", "InitCachedBuiltins", "modinit_type_import_code"} \X Globals)

OnlyKnownLeaks ==
  /\ Forgets \subseteq {<<"pf_sha256_hash", "hash">>}
  /\ Overwrites \subseteq SetAgain \cup ({"init_defaults"} \X {"defaults_tuple", "defaults_kwdict"})
  /\ Overwrites \cap SetAgain # {} => mem[1]["sha256_hash"] = "null"
  /\ FieldsReleased

(* A function that fails leaves an exception for its caller, one that        *)
(* succeeds leaves none, and a traceback is added to an exception that was   *)
(* raised: in Python, breaking this is a SystemError or an exception in the  *)
(* wrong place. A lookup may find nothing without an exception, the string   *)
(* table hides its failures, and the setters of the defaults succeed with    *)
(* the exception of their warning (sha256_hash.c:4559, 4590).                *)
MayFindNothing == {"GetKwValue_FASTCALL", "PyObject_GetAttrStrNoError", "find_code_object"}

SetException == {"Raise_exception", "RaiseArgtupleInvalid", "AddTraceback"}

HiddenFailure == mem[1]["m"] = "own" /\ \E v \in Strings : mem[1][v] = "null"

ErrorProtocol ==
  Running("return") =>
    /\ Failed(Returned) => exc \/ Top.fn \in MayFindNothing
    /\ Returned \in Live \cup {"ok"} =>
         ~exc \/ Top.fn \in {"find_code_object", "set_defaults", "set_kwdefaults"} \/ HiddenFailure
    /\ Top.fn \in SetException => exc

(* When Python can reach the function, everything its calls read is set up,  *)
(* although the function is in the module's dictionary before the import has *)
(* ended, and a failed import takes back the module but not what it set up.  *)
ReadyWhenReached ==
  mem[1]["sha256_hash"] = "own" /\ stack = <<>> =>
    \A v \in ModuleVariables \ {"cache_entry"} : mem[1][v] \in Live
=============================================================================
