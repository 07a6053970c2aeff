------------------------------- MODULE MCSha --------------------------------
(* The module "sha" for TLC: its functions and variables, and everything     *)
(* that Python may do with it: import it, call its function with any         *)
(* arguments, use the attributes of a function object. To begin with, there  *)
(* is a process that has not imported it, or a function object, or neither.  *)
EXTENDS ShaModule

MCCode == ShaCode

MCGlobals == ModuleVariables \cup Fields \cup {"process", "function", "cache"}

MCLocals == {"new", "tmp", "item", "fromlist", "None", "True", "value", "module", "modname", "pyinit_module", "stringtab_initialized", "t_1", "t_2", "t_3", "result",
             "abi_module", "cached_type", "op", "res", "newargs", "kwnames", "key", "kwvalues", "values", "r",
             "py_result", "kwvalue", "kwname", "hash", "py_hash", "args", "owned_instance", "fixed_cause",
             "fetched", "use_cline_obj", "code_object", "py_funcname", "py_code", "py_frame"}

Positional == {{"noargs"}, {"onearg"}, {"twoargs"}}
Keywords   == {{}, {"kwds", "message_kw"}, {"kwds", "other_kw"}, {"kwds", "message_kw", "other_kw"}}
Messages   == {{}, {"none"}, {"notbytes"}}

Arguments == { p \cup k \cup m : p \in Positional, k \in Keywords, m \in Messages }

Callers == {"CyFunction_Vectorcall_FASTCALL_KEYWORDS", "CyFunction_CallAsMethod"}

MCRoots == [f \in Callers \cup Attributes \cup {"import_sha"} |->
              CASE f = "import_sha" -> {{}, {"other_interpreter"}, {"another_module"}}
                [] f = "CyFunction_Vectorcall_FASTCALL_KEYWORDS" -> Arguments
                [] f = "CyFunction_CallAsMethod" ->
                     Arguments \cup {{"onearg", "kwds", "other_kw", "nonstring_kw"}}
                [] OTHER -> {{}, {"deleted"}, {"wrong"}, {"defaults_getter"}, {"coroutine"}}]

MCNeeds == [f \in DOMAIN MCRoots |-> CASE f = "import_sha" -> "process"
                                      [] f \in Callers       -> "sha256_hash"
                                      [] OTHER             -> "function"]

MCStatics == { [v \in MCGlobals |-> IF v = "process" THEN "own" ELSE "null"],
               [v \in MCGlobals |-> CASE v \in Fields    -> CyFunction_Init[v]
                                     [] v = "function" -> "own"
                                     [] OTHER          -> "null"],
               [v \in MCGlobals |-> IF v = "cache" THEN "own" ELSE "null"] }
=============================================================================
