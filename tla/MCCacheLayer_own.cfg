SPECIFICATION Spec
CONSTANTS
    Tools = {"a", "b"}
    Args = {"x"}
    Slots = {s1, s2}
    Ttl = 1
INVARIANT ServedOwn
